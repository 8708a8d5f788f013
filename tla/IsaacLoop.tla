----------------------------- MODULE IsaacLoop -----------------------------
(***************************************************************************)
(* The loop of the Isaac simulator service, simulators/isaac/service.py :  *)
(* run() with reset_episode and _step_physics, the control that a step     *)
(* applies (_apply_control, efforts per joint group, the passive fallback),*)
(* the start-up support band and the hold of the reset pose, driven by a   *)
(* DDS controller.  Around the loop : the control endpoint's thread and    *)
(* the UI queue resets and shutdowns, the operator plays and pauses the    *)
(* timeline, the deployment writes commands.                               *)
(*                                                                         *)
(* The loop starts when start() has returned and the timeline plays.  Left *)
(* out : scene, physics and rendering, camera, video, telemetry, pacing,   *)
(* the paused loop, which only renders, the TimelineState it reports, the  *)
(* kinematic replay, which has no controller, and the sequence check,      *)
(* which a controller that numbers its own polls always passes.            *)
(***************************************************************************)
EXTENDS DdsController, Sequences

CONSTANTS
  HasSupport,    \* TRUE if the profile declares a support band
  ArmTicks,      \* constant commands that arm the band
  MaxSupport,    \* ticks after the first command that let the band go
  HoldRequested, \* TRUE if a reset pose is given and held
  MinHold,       \* tick before which the hold does not look at commands
  HistTicks,     \* commands in the hold's stability window
  ReleaseTicks,  \* ticks a departure has to last
  Feedforward,   \* TRUE if gravity torques are added, a query that may fail
  MaxEpisode,    \* bound on the episodes : resets are asked for up to this one
  MaxTick,       \* per episode, the tick after which it is stepped no more
  AskTick        \* bound on the tick at which a reset is asked for

ASSUME LoopAssumption ==
  /\ {ArmTicks, MaxSupport, ReleaseTicks} \subseteq Nat \ {0}
  /\ HistTicks \in Nat /\ HistTicks >= 2
  /\ MinHold \in Nat
  /\ {HasSupport, HoldRequested, Feedforward} \subseteq BOOLEAN

ASSUME BoundAssumption ==
  /\ MaxEpisode \in Nat /\ AskTick \in Nat
  /\ MaxTick \in [0 .. MaxEpisode -> Nat]

VARIABLES
  pc,       \* the loop : "top", "reset", "step", "flush", "stopped"
  playing,  \* the timeline plays
  tick, episode,
  pendingReset, pendingShutdown,
  mode,     \* _control_mode
  effort,   \* per group, the message whose torque is staged, or Nothing for zero
  passive,  \* _passive_groups : groups whose zero torque is already staged
  band,     \* the support band
  hold,     \* the hold of the reset pose
  claimed,  \* history : commands applied in this episode
  owed      \* history : the episode that answers the last reset asked for

loopVars == <<pc, playing, tick, episode, pendingReset, pendingShutdown, mode,
              effort, passive, band, hold, claimed, owed>>
vars == <<ddsVars, loopVars>>

NoTick == -1
SlackBand == [started |-> NoTick, armed |-> FALSE, static |-> 0, prev |-> "nothing",
              released |-> NoTick]
FreshHold == [active |-> HoldRequested, ref |-> "nothing", hist |-> <<>>, cand |-> NoTick]

Init ==
  /\ DdsInit
  /\ pc = "top" /\ playing = TRUE
  /\ tick = 0 /\ episode = 0
  /\ pendingReset = FALSE /\ pendingShutdown = FALSE
  /\ mode = "PASSIVE" /\ effort = [g \in Groups |-> Nothing] /\ passive = {}
  /\ band = SlackBand /\ hold = FreshHold
  /\ claimed = 0 /\ owed = 0

-----------------------------------------------------------------------------
(* The other threads. *)

\* _queue_reset, from the control endpoint or the UI.  A reset under way does not
\* answer it : the next episode but one does.
QueueReset ==
  /\ pc # "stopped" /\ tick <= AskTick
  /\ pendingReset' = TRUE
  /\ owed' = IF pc = "reset" THEN episode + 2 ELSE episode + 1
  /\ owed' <= MaxEpisode
  /\ UNCHANGED <<ddsVars, pc, playing, tick, episode, pendingShutdown, mode, effort,
                 passive, band, hold, claimed>>

RequestShutdown ==
  /\ ~pendingShutdown /\ pc # "stopped"
  /\ pendingShutdown' = TRUE
  /\ UNCHANGED <<ddsVars, pc, playing, tick, episode, pendingReset, mode, effort,
                 passive, band, hold, claimed, owed>>

\* The operator's play and pause buttons, handled while the app updates.
Timeline ==
  /\ pc = "top" /\ playing' = ~playing
  /\ UNCHANGED <<ddsVars, pc, tick, episode, pendingReset, pendingShutdown, mode,
                 effort, passive, band, hold, claimed, owed>>

Environment ==
  \/ QueueReset \/ RequestShutdown \/ Timeline
  \/ /\ pc # "stopped"
     /\ PublishLoop \/ \E g \in Groups, q \in Inputs : Deploy(g, q)
     /\ UNCHANGED loopVars

-----------------------------------------------------------------------------
(* The support band and the hold of the reset pose. *)

\* _update_support on the body target of an applied command.
UpdateSupport(q) ==
  LET started == IF band.started = NoTick THEN tick ELSE band.started
      b       == [band EXCEPT !.started = started]
      moved   == b.prev # "nothing" /\ b.prev # q
      still   == b.prev = q
  IN  IF ~HasSupport \/ band.released # NoTick THEN band
      ELSE IF tick - started >= MaxSupport THEN [b EXCEPT !.released = tick]
      ELSE [b EXCEPT !.prev     = q,
                     !.static   = IF still THEN @ + 1 ELSE IF moved THEN 0 ELSE @,
                     !.armed    = @ \/ (still /\ b.static + 1 >= ArmTicks),
                     !.released = IF moved /\ b.armed THEN tick ELSE @]

Pushed(hist, q) == IF Len(hist) < HistTicks THEN Append(hist, q) ELSE Append(Tail(hist), q)
Stable(hist) == Len(hist) >= HistTicks /\ \A i \in DOMAIN hist : hist[i] = hist[1]

\* _update_reset_pose_hold on the body target of a valid command.
UpdateHold(q) ==
  IF ~hold.active THEN hold
  ELSE IF tick < MinHold THEN [hold EXCEPT !.hist = <<q>>]
  ELSE IF hold.ref = "nothing" THEN
    [hold EXCEPT !.ref  = IF Stable(hold.hist) THEN q ELSE @,
                 !.hist = Pushed(@, q)]
  ELSE IF q = hold.ref THEN [hold EXCEPT !.cand = NoTick]
  ELSE IF hold.cand = NoTick THEN [hold EXCEPT !.cand = tick]
  ELSE [hold EXCEPT !.active = tick - hold.cand < ReleaseTicks]

-----------------------------------------------------------------------------
(* Control : _apply_control and what it stages. *)

\* Mutant : staging a torque leaves the group among the passive ones.
WriteEffort_StaysPassive(messages) ==
  /\ effort' = [g \in Groups |-> IF messages[g] # Nothing THEN messages[g]
                                 ELSE IF g \in passive THEN effort[g] ELSE Nothing]
  /\ passive' = passive \cup {g \in Groups : messages[g] = Nothing}

\* _write_effort for the groups with a message, _write_passive for the others ; a
\* group already passive is not written again.
WriteEffort(messages) ==
  /\ effort' = [g \in Groups |-> IF messages[g] # Nothing THEN messages[g]
                                 ELSE IF g \in passive THEN effort[g] ELSE Nothing]
  /\ passive' = {g \in Groups : messages[g] = Nothing}

\* _go_passive
GoPassive ==
  /\ effort' = [g \in Groups |-> IF g \in passive THEN effort[g] ELSE Nothing]
  /\ passive' = Groups

\* The command is of this episode and still valid at this tick.
Usable(messages, since) ==
  Polled(messages, since) /\ ctlEpisode = episode /\ tick <= since + Ttl

Apply ==
  /\ Usable(held', commandTick')
  /\ WriteEffort(held')
  /\ hold' = UpdateHold(held'["body"].q)
  /\ band' = UpdateSupport(held'["body"].q)
  /\ mode' = "CONTROLLED" /\ claimed' = claimed + 1

\* No command, a rejected one, or gravity torques that are not finite.
FallBack ==
  /\ ~Usable(held', commandTick') \/ Feedforward
  /\ GoPassive
  /\ mode' = "PASSIVE" /\ UNCHANGED <<hold, band, claimed>>

ApplyControl ==
  /\ pc = "step" /\ pc' = "flush"
  /\ ReceiveCommands
  /\ Apply \/ FallBack
  /\ UNCHANGED <<ctlEpisode, latestTick, pending, shown, playing, tick, episode,
                 pendingReset, pendingShutdown, owed>>

-----------------------------------------------------------------------------
(* The loop. *)

\* The rest of _step_physics : torques to the solver, the step, the new state.
StepPhysics ==
  /\ pc = "flush" /\ pc' = "top"
  /\ tick' = tick + 1
  /\ PublishState(episode, tick + 1)
  /\ UNCHANGED <<wire, shown, playing, episode, pendingReset, pendingShutdown, mode,
                 effort, passive, band, hold, claimed, owed>>

\* An iteration of run() that finds a pending reset : the flag is cleared first.
TakeReset ==
  /\ pc = "top" /\ ~pendingShutdown /\ pendingReset
  /\ pendingReset' = FALSE /\ pc' = "reset"
  /\ UNCHANGED <<ddsVars, playing, tick, episode, pendingShutdown, mode, effort,
                 passive, band, hold, claimed, owed>>

\* Mutant : the hold of the last episode keeps its reference.
ResetEpisode_KeepsReference ==
  /\ pc = "reset" /\ pc' = "step"
  /\ effort' = [g \in Groups |-> Nothing]
  /\ hold' = [hold EXCEPT !.active = HoldRequested]
  /\ band' = SlackBand /\ mode' = "PASSIVE" /\ claimed' = 0
  /\ episode' = episode + 1 /\ tick' = 0
  /\ playing' = TRUE
  /\ UNCHANGED <<ddsVars, pendingReset, pendingShutdown, passive, owed>>

\* Mutant : the flag is cleared again when the reset is done.
ResetEpisode_ForgetsAsk ==
  /\ pc = "reset" /\ pc' = "step"
  /\ effort' = [g \in Groups |-> Nothing]
  /\ hold' = FreshHold /\ band' = SlackBand /\ mode' = "PASSIVE" /\ claimed' = 0
  /\ episode' = episode + 1 /\ tick' = 0
  /\ playing' = TRUE /\ pendingReset' = FALSE
  /\ UNCHANGED <<ddsVars, pendingShutdown, passive, owed>>

\* reset_episode(resume=True) : actuators, hold, episode, tick, mode and band ; the
\* timeline plays afterwards whether or not it did before.
ResetEpisode ==
  /\ pc = "reset" /\ pc' = "step"
  /\ effort' = [g \in Groups |-> Nothing]
  /\ hold' = FreshHold /\ band' = SlackBand /\ mode' = "PASSIVE" /\ claimed' = 0
  /\ episode' = episode + 1 /\ tick' = 0
  /\ playing' = TRUE
  /\ UNCHANGED <<ddsVars, pendingReset, pendingShutdown, passive, owed>>

\* An iteration with the timeline playing.
Iterate ==
  /\ pc = "top" /\ ~pendingShutdown /\ ~pendingReset /\ playing
  /\ tick < MaxTick[episode]
  /\ pc' = "step"
  /\ UNCHANGED <<ddsVars, playing, tick, episode, pendingReset, pendingShutdown, mode,
                 effort, passive, band, hold, claimed, owed>>

\* The loop is left : the timeline stops and the controller is closed, which drops
\* the commands it holds ; endpoints close last.
Leave ==
  /\ pc' = "stopped" /\ playing' = FALSE
  /\ held' = [g \in Groups |-> Nothing]
  /\ UNCHANGED <<wire, ctlEpisode, latestTick, commandTick, pending, shown, tick, episode,
                 pendingReset, pendingShutdown, mode, effort, passive, band, hold, claimed,
                 owed>>

\* The while condition is false : a shutdown, the duration, a closed app.
Finish == pc = "top" /\ Leave

\* A reset or a step raises ; the finally leaves the same way.
Fail == pc \in {"reset", "step", "flush"} /\ Leave

Loop == ApplyControl \/ StepPhysics \/ TakeReset \/ ResetEpisode \/ Iterate

Next == Environment \/ Loop \/ Finish \/ Fail

Spec == Init /\ [][Next]_vars

\* The loop and the publisher run ; operators, the deployment and failures may not.
FairSpec == Spec /\ WF_vars(Loop) /\ WF_vars(PublishLoop /\ UNCHANGED loopVars)
                 /\ WF_vars(pendingShutdown /\ Finish)
-----------------------------------------------------------------------------
(* Properties. *)

TypeOK ==
  /\ DdsTypeOK
  /\ pc \in {"top", "reset", "step", "flush", "stopped"}
  /\ {playing, pendingReset, pendingShutdown} \subseteq BOOLEAN
  /\ tick \in Nat /\ episode \in Nat /\ claimed \in Nat /\ owed \in Nat
  /\ mode \in {"PASSIVE", "CONTROLLED"}
  /\ effort \in [Groups -> Messages] /\ passive \subseteq Groups
  /\ band \in [started : Nat \cup {NoTick}, armed : BOOLEAN, static : Nat,
               prev : Targets \cup {"nothing"}, released : Nat \cup {NoTick}]
  /\ hold \in [active : BOOLEAN, ref : Targets \cup {"nothing"}, hist : Seq(Targets),
               cand : Nat \cup {NoTick}]

\* A step the loop calls passive gives the solver no torque on any joint, whatever
\* was staged or skipped on the ticks before it (_write_passive skips a group it
\* believes to be passive already).
Limp == pc = "flush" /\ mode = "PASSIVE" => \A g \in Groups : effort[g] = Nothing

\* The types, and the guarantee of the passive fallback.
LoopInv == TypeOK /\ Limp

\* A torque given to the solver comes from a command that was taken in the episode
\* being stepped, and the body command was taken at most Ttl ticks ago.
CommandIsCurrent ==
  pc = "flush" =>
    \A g \in Groups : effort[g] # Nothing =>
      effort[g].episode = episode /\ tick - commandTick <= Ttl

\* The robot hangs on its band until a controller has claimed it in this episode :
\* the band is let go after the commands that armed it and the one that moved, or
\* after MaxSupport ticks of them, never in an episode that has had none.
BandWaitsForClaim ==
  HasSupport /\ band.released # NoTick =>
    \/ claimed >= ArmTicks + 2
    \/ claimed >= 1 /\ band.released - band.started >= MaxSupport

\* The reset pose is let go only after this episode's commands have filled the
\* window, given a reference and left it : neither the settling before MinHold nor
\* the episode before counts.
HoldOutlastsSettle ==
  HoldRequested /\ ~hold.active =>
    /\ claimed >= HistTicks + 2
    /\ tick >= MinHold + HistTicks + ReleaseTicks

\* Together : what holds the robot up, band and reset pose, outlasts the start of control.
SupportHolds == BandWaitsForClaim /\ HoldOutlastsSettle

\* An accepted reset begins a new episode and the deployment is shown it, timeline
\* paused or not, unless the loop ends.  An ask that comes while a reset is under way
\* is not lost with it : it gets an episode of its own.
ResetIsShown ==
  \A n \in 1 .. MaxEpisode : owed = n ~> shown >= n \/ pc = "stopped"

\* What the docstrings of reset_episode and _queue_reset say of a reset : a command
\* still in flight for the old episode fails the episode check, so every torque is
\* computed from a state of the episode being stepped.
NothingInFlight ==
  pc = "flush" => \A g \in Groups : effort[g] # Nothing => effort[g].from = episode

\* What the docstring of _update_reset_pose_hold says of the reference : the setpoint
\* the controller held for a full window.
ReferenceWasHeld ==
  [][hold.ref = "nothing" /\ hold'.ref # "nothing" => hold'.ref = hold.hist[1]]_vars
=============================================================================
