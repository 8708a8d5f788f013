------------------------ MODULE ResetPipelineProofs ------------------------
(***************************************************************************)
(* Theorems about ResetPipeline, for any number of resets and losses : the *)
(* types, in which no scene begins that nobody asked for, that no frame    *)
(* outlives a reset in the camera's buffer, and that a settle is armed     *)
(* only after an episode that began since Reset was pressed.               *)
(*                                                                         *)
(* The inductive invariant counts what has been asked for (Asked), relates *)
(* scene and episode at each place of the simulator's loop (LoopInv), and  *)
(* follows the settle's reset from its first reading of the episode to the *)
(* arming (WaitInv).                                                       *)
(***************************************************************************)
EXTENDS ResetPipeline, TLAPS

\* A reset that is still to be queued or to be run.
Due(flag) == IF flag THEN 1 ELSE 0

\* Every scene and every reset still due was asked for.
Asked == scene + Due(queued) + Due(client \in {"before", "request"}) <= resets + others

\* The episode is behind the scene only between MoveScene and BumpEpisode.
LoopInv ==
  /\ episode <= scene
  /\ sim \in {"top", "bumped", "step"} => episode = scene
  /\ sim = "moved" => episode + 1 = scene

\* The reset of a settle waits for an episode past the one it read, which is not older
\* than the one at its beginning.
WaitInv ==
  /\ since <= episode
  /\ client \in {"before", "request", "poll"} => ~failure /\ ~settling
  /\ client \in {"request", "poll"} /\ path = "settle" => since <= before
  /\ client = "drop" /\ path = "settle" => ~failure /\ episode > since
  /\ settling => client = "idle"

ResetInv == TypeOK /\ Asked /\ LoopInv /\ WaitInv /\ SettleAfterBoundary /\ FrameOutlivesNoReset

-----------------------------------------------------------------------------
LEMMA Constants == MaxResets \in Nat /\ MaxOthers \in Nat /\ MaxLosses \in Nat
  BY PipelineAssumption DEF PipelineAssumption

USE DEF Scenes, Paths, None, simVars, monitorVars, clientVars

LEMMA ResetInit == Init => ResetInv
<1> SUFFICES ASSUME Init PROVE ResetInv OBVIOUS
<1>1. 0 \in Scenes BY Constants
<1>2. TypeOK
  <2>1. obs \in [state : Scenes \cup {None}, frame : Scenes \cup {None}] BY DEF Init, NoObs
  <2>2. resets \in 0 .. MaxResets /\ others \in 0 .. MaxOthers /\ losses \in 0 .. MaxLosses
    BY Constants DEF Init
  <2>3. {queued, failure, settling} \subseteq BOOLEAN /\ {mark, since} \subseteq Nat
    <3>1. queued = FALSE /\ failure = FALSE /\ settling = FALSE BY DEF Init
    <3>2. mark = 0 /\ since = 0 BY DEF Init
    <3>3. {queued, failure, settling} \subseteq BOOLEAN BY ONLY <3>1
    <3>4. {mark, since} \subseteq Nat BY ONLY <3>2
    <3> QED BY <3>3, <3>4
  <2>4. {buffer, socket, reply, state, frame} \subseteq Scenes \cup {None} BY DEF Init
  <2>5. /\ episode \in Scenes /\ scene \in Scenes /\ robot \in Scenes /\ before \in Scenes
        /\ path \in Paths
    BY <1>1 DEF Init
  <2>6. /\ sim \in {"top", "moved", "bumped", "step", "hung", "gone"}
        /\ fetch \in {"none", "sent", "frame", "error", "stuck", "ended"}
        /\ client \in {"idle", "error", "before", "request", "poll", "drop", "ready", "running"}
    BY DEF Init
  <2> QED BY ONLY <2>1, <2>2, <2>3, <2>4, <2>5, <2>6 DEF TypeOK
<1>3. Asked /\ LoopInv /\ WaitInv BY DEF Init, Asked, Due, LoopInv, WaitInv
<1> QED BY <1>2, <1>3 DEF Init, ResetInv, SettleAfterBoundary, FrameOutlivesNoReset

-----------------------------------------------------------------------------
(* The simulator *)

LEMMA SimStep ==
  ASSUME ResetInv, SimLoop \/ PublishDebug \/ OtherReset \/ SimStops
  PROVE  ResetInv'
<1> USE Constants
<1>0. TypeOK /\ Asked /\ LoopInv /\ WaitInv BY DEF ResetInv
<1>1. CASE SimLoop
  <2> USE DEF SimLoop, MoveScene, BumpEpisode, DropFrame, StepSim
  <2>1. Asked' BY <1>0, <1>1 DEF TypeOK, Asked, Due
  <2>2. LoopInv' BY <1>0, <1>1 DEF TypeOK, LoopInv
  <2>3. (episode \in Scenes /\ scene \in Scenes /\ robot \in Scenes)'
    <3>1. scene' \in Nat /\ episode' \in Nat /\ resets' + others' <= MaxResets + MaxOthers
      BY <1>0, <1>1 DEF TypeOK
    <3>2. scene' <= MaxResets + MaxOthers /\ episode' <= MaxResets + MaxOthers
      BY <1>0, <1>1, <2>1, <2>2, <3>1 DEF TypeOK, Asked, Due, LoopInv
    <3> QED BY <1>0, <1>1, <3>1, <3>2 DEF TypeOK
  <2>4. TypeOK'
    <3>1. ({buffer, socket, reply, state, frame} \subseteq Scenes \cup {None})' BY <1>0, <1>1 DEF TypeOK
    <3>2. (sim \in {"top", "moved", "bumped", "step", "hung", "gone"} /\ queued \in BOOLEAN)'
      BY <1>0, <1>1 DEF TypeOK
    <3>3. UNCHANGED <<monitorVars, clientVars, others, losses>> BY <1>1
    <3> QED BY ONLY <1>0, <2>3, <3>1, <3>2, <3>3 DEF TypeOK, monitorVars, clientVars
  <2>5. WaitInv' BY <1>0, <1>1 DEF TypeOK, WaitInv
  <2>6. SettleAfterBoundary' BY <1>0, <1>1 DEF TypeOK, ResetInv, SettleAfterBoundary
  <2>7. FrameOutlivesNoReset' BY <1>1 DEF ResetInv, FrameOutlivesNoReset
  <2> QED BY <2>1, <2>2, <2>4, <2>5, <2>6, <2>7 DEF ResetInv
<1>2. CASE PublishDebug
  BY <1>0, <1>2
  DEF PublishDebug, ResetInv, TypeOK, Asked, LoopInv, WaitInv, SettleAfterBoundary, FrameOutlivesNoReset
<1>3. CASE OtherReset
  <2>1. Asked' BY <1>0, <1>3 DEF OtherReset, TypeOK, Asked, Due
  <2>2. TypeOK' BY <1>0, <1>3 DEF OtherReset, TypeOK
  <2> QED
    BY <1>0, <1>3, <2>1, <2>2
    DEF OtherReset, ResetInv, LoopInv, WaitInv, SettleAfterBoundary, FrameOutlivesNoReset
<1>4. CASE SimStops
  BY <1>0, <1>4
  DEF SimStops, ResetInv, TypeOK, Asked, LoopInv, WaitInv, SettleAfterBoundary, FrameOutlivesNoReset
<1> QED BY <1>1, <1>2, <1>3, <1>4

\* The monitor and the camera endpoint touch nothing but the round trip and the cache.
LEMMA MonitorStep ==
  ASSUME ResetInv, Monitor \/ ServeFrame
  PROVE  ResetInv'
<1> USE DEF Monitor, PollState, SendFetch, ServeFrame, StoreFrame, FailFetch, DecodeRaises,
            RoundTripFails
<1>1. UNCHANGED <<sim, queued, episode, scene, buffer, robot, clientVars, others>> OBVIOUS
<1>2. TypeOK'
  <2>1. ({buffer, socket, reply, state, frame} \subseteq Scenes \cup {None})'
    BY DEF ResetInv, TypeOK
  <2>2. (losses \in 0 .. MaxLosses)' /\ (fetch \in {"none", "sent", "frame", "error", "stuck", "ended"})'
    BY Constants DEF ResetInv, TypeOK
  <2> QED BY <1>1, <2>1, <2>2 DEF ResetInv, TypeOK
<1> QED
  BY <1>1, <1>2
  DEF ResetInv, Asked, LoopInv, WaitInv, SettleAfterBoundary, FrameOutlivesNoReset

-----------------------------------------------------------------------------
(* The client *)

\* The client leaves the loop, the camera and the scene alone ; it may queue a reset.
LEMMA ClientStep == ASSUME ResetInv, Client PROVE ResetInv'
<1> USE Constants
<1> USE DEF Client, ResetCall, BeginReset, ReadBefore, RequestReset, SeeApplied, Timeout, Invalidate,
            Start, Ready, NotReady, Observe, Stop
<1>0. TypeOK /\ Asked /\ LoopInv /\ WaitInv BY DEF ResetInv
<1>1. UNCHANGED <<sim, episode, scene, buffer, robot, socket, fetch, reply, others, losses>> OBVIOUS
<1>2. Asked' BY <1>0, <1>1 DEF TypeOK, Asked, Due
<1>3. WaitInv' BY <1>0, <1>1 DEF TypeOK, WaitInv
<1>4. SettleAfterBoundary' BY <1>0, <1>1 DEF TypeOK, WaitInv, ResetInv, SettleAfterBoundary
<1>5. TypeOK'
  <2>1. ({queued, failure, settling} \subseteq BOOLEAN)' BY <1>0 DEF TypeOK
  <2>2. (client \in {"idle", "error", "before", "request", "poll", "drop", "ready", "running"})'
        /\ (path \in Paths)' /\ (before \in Scenes)'
    BY <1>0 DEF TypeOK
  <2>3. ({mark, since} \subseteq Nat /\ resets \in 0 .. MaxResets)' BY <1>0 DEF TypeOK
  <2>4. (obs \in [state : Scenes \cup {None}, frame : Scenes \cup {None}])' BY <1>0 DEF TypeOK, NoObs
  <2>5. ({state, frame} \subseteq Scenes \cup {None})' BY <1>0 DEF TypeOK
  <2> QED BY <1>0, <1>1, <2>1, <2>2, <2>3, <2>4, <2>5 DEF TypeOK
<1> QED BY <1>0, <1>1, <1>2, <1>3, <1>4, <1>5 DEF ResetInv, LoopInv, FrameOutlivesNoReset

LEMMA ResetStep == ResetInv /\ [Next]_vars => ResetInv'
<1> SUFFICES ASSUME ResetInv, [Next]_vars PROVE ResetInv' OBVIOUS
<1>1. CASE UNCHANGED vars
  BY <1>1
  DEF vars, ResetInv, TypeOK, Asked, LoopInv, WaitInv, SettleAfterBoundary, FrameOutlivesNoReset
<1> QED BY <1>1, SimStep, MonitorStep, ClientStep DEF Next

-----------------------------------------------------------------------------
(* Theorems *)

\* Whatever is lost, hangs or is reset from the simulator's window : every scene was
\* asked for, and the reset of a settle goes through its places in order.
THEOREM ResetInvariant == Spec => []ResetInv
  BY ResetInit, ResetStep, PTL DEF Spec

\* The types, and request_reset_applied : a settle is armed only once the simulator has
\* begun an episode after Reset was pressed, and never by a Reset that failed.
THEOREM PipelineCorrect == Spec => []PipelineInv
<1>1. ResetInv => PipelineInv BY DEF ResetInv, PipelineInv
<1> QED BY <1>1, ResetInvariant, PTL

\* HeadCameraBuffer.invalidate : once a reset is over the camera endpoint has no frame
\* from before it to serve.
THEOREM NoFrameOutlives == Spec => []FrameOutlivesNoReset
<1>1. ResetInv => FrameOutlivesNoReset BY DEF ResetInv
<1> QED BY <1>1, ResetInvariant, PTL
=============================================================================
