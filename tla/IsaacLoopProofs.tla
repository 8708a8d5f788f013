-------------------------- MODULE IsaacLoopProofs --------------------------
(***************************************************************************)
(* Theorems about IsaacLoop for any hands, any targets, any bounds of the  *)
(* profile (time to live, band, hold) and any number of resets : type      *)
(* correctness, that a passive step gives no torque, that a torque comes   *)
(* from a command taken in this episode and not long ago, and that band    *)
(* and reset pose are let go only after the commands that justify it.      *)
(*                                                                         *)
(* The inductive invariant relates what the controller holds to its own    *)
(* episode, the groups thought passive to what is staged for them, and the *)
(* counters of band and hold to the commands applied and the ticks spent.  *)
(***************************************************************************)
EXTENDS IsaacLoop, SequenceTheorems, TLAPS

USE LoopAssumption, DdsAssumption DEF NoTick, NoState

-----------------------------------------------------------------------------
\* publish_state drops what it holds when the episode changes, so every held command was
\* taken in the controller's own episode.
HeldIsOwn == \A g \in Groups : held[g] # Nothing => held[g].episode = ctlEpisode

\* A group that _write_passive skips has no torque staged.
PassiveIsLimp == \A g \in passive : effort[g] = Nothing

\* The band : one command is applied before one can be the same or another ; the run of
\* constant commands is shorter than their number.
BandCounts ==
  HasSupport =>
    /\ band.released = NoTick =>
         /\ band.prev = "nothing" => band.static = 0 /\ ~band.armed
         /\ band.prev # "nothing" => claimed >= band.static + 1
         /\ band.armed => claimed >= ArmTicks + 1
    /\ BandWaitsForClaim

\* The ticks of this episode that may have applied a command so far.
Spent == IF pc \in {"flush", "stopped"} THEN tick + 1 ELSE tick

\* The hold : its window holds commands of different ticks, all but the first from MinHold
\* on ; a reference needs a full window before it, a departure a reference.
HoldCounts ==
  HoldRequested =>
    /\ hold.active =>
         /\ claimed >= Len(hold.hist)
         /\ Len(hold.hist) >= 2 => Spent >= MinHold + Len(hold.hist) - 1
         /\ hold.ref # "nothing" =>
              claimed >= HistTicks + 1 /\ Spent >= MinHold + HistTicks
         /\ hold.cand # NoTick =>
              claimed >= HistTicks + 2 /\ hold.cand >= MinHold + HistTicks
    /\ HoldOutlastsSettle

IsaacInv ==
  /\ TypeOK /\ HeldIsOwn /\ PassiveIsLimp /\ Limp /\ CommandIsCurrent
  /\ BandCounts /\ HoldCounts

-----------------------------------------------------------------------------
(* Constants, messages and windows *)

LEMMA Constants ==
  /\ ArmTicks \in Nat \ {0} /\ MaxSupport \in Nat \ {0} /\ ReleaseTicks \in Nat \ {0}
  /\ HasSupport \in BOOLEAN /\ HoldRequested \in BOOLEAN /\ "body" \in Groups
  BY DEF Groups

\* A message is Nothing or one with a target, and being taken gives it an episode.
LEMMA MessageTyped ==
  ASSUME NEW m \in Messages, m # Nothing, NEW e \in Nat
  PROVE  /\ m.q \in Inputs /\ [m EXCEPT !.episode = e] \in Messages
         /\ [m EXCEPT !.episode = e].episode = e /\ [m EXCEPT !.episode = e].q = m.q
  BY DEF Messages

\* The window of the hold stays a sequence of targets, and grows by one or not at all.
LEMMA WindowTyped ==
  ASSUME NEW h \in Seq(Targets), NEW q \in Targets
  PROVE  /\ Pushed(h, q) \in Seq(Targets) /\ Len(h) \in Nat
         /\ Len(Pushed(h, q)) = IF Len(h) < HistTicks THEN Len(h) + 1 ELSE Len(h)
<1>1. CASE Len(h) < HistTicks BY <1>1 DEF Pushed
<1>2. CASE ~(Len(h) < HistTicks)
  <2>1. h # <<>> /\ Len(h) \in Nat BY <1>2
  <2>2. Tail(h) \in Seq(Targets) /\ Len(Tail(h)) = Len(h) - 1
    BY <2>1, HeadTailProperties
  <2> QED BY <1>2, <2>1, <2>2 DEF Pushed
<1> QED BY <1>1, <1>2

-----------------------------------------------------------------------------
(* The invariant *)

LEMMA IsaacInit == Init => IsaacInv
<1> SUFFICES ASSUME Init PROVE IsaacInv OBVIOUS
<1>1. TypeOK
  <2>1. wire \in [Groups -> Messages] /\ held \in [Groups -> Messages]
        /\ effort \in [Groups -> Messages]
    BY DEF Init, DdsInit, Messages
  <2>2. <<>> \in Seq(Targets) BY EmptySeq
  <2> QED BY <2>1, <2>2, Constants
       DEF Init, DdsInit, TypeOK, DdsTypeOK, SlackBand, FreshHold
<1>2. Len(<<>>) = 0 OBVIOUS
<1>3. HoldCounts
  BY <1>2 DEF Init, FreshHold, HoldCounts, HoldOutlastsSettle
<1> QED BY <1>1, <1>3
     DEF Init, DdsInit, IsaacInv, HeldIsOwn, PassiveIsLimp, Limp, CommandIsCurrent, BandCounts,
         BandWaitsForClaim, SlackBand

\* The steps that begin no episode, apply no command and step no physics.
LEMMA Frame ==
  ASSUME IsaacInv,
         UNCHANGED <<ctlEpisode, tick, episode, mode, effort, passive, band, hold, claimed, commandTick>>,
         held' = held \/ held' = [g \in Groups |-> Nothing],
         pc' = pc \/ pc' \in {"top", "reset", "step", "stopped"},
         pc = "flush" => pc' \in {"flush", "stopped"},
         pc = "stopped" => pc' = "stopped"
  PROVE  /\ HeldIsOwn' /\ PassiveIsLimp' /\ Limp' /\ CommandIsCurrent' /\ BandCounts'
         /\ HoldCounts'
<1> USE DEF IsaacInv
<1>1. HeldIsOwn' BY DEF HeldIsOwn
<1>2. PassiveIsLimp' BY DEF PassiveIsLimp
<1>3. Limp' BY DEF Limp
<1>4. CommandIsCurrent' BY DEF CommandIsCurrent
<1>5. BandCounts' BY DEF BandCounts, BandWaitsForClaim
<1>6. tick \in Nat /\ Spent \in Nat /\ Spent' \in Nat /\ Spent' >= Spent BY DEF Spent, TypeOK
<1>7. Len(hold.hist) \in Nat BY DEF TypeOK
<1>8. HoldCounts' BY <1>6, <1>7 DEF HoldCounts, HoldOutlastsSettle
<1> QED BY <1>1, <1>2, <1>3, <1>4, <1>5, <1>8

-----------------------------------------------------------------------------
(* A command applied : what it does to the band and to the hold. *)

LEMMA BandApplied ==
  ASSUME IsaacInv, NEW q \in Targets, band' = UpdateSupport(q), claimed' = claimed + 1
  PROVE  /\ band' \in [started : Nat \cup {NoTick}, armed : BOOLEAN, static : Nat,
                        prev : Targets \cup {"nothing"}, released : Nat \cup {NoTick}]
         /\ BandCounts'
<1> DEFINE started == IF band.started = NoTick THEN tick ELSE band.started
<1> DEFINE moved == band.prev # "nothing" /\ band.prev # q
<1> DEFINE still == band.prev = q
<1>0. /\ band \in [started : Nat \cup {NoTick}, armed : BOOLEAN, static : Nat,
                    prev : Targets \cup {"nothing"}, released : Nat \cup {NoTick}]
      /\ tick \in Nat /\ claimed \in Nat /\ BandCounts /\ started \in Nat
  BY DEF IsaacInv, TypeOK
<1>1. CASE ~HasSupport \/ band.released # NoTick
  <2>1. band' = band BY <1>1 DEF UpdateSupport
  <2> QED BY <1>0, <1>1, <2>1, Constants DEF BandCounts, BandWaitsForClaim
<1>2. CASE HasSupport /\ band.released = NoTick /\ tick - started >= MaxSupport
  <2>1. band' = [started |-> started, prev |-> band.prev, static |-> band.static,
                 armed |-> band.armed, released |-> tick]
    BY <1>0, <1>2 DEF UpdateSupport
  <2> QED BY <1>0, <1>2, <2>1, Constants DEF BandCounts, BandWaitsForClaim
<1>3. CASE HasSupport /\ band.released = NoTick /\ ~(tick - started >= MaxSupport)
  <2>1. band' = [started |-> started, prev |-> q,
                 static |-> IF still THEN band.static + 1 ELSE IF moved THEN 0 ELSE band.static,
                 armed |-> band.armed \/ (still /\ band.static + 1 >= ArmTicks),
                 released |-> IF moved /\ band.armed THEN tick ELSE band.released]
    BY <1>0, <1>3 DEF UpdateSupport
  <2>2. q # "nothing" OBVIOUS
  <2>3. BandCounts'
    BY <1>0, <1>3, <2>1, <2>2, Constants DEF BandCounts, BandWaitsForClaim
  <2> QED BY <1>0, <1>3, <2>1, <2>3
<1> QED BY <1>1, <1>2, <1>3

LEMMA HoldApplied ==
  ASSUME IsaacInv, NEW q \in Targets, hold' = UpdateHold(q), claimed' = claimed + 1,
         pc = "step", pc' = "flush", tick' = tick
  PROVE  /\ hold' \in [active : BOOLEAN, ref : Targets \cup {"nothing"}, hist : Seq(Targets),
                        cand : Nat \cup {NoTick}]
         /\ HoldCounts'
<1>0. /\ hold \in [active : BOOLEAN, ref : Targets \cup {"nothing"}, hist : Seq(Targets),
                    cand : Nat \cup {NoTick}]
      /\ tick \in Nat /\ claimed \in Nat /\ HoldCounts
  BY DEF IsaacInv, TypeOK
<1>1. Spent = tick /\ Spent' = tick + 1 BY DEF Spent
<1>2. /\ Len(hold.hist) \in Nat /\ Pushed(hold.hist, q) \in Seq(Targets)
      /\ Len(Pushed(hold.hist, q))
           = IF Len(hold.hist) < HistTicks THEN Len(hold.hist) + 1 ELSE Len(hold.hist)
  BY <1>0, WindowTyped
<1> USE Constants
<1>3. CASE ~hold.active
  <2>1. hold' = hold BY <1>3 DEF UpdateHold
  <2> QED BY <1>0, <1>1, <1>3, <2>1 DEF HoldCounts, HoldOutlastsSettle
<1>4. CASE hold.active /\ tick < MinHold
  <2>1. hold' = [active |-> TRUE, ref |-> hold.ref, hist |-> <<q>>, cand |-> hold.cand]
    BY <1>0, <1>4 DEF UpdateHold
  <2>2. <<q>> \in Seq(Targets) /\ Len(<<q>>) = 1 OBVIOUS
  <2>3. HoldCounts'
    <3> USE DEF HoldCounts, HoldOutlastsSettle
    <3> QED BY <1>0, <1>1, <1>4, <2>1, <2>2
  <2> QED BY <1>0, <2>1, <2>2, <2>3
<1>5. CASE hold.active /\ ~(tick < MinHold) /\ hold.ref = "nothing"
  <2>1. hold' = [active |-> TRUE, ref |-> IF Stable(hold.hist) THEN q ELSE hold.ref,
                 hist |-> Pushed(hold.hist, q), cand |-> hold.cand]
    BY <1>0, <1>5 DEF UpdateHold
  <2>2. Stable(hold.hist) => Len(hold.hist) >= HistTicks BY DEF Stable
  <2>3. HoldCounts'
    BY <1>0, <1>1, <1>2, <1>5, <2>1, <2>2 DEF HoldCounts, HoldOutlastsSettle
  <2> QED BY <1>0, <1>2, <2>1, <2>3
<1>6. CASE hold.active /\ ~(tick < MinHold) /\ hold.ref # "nothing"
  <2>1. PICK on \in BOOLEAN, cand \in {NoTick, hold.cand, tick} :
          /\ hold' = [active |-> on, ref |-> hold.ref, hist |-> hold.hist, cand |-> cand]
          /\ ~on => hold.cand # NoTick /\ tick - hold.cand >= ReleaseTicks
    <3>1. CASE q = hold.ref BY <1>0, <1>6, <3>1 DEF UpdateHold
    <3>2. CASE q # hold.ref /\ hold.cand = NoTick BY <1>0, <1>6, <3>2 DEF UpdateHold
    <3>3. CASE q # hold.ref /\ hold.cand # NoTick
      <4>1. CASE tick - hold.cand < ReleaseTicks BY <1>0, <1>6, <3>3, <4>1 DEF UpdateHold
      <4>2. CASE ~(tick - hold.cand < ReleaseTicks)
        <5>1. hold' = [hold EXCEPT !.active = FALSE]
          <6>1. (tick - hold.cand < ReleaseTicks) = FALSE BY <4>2
          <6> QED BY <1>6, <3>3, <6>1 DEF UpdateHold
        <5>2. tick - hold.cand >= ReleaseTicks BY <1>0, <3>3, <4>2
        <5>3. hold' = [active |-> FALSE, ref |-> hold.ref, hist |-> hold.hist, cand |-> hold.cand]
          BY <1>0, <5>1
        <5> QED BY <3>3, <5>2, <5>3
      <4> QED BY <4>1, <4>2
    <3> QED BY <3>1, <3>2, <3>3
  <2>2. HoldCounts'
    BY <1>0, <1>1, <1>2, <1>6, <2>1 DEF HoldCounts, HoldOutlastsSettle
  <2> QED BY <1>0, <2>1, <2>2
<1> QED BY <1>0, <1>3, <1>4, <1>5, <1>6

-----------------------------------------------------------------------------
(* The steps. *)

\* _receive_commands keeps the types, and a command it takes is of the episode.
LEMMA Received ==
  ASSUME IsaacInv, ReceiveCommands
  PROVE  /\ held' \in [Groups -> Messages] /\ wire' \in [Groups -> Messages]
         /\ commandTick' \in Nat \cup {-1}
         /\ \A g \in Groups : held'[g] # Nothing => held'[g].episode = ctlEpisode
<1> USE DEF IsaacInv, TypeOK, DdsTypeOK
<1>1. ASSUME NEW g \in Groups
      PROVE  held'[g] \in Messages /\ (held'[g] # Nothing => held'[g].episode = ctlEpisode)
  <2>1. CASE wire[g] = Nothing BY <2>1 DEF ReceiveCommands, HeldIsOwn
  <2>2. CASE wire[g] # Nothing
    <3>1. held'[g] = [wire[g] EXCEPT !.episode = ctlEpisode] BY <2>2 DEF ReceiveCommands
    <3>2. wire[g] \in Messages /\ ctlEpisode \in Nat OBVIOUS
    <3> QED BY <2>2, <3>1, <3>2, MessageTyped
  <2> QED BY <2>1, <2>2
<1>2. held' = [g \in Groups |-> held'[g]] BY DEF ReceiveCommands
<1>3. Nothing \in Messages BY DEF Messages
<1>4. held' \in [Groups -> Messages] BY <1>1, <1>2
<1> QED BY <1>1, <1>3, <1>4 DEF ReceiveCommands

\* A command taken at most a time to live ago.
LEMMA AgeWithin ==
  ASSUME NEW now \in Nat, NEW taken \in Int, NEW ttl \in Nat, now <= taken + ttl
  PROVE  now - taken <= ttl
  OBVIOUS

LEMMA ApplyKeeps == IsaacInv /\ ApplyControl => IsaacInv'
<1> SUFFICES ASSUME IsaacInv, ApplyControl PROVE IsaacInv' OBVIOUS
<1>0. /\ held' \in [Groups -> Messages] /\ wire' \in [Groups -> Messages]
      /\ commandTick' \in Nat \cup {-1}
      /\ \A g \in Groups : held'[g] # Nothing => held'[g].episode = ctlEpisode
  BY Received DEF ApplyControl
<1>1. Nothing \in Messages /\ "body" \in Groups BY Constants DEF Messages
<1>2. TypeOK /\ PassiveIsLimp /\ tick \in Nat /\ claimed \in Nat BY DEF IsaacInv, TypeOK
<1>3. HeldIsOwn' BY <1>0 DEF ApplyControl, HeldIsOwn
<1>4. CASE Apply
  <2>1. held'["body"].q \in Targets
    BY <1>0, <1>1, <1>4, MessageTyped DEF Apply, Usable, Polled, Inputs
  <2>2. /\ band' \in [started : Nat \cup {NoTick}, armed : BOOLEAN, static : Nat,
                      prev : Targets \cup {"nothing"}, released : Nat \cup {NoTick}]
        /\ BandCounts'
    BY <1>4, <2>1, BandApplied DEF Apply
  <2>3. /\ hold' \in [active : BOOLEAN, ref : Targets \cup {"nothing"}, hist : Seq(Targets),
                      cand : Nat \cup {NoTick}]
        /\ HoldCounts'
    BY <1>4, <2>1, HoldApplied DEF Apply, ApplyControl
  <2>4. /\ passive' = {g \in Groups : held'[g] = Nothing}
        /\ \A g \in Groups : effort'[g] = held'[g]
        /\ effort' \in [Groups -> Messages]
    <3>1. effort' = [g \in Groups |-> IF held'[g] # Nothing THEN held'[g]
                                      ELSE IF g \in passive THEN effort[g] ELSE Nothing]
      BY <1>4 DEF Apply, WriteEffort
    <3>2. \A g \in Groups : effort'[g] = held'[g]
      BY <1>2, <3>1 DEF PassiveIsLimp
    <3> QED BY <1>0, <1>4, <3>1, <3>2 DEF Apply, WriteEffort
  <2>5. PassiveIsLimp' BY <2>4 DEF PassiveIsLimp
  <2>6. Limp' BY <1>4 DEF Apply, Limp
  <2>7. CommandIsCurrent'
    <3>1. ctlEpisode = episode /\ tick <= commandTick' + Ttl BY <1>4 DEF Apply, Usable
    <3>2. tick \in Nat /\ commandTick' \in Int /\ Ttl \in Nat BY <1>0, <1>2, DdsAssumption
    <3>3. tick - commandTick' <= Ttl BY <3>1, <3>2, AgeWithin
    <3> QED BY <1>0, <2>4, <3>1, <3>3 DEF CommandIsCurrent, ApplyControl
  <2>8. TypeOK'
    BY <1>0, <1>2, <1>4, <2>2, <2>3, <2>4 DEF Apply, ApplyControl, TypeOK, DdsTypeOK
  <2> QED BY <1>3, <2>2, <2>3, <2>5, <2>6, <2>7, <2>8 DEF IsaacInv
<1>5. CASE FallBack
  <2>1. /\ passive' = Groups /\ \A g \in Groups : effort'[g] = Nothing
        /\ effort' \in [Groups -> Messages]
    BY <1>1, <1>2, <1>5 DEF FallBack, GoPassive, PassiveIsLimp, TypeOK
  <2>2. PassiveIsLimp' /\ Limp' BY <2>1 DEF PassiveIsLimp, Limp
  <2>3. CommandIsCurrent' BY <2>1 DEF CommandIsCurrent
  <2>4. BandCounts' BY <1>5 DEF FallBack, ApplyControl, IsaacInv, BandCounts, BandWaitsForClaim
  <2>5. HoldCounts'
    <3>1. Spent = tick /\ Spent' = tick + 1 BY DEF Spent, ApplyControl
    <3>2. Len(hold.hist) \in Nat BY <1>2 DEF TypeOK
    <3> QED BY <1>2, <1>5, <3>1, <3>2
         DEF FallBack, ApplyControl, IsaacInv, HoldCounts, HoldOutlastsSettle
  <2>6. TypeOK'
    BY <1>0, <1>2, <1>5, <2>1 DEF FallBack, ApplyControl, TypeOK, DdsTypeOK
  <2> QED BY <1>3, <2>2, <2>3, <2>4, <2>5, <2>6 DEF IsaacInv
<1> QED BY <1>4, <1>5 DEF ApplyControl

LEMMA StepKeeps == IsaacInv /\ StepPhysics => IsaacInv'
<1> SUFFICES ASSUME IsaacInv, StepPhysics PROVE IsaacInv' OBVIOUS
<1>1. TypeOK /\ tick \in Nat BY DEF IsaacInv, TypeOK
<1>2. Nothing \in Messages BY DEF Messages
<1>3. held' \in [Groups -> Messages]
  BY <1>1, <1>2 DEF StepPhysics, PublishState, TypeOK, DdsTypeOK
<1>4. TypeOK'
  BY <1>1, <1>3 DEF StepPhysics, PublishState, TypeOK, DdsTypeOK
<1>5. HeldIsOwn' BY DEF StepPhysics, PublishState, HeldIsOwn, IsaacInv
<1>6. PassiveIsLimp' /\ Limp' /\ CommandIsCurrent'
  BY DEF StepPhysics, PassiveIsLimp, Limp, CommandIsCurrent, IsaacInv
<1>7. BandCounts' BY DEF StepPhysics, BandCounts, BandWaitsForClaim, IsaacInv
<1>8. HoldCounts'
  <2>1. Spent = tick + 1 /\ Spent' = tick + 1 /\ tick' = tick + 1 BY DEF Spent, StepPhysics
  <2>2. Len(hold.hist) \in Nat BY <1>1 DEF TypeOK
  <2> QED BY <1>1, <2>1, <2>2, Constants DEF StepPhysics, IsaacInv, HoldCounts, HoldOutlastsSettle
<1> QED BY <1>4, <1>5, <1>6, <1>7, <1>8 DEF IsaacInv

LEMMA ResetKeeps == IsaacInv /\ ResetEpisode => IsaacInv'
<1> SUFFICES ASSUME IsaacInv, ResetEpisode PROVE IsaacInv' OBVIOUS
<1>1. TypeOK BY DEF IsaacInv
<1>2. effort' \in [Groups -> Messages] BY DEF ResetEpisode, Messages
<1>3. TypeOK'
  <2>1. <<>> \in Seq(Targets) BY EmptySeq
  <2>2. hold' \in [active : BOOLEAN, ref : Targets \cup {"nothing"}, hist : Seq(Targets),
                   cand : Nat \cup {NoTick}]
    BY <2>1, Constants DEF ResetEpisode, FreshHold
  <2>3. band' \in [started : Nat \cup {NoTick}, armed : BOOLEAN, static : Nat,
                   prev : Targets \cup {"nothing"}, released : Nat \cup {NoTick}]
    BY DEF ResetEpisode, SlackBand
  <2>4. ({playing, pendingReset, pendingShutdown} \subseteq BOOLEAN)'
    BY <1>1 DEF ResetEpisode, TypeOK
  <2>5. DdsTypeOK' BY <1>1 DEF ResetEpisode, ddsVars, TypeOK, DdsTypeOK
  <2> QED BY <1>1, <1>2, <2>2, <2>3, <2>4, <2>5 DEF ResetEpisode, TypeOK
<1>4. HeldIsOwn' BY DEF ResetEpisode, HeldIsOwn, IsaacInv, ddsVars
<1>5. PassiveIsLimp' /\ Limp' /\ CommandIsCurrent'
  BY <1>1 DEF ResetEpisode, PassiveIsLimp, Limp, CommandIsCurrent, TypeOK
<1>6. BandCounts' BY DEF ResetEpisode, SlackBand, BandCounts, BandWaitsForClaim
<1>7. HoldCounts'
  <2>1. Len(<<>>) = 0 OBVIOUS
  <2> QED BY <2>1 DEF ResetEpisode, FreshHold, HoldCounts, HoldOutlastsSettle
<1> QED BY <1>3, <1>4, <1>5, <1>6, <1>7 DEF IsaacInv

\* Every step of the loop, of the other threads and of the deployment keeps the invariant.
LEMMA IsaacStep == IsaacInv /\ [Next]_vars => IsaacInv'
<1> SUFFICES ASSUME IsaacInv, [Next]_vars PROVE IsaacInv' OBVIOUS
<1>0. TypeOK BY DEF IsaacInv
<1>1. CASE UNCHANGED vars
  <2>1. TypeOK' BY <1>0, <1>1 DEF vars, ddsVars, loopVars, TypeOK, DdsTypeOK
  <2> QED BY <1>1, <2>1, Frame DEF vars, ddsVars, loopVars, IsaacInv
<1>2. CASE QueueReset \/ RequestShutdown \/ Timeline \/ TakeReset \/ Iterate
  <2> USE DEF QueueReset, RequestShutdown, Timeline, TakeReset, Iterate, ddsVars
  <2>1. ({playing, pendingReset, pendingShutdown} \subseteq BOOLEAN)'
    BY <1>0, <1>2 DEF TypeOK
  <2>2. DdsTypeOK' BY <1>0, <1>2 DEF TypeOK, DdsTypeOK
  <2>3. owed' \in Nat BY <1>0, <1>2, SMT DEF TypeOK
  <2>9. pc' \in {"top", "reset", "step", "flush", "stopped"}
    BY <1>0, <1>2 DEF TypeOK
  <2>4. UNCHANGED <<tick, episode, mode, effort, passive, band, hold, claimed>> BY <1>2
  <2>5. TypeOK' BY <1>0, <2>1, <2>2, <2>3, <2>4, <2>9 DEF TypeOK
  <2> QED BY <1>2, <2>5, Frame DEF IsaacInv
<1>3. CASE PublishLoop /\ UNCHANGED loopVars
  <2>1. TypeOK' BY <1>0, <1>3 DEF PublishLoop, loopVars, TypeOK, DdsTypeOK
  <2> QED BY <1>3, <2>1, Frame DEF PublishLoop, loopVars, IsaacInv
<1>4. ASSUME NEW g \in Groups, NEW q \in Inputs, Deploy(g, q), UNCHANGED loopVars
      PROVE  IsaacInv'
  <2>1. [Nothing EXCEPT !.q = q, !.from = shown] \in Messages
    BY <1>0, <1>4 DEF Deploy, Nothing, Messages, TypeOK, DdsTypeOK
  <2>2. DdsTypeOK' BY <1>0, <1>4, <2>1 DEF Deploy, TypeOK, DdsTypeOK
  <2>3. TypeOK' BY <1>0, <1>4, <2>2 DEF loopVars, TypeOK
  <2> QED BY <1>4, <2>3, Frame DEF Deploy, loopVars, IsaacInv
<1>5. CASE Finish \/ Fail
  <2> USE DEF Finish, Fail, Leave
  <2>1. held' \in [Groups -> Messages] BY <1>5 DEF Messages
  <2>2. TypeOK' BY <1>0, <1>5, <2>1 DEF TypeOK, DdsTypeOK
  <2> QED BY <1>0, <1>5, <2>2, Frame DEF IsaacInv
<1> QED BY <1>1, <1>2, <1>3, <1>4, <1>5, ApplyKeeps, StepKeeps, ResetKeeps
     DEF Next, Environment, Loop

-----------------------------------------------------------------------------
(* The theorems *)

\* The inductive invariant holds of every run of the loop.
THEOREM IsaacInvariant == Spec => []IsaacInv
<1> QED BY IsaacInit, IsaacStep, PTL DEF Spec

\* The types, and that a step whose mode is PASSIVE gives the solver no torque although
\* _write_passive skips the groups it believes passive already.
THEOREM LoopCorrect == Spec => []LoopInv
<1>1. IsaacInv => LoopInv BY DEF IsaacInv, LoopInv
<1> QED BY <1>1, IsaacInvariant, PTL

\* A torque that _flush_effort writes comes from a command taken in the episode being
\* stepped, the body command at most _ttl_ticks ago (_apply_control).
THEOREM CommandsAreCurrent == Spec => []CommandIsCurrent
<1>1. IsaacInv => CommandIsCurrent BY DEF IsaacInv
<1> QED BY <1>1, IsaacInvariant, PTL

\* Band and reset pose are let go only after the commands of this episode, in number and
\* in ticks, that _update_support and _update_reset_pose_hold wait for.
THEOREM SupportIsKept == Spec => []SupportHolds
<1>1. IsaacInv => SupportHolds
  <2>1. BandCounts => BandWaitsForClaim BY DEF BandCounts, BandWaitsForClaim
  <2>2. HoldCounts => HoldOutlastsSettle BY DEF HoldCounts, HoldOutlastsSettle
  <2> QED BY <2>1, <2>2 DEF IsaacInv, SupportHolds
<1> QED BY <1>1, IsaacInvariant, PTL
=============================================================================
