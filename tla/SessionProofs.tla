--------------------------- MODULE SessionProofs ---------------------------
(***************************************************************************)
(* Theorems about Session.                                                 *)
(*                                                                         *)
(* For any set of callers and any number of generations : type             *)
(* correctness, and that a superseded loop completes at most the one       *)
(* publish it was in the middle of (SupersededSendsOnce).  A counter of    *)
(* late sends says nothing about the step after it, so the bound is not    *)
(* inductive.  OnceInv adds where a loop that has spent its late send can  *)
(* be : on the way from the send to the head of the stream, whose          *)
(* _is_current() it fails, or past it.  That it never comes back needs     *)
(* that a generation, once passed, is never current again (Born) and that  *)
(* a start() owns a thread nobody else starts (OwnThread).                 *)
(*                                                                         *)
(* For one call at a time, none of which begins inside the three           *)
(* assignments that end _fail() (OneCaller, PromptFail) : what holds       *)
(* between calls, and what a step may never do.  CallerInv adds what holds *)
(* inside a call : which gates it has shut or opened so far (Place), that  *)
(* a loop which is not where a stop() can leave one behind is the current  *)
(* one (Lag, LoopInv), and that _thread names the current loop until a     *)
(* stop() has waited for it (Tied).                                        *)
(***************************************************************************)
EXTENDS Session, TLAPS

USE SessionAssumption DEF Gens

-----------------------------------------------------------------------------
(* Type correctness *)

\* The places by name : the sets themselves stay folded in the proofs below.
LEMMA CallNames ==
  /\ "idle" \in CallSteps /\ "await" \in CallSteps /\ "wedged" \in CallSteps /\ "ttl" \in CallSteps
  /\ "restore" \in CallSteps /\ "lose" \in CallSteps /\ "swap" \in CallSteps /\ "adopt" \in CallSteps
  /\ "reject" \in CallSteps /\ "errgate" \in CallSteps /\ "errhalt" \in CallSteps /\ "errevent" \in CallSteps
  /\ "unstop" \in CallSteps /\ "open" \in CallSteps /\ "resume" \in CallSteps /\ "assign" \in CallSteps
  /\ "spawn" \in CallSteps /\ "halt" \in CallSteps /\ "event" \in CallSteps /\ "look" \in CallSteps
  /\ "join" \in CallSteps /\ "settle" \in CallSteps
  BY DEF CallSteps, StartSteps, StopSteps

LEMMA LoopNames ==
  /\ "unborn" \in LoopSteps /\ "fetch" \in LoopSteps /\ "ready" \in LoopSteps
  /\ "connect" \in LoopSteps /\ "check" \in LoopSteps /\ "enter" \in LoopSteps
  /\ "leave" \in LoopSteps /\ "close" \in LoopSteps /\ "fail" \in LoopSteps
  /\ "done" \in LoopSteps /\ "top" \in LoopSteps /\ "observe" \in LoopSteps
  /\ "frame" \in LoopSteps /\ "flush" \in LoopSteps /\ "send" \in LoopSteps
  /\ "await" \in LoopSteps /\ "reply" \in LoopSteps /\ "gate" \in LoopSteps
  /\ "confirm" \in LoopSteps /\ "publish" \in LoopSteps /\ "put" \in LoopSteps
  /\ "record" \in LoopSteps /\ "note" \in LoopSteps /\ "unwind" \in LoopSteps
  /\ "unwound" \in LoopSteps /\ "failgate" \in LoopSteps /\ "failhalt" \in LoopSteps
  /\ "failevent" \in LoopSteps
  BY DEF LoopSteps, Streaming, Unwinding, FailTail

LEMMA IdleType == Idle \in CallType
  BY DEF Idle, CallType, CallSteps, Ops

\* The three ways a call's record changes keep its type.
LEMMA CallTyped ==
  ASSUME TypeOK, NEW c \in Callers
  PROVE  /\ \A step \in CallSteps : Goto(c, step) => call' \in [Callers -> CallType]
         /\ Return(c) => call' \in [Callers -> CallType]
         /\ \A r \in CallType : call' = [call EXCEPT ![c] = r] => call' \in [Callers -> CallType]
<1>1. call \in [Callers -> CallType] BY DEF TypeOK, CallType
<1>2. ASSUME NEW step \in CallSteps, Goto(c, step) PROVE call' \in [Callers -> CallType]
  BY <1>1, <1>2 DEF Goto, CallType
<1> QED BY <1>1, <1>2, IdleType DEF Return

LEMMA LoopTyped ==
  ASSUME TypeOK, NEW g \in Gens, NEW step \in LoopSteps, LoopGoto(g, step)
  PROVE  loop' \in [Gens -> LoopSteps]
  BY DEF TypeOK, LoopGoto

LEMMA TypeInit == Init => TypeOK
<1> SUFFICES ASSUME Init PROVE TypeOK OBVIOUS
<1>1. call \in [Callers -> CallType] BY IdleType DEF Init
<1>2. loop \in [Gens -> LoopSteps] BY DEF Init, LoopSteps
<1>3. shown \in [frame : 0 .. MaxGen, action : 0 .. MaxGen] BY DEF Init
<1>4. late \in [Gens -> Nat] BY DEF Init
<1> QED BY <1>1, <1>2, <1>3, <1>4 DEF Init, TypeOK, CallType

LEMMA TypeStep == TypeOK /\ [Next]_vars => TypeOK'
<1> SUFFICES ASSUME TypeOK, Next PROVE TypeOK'
  BY DEF TypeOK, vars
<1> USE DEF TypeOK
<1>1. QED
  <2>1. ASSUME NEW c \in Callers, BeginCall(c) PROVE TypeOK'
    <3> USE CallTyped, CallNames, IdleType
    <3>1. CASE StartReenter(c)
      <4>1. [at |-> "wedged", op |-> "start", of |-> 0] \in CallType BY DEF CallType, Ops
      <4> QED BY <3>1, <4>1 DEF StartReenter, gates, session, history
    <3>2. CASE StartClaim(c)
      <4>1. [at |-> "unstop", op |-> "start", of |-> generation + 1] \in CallType
        BY <3>2 DEF StartClaim, GenerationLeft, CallType, Ops
      <4> QED BY <3>2, <4>1 DEF StartClaim, gates, history, GenerationLeft
    <3>3. ASSUME NEW op \in {"stop", "reset", "switch"}, StopGate(c, op) PROVE TypeOK'
      <4>1. [at |-> "halt", op |-> op, of |-> 0] \in CallType BY DEF CallType, Ops
      <4> QED BY <3>3, <4>1 DEF StopGate, session, history, GenerationLeft
    <3> QED BY <2>1, <3>1, <3>2, <3>3 DEF BeginCall
  <2>2. ASSUME NEW c \in Callers, CallStep(c) PROVE TypeOK'
    <3> USE CallTyped, CallNames
    <3>1. CASE StartUnstop(c) BY <3>1 DEF StartUnstop, At, session, history
    <3>2. CASE StartOpenGate(c) BY <3>2 DEF StartOpenGate, At, session, history
    <3>3. CASE StartResume(c) BY <3>3 DEF StartResume, At, session, history
    <3>4. CASE StartAssign(c)
      <4>1. call[c].of \in 0 .. MaxGen BY DEF CallType
      <4> QED BY <3>4, <4>1 DEF StartAssign, gates, session, history
    <3>5. CASE StartSpawn(c) BY LoopNames, <3>5 DEF StartSpawn, At, LoopGoto, gates, session, history
    <3>6. CASE StartReturn(c) BY <3>6 DEF StartReturn, At, gates, session, history
    <3>7. CASE StopHalt(c) BY <3>7 DEF StopHalt, At, session, history
    <3>8. CASE StopSetEvent(c) BY <3>8 DEF StopSetEvent, At, session, history
    <3>9. CASE StopLook(c)
      <4>1. [call[c] EXCEPT !.at = "join", !.of = thread] \in CallType BY DEF CallType
      <4>2. call' = [call EXCEPT ![c] = [call[c] EXCEPT !.at = "join", !.of = thread]] BY <3>9 DEF StopLook
      <4>3. call' \in [Callers -> CallType] BY <4>1, <4>2
      <4> QED BY <3>9, <4>3 DEF StopLook, gates, session, history
    <3>10. CASE StopJoin(c) BY <3>10 DEF StopJoin, At, gates, session, history, IsCurrent
    <3>11. CASE StopSettle(c)
      <4>1. Goto(c, "ttl") \/ Goto(c, "swap") \/ Return(c) BY <3>11 DEF StopSettle, At, gates
      <4>2. call' \in [Callers -> CallType] BY <4>1
      <4>3. state' \in {"IDLE", "RUNNING", "STOPPED", "ERROR"} BY <3>11 DEF StopSettle, At, gates
      <4>4. revoked' = generation /\ generation' = generation BY <3>11 DEF StopSettle, At, gates
      <4>5. starting' = FALSE /\ thread' \in 0 .. MaxGen /\ connected' = FALSE BY <3>11 DEF StopSettle, At, gates
      <4>6. UNCHANGED <<clock, lockFree, stopEvent, sendGate, halted, shown, loop, late>>
        BY <3>11 DEF StopSettle, At, gates
      <4> QED BY <4>2, <4>3, <4>4, <4>5, <4>6
    <3>12. CASE ResetRequest(c) BY <3>12 DEF ResetRequest, At, gates, session, history
    <3>13. CASE ResetSettle(c)
      <4>1. shown' \in [frame : 0 .. MaxGen, action : 0 .. MaxGen] BY <3>13 DEF ResetSettle, At, gates, history
      <4>2. state' \in {"IDLE", "RUNNING", "STOPPED", "ERROR"} BY <3>13 DEF ResetSettle, At, gates, history
      <4>3. call' \in [Callers -> CallType] BY <3>13 DEF ResetSettle, At, gates, history
      <4>4. generation' \in Nat /\ starting' = FALSE BY <3>13 DEF ResetSettle, At, gates, history
      <4>5. UNCHANGED <<clock, lockFree, connected, thread, stopEvent, sendGate, halted, loop, revoked, late>>
        BY <3>13 DEF ResetSettle, At, gates, history
      <4> QED BY <4>1, <4>2, <4>3, <4>4, <4>5
    <3>14. CASE SwitchServe(c) BY <3>14 DEF SwitchServe, At, gates, session, history
    <3>15. CASE AdoptPolicy(c) BY <3>15 DEF AdoptPolicy, At, gates, history
    <3>16. CASE MarkError(c) BY <3>16 DEF MarkError, At, gates, history
    <3>17. CASE MarkErrorClose(c) BY <3>17 DEF MarkErrorClose, At, session, history
    <3> QED BY <2>2, <3>1, <3>2, <3>3, <3>4, <3>5, <3>6, <3>7, <3>8, <3>9, <3>10, <3>11, <3>12, <3>13, <3>14, <3>15, <3>16, <3>17 DEF CallStep
  <2>3. ASSUME NEW g \in Gens, LoopObserve(g) \/ LoopTick(g) \/ LoopStep(g) PROVE TypeOK'
    <3> USE LoopTyped, LoopNames
    <3>1. CASE LoopObserve(g) BY <3>1 DEF LoopObserve, gates, session, history, IsCurrent
    <3>24. CASE LoopReceive(g) BY <3>24 DEF LoopReceive, gates, session, history, IsCurrent
    <3>25. CASE LoopTick(g) BY <3>25 DEF LoopTick, gates, session, history, IsCurrent
    <3>26. CASE LoopQuit(g) BY <3>26 DEF LoopQuit, gates, session, history, IsCurrent
    <3>2. CASE LoopFetch(g) BY <3>2 DEF LoopFetch, gates, session, history
    <3>3. CASE LoopReady(g) BY <3>3 DEF LoopReady, gates, session, history, IsCurrent
    <3>4. CASE LoopConnect(g) BY <3>4 DEF LoopConnect, gates, session, history
    <3>5. CASE LoopCheck(g) BY <3>5 DEF LoopCheck, gates, session, history, IsCurrent
    <3>6. CASE LoopEnter(g) BY <3>6 DEF LoopEnter, gates, session, history
    <3>7. CASE LoopExit(g) BY <3>7 DEF LoopExit, gates, session, history, IsCurrent
    <3>8. CASE LoopKeep(g) BY <3>8 DEF LoopKeep, AfterObservation, gates, session, history, IsCurrent
    <3>9. CASE LoopFrame(g)
      <4>1. shown' = [shown EXCEPT !.frame = g] /\ g \in 0 .. MaxGen BY <3>9 DEF LoopFrame
      <4>2. shown' \in [frame : 0 .. MaxGen, action : 0 .. MaxGen] BY <4>1
      <4>3. loop' \in [Gens -> LoopSteps] BY <3>9 DEF LoopFrame, AfterObservation, gates, session, history
      <4> QED BY <3>9, <4>2, <4>3 DEF LoopFrame, gates, session, history
    <3>10. CASE LoopFlush(g) BY <3>10 DEF LoopFlush, gates, session, history, IsCurrent
    <3>11. CASE LoopSend(g) BY <3>11 DEF LoopSend, gates, session, history
    <3>12. CASE LoopAwait(g) BY <3>12 DEF LoopAwait, gates, session, history
    <3>13. CASE LoopReply(g) BY <3>13 DEF LoopReply, gates, session, history, IsCurrent
    <3>14. CASE LoopGate(g) BY <3>14 DEF LoopGate, gates, session, history
    <3>15. CASE LoopConfirm(g) BY <3>15 DEF LoopConfirm, gates, session, history, IsCurrent
    <3>16. CASE LoopPublish(g) BY <3>16 DEF LoopPublish, gates, session, history
    <3>17. CASE LoopPut(g) BY <3>17 DEF LoopPut, gates, session
    <3>18. CASE LoopRecord(g) BY <3>18 DEF LoopRecord, gates, session, history, IsCurrent
    <3>19. CASE LoopNote(g)
      <4>1. shown' \in [frame : 0 .. MaxGen, action : 0 .. MaxGen] BY <3>19 DEF LoopNote
      <4>2. loop' \in [Gens -> LoopSteps] BY <3>19 DEF LoopNote, gates, session, history
      <4> QED BY <3>19, <4>1, <4>2 DEF LoopNote, gates, session, history
    <3>20. CASE LoopLeave(g) BY <3>20 DEF LoopLeave, gates, history
    <3>21. CASE LoopClose(g) BY <3>21 DEF LoopClose, gates, session, history
    <3>22. CASE LoopFail(g) BY <3>22 DEF LoopFail, gates, session, history
    <3>23. CASE LoopFailClose(g) BY <3>23 DEF LoopFailClose, session, history
    <3> QED BY <2>3, <3>1, <3>2, <3>3, <3>4, <3>5, <3>6, <3>7, <3>8, <3>9, <3>10, <3>11, <3>12, <3>13, <3>14, <3>15, <3>16, <3>17, <3>18, <3>19, <3>20, <3>21, <3>22, <3>23, <3>24, <3>25, <3>26 DEF LoopStep
  <2> QED BY <2>1, <2>2, <2>3 DEF Next

\* Every variable keeps its type in every behaviour of the session.
THEOREM TypeCorrect == Spec => []TypeOK
<1>1. Init => TypeOK BY TypeInit
<1>2. TypeOK /\ [Next]_vars => TypeOK' BY TypeStep
<1> QED BY <1>1, <1>2, PTL DEF Spec

-----------------------------------------------------------------------------
(* A superseded loop sends at most once *)

\* A start() between its claim and its thread's start owns a generation that has
\* been handed out, whose thread nobody has started.
OwnThread ==
  /\ \A c \in Callers : call[c].at \in StartSteps =>
       call[c].of \in 1 .. generation /\ call[c].of \in Gens /\ loop[call[c].of] = "unborn"
  /\ \A c, d \in Callers :
       c # d /\ call[c].at \in StartSteps /\ call[d].at \in StartSteps => call[c].of # call[d].of

\* A loop's generation has been handed out.
Born == \A g \in Gens : loop[g] # "unborn" => g <= generation

\* Where a loop that has sent an action late may be.
Spent == {"record", "top", "leave", "close", "done"}

OnceInv ==
  /\ TypeOK
  /\ OwnThread
  /\ Born
  /\ \A g \in Gens : late[g] # 0 => late[g] = 1 /\ g < generation /\ loop[g] \in Spent

LEMMA OnceInit == Init => OnceInv
  BY TypeInit DEF Init, OnceInv, OwnThread, Born, Idle, StartSteps

\* A step that starts no thread, sends nothing and puts no call on its way into a
\* Start keeps OnceInv, whether or not it takes a generation.
LEMMA OnceFrame ==
  ASSUME OnceInv, TypeOK', UNCHANGED <<loop, late>>, generation' \in {generation, generation + 1},
         \A c \in Callers : call'[c] = call[c] \/ call'[c].at \notin StartSteps
  PROVE  OnceInv'
  BY DEF OnceInv, TypeOK, CallType, OwnThread, Born

\* A call that moves to a step outside a Start's own, or returns.
LEMMA CallElsewhere ==
  ASSUME TypeOK, NEW c \in Callers, NEW step, step \notin StartSteps, Goto(c, step) \/ Return(c)
  PROVE  \A d \in Callers : call'[d] = call[d] \/ call'[d].at \notin StartSteps
  BY DEF TypeOK, CallType, Goto, Return, Idle, StartSteps

\* A loop that is alive and moves, to a place allowed to it if it has spent its send.
LEMMA OnceLoop ==
  ASSUME OnceInv, TypeOK', NEW g \in Gens, NEW step, LoopGoto(g, step),
         step # "unborn", loop[g] # "unborn", loop[g] \in Spent => step \in Spent,
         UNCHANGED <<call, late, generation>>
  PROVE  OnceInv'
  BY DEF OnceInv, TypeOK, CallType, OwnThread, Born, LoopGoto, StartSteps

LEMMA OnceStep == OnceInv /\ [Next]_vars => OnceInv'
<1> SUFFICES ASSUME OnceInv, [Next]_vars PROVE OnceInv'
  OBVIOUS
<1>1. TypeOK' BY TypeStep DEF OnceInv
<1>2. CASE UNCHANGED vars
  BY <1>1, <1>2 DEF OnceInv, OwnThread, Born, vars
<1>3. CASE Next
  <2> USE <1>1 DEF OnceInv, TypeOK, CallType, OwnThread, Born, Spent, StartSteps
  <2>1. ASSUME NEW c \in Callers, BeginCall(c) PROVE OnceInv'
    <3>1. CASE StartReenter(c)
      BY <3>1, OnceFrame DEF StartReenter, gates, session, history
    <3>2. CASE StartClaim(c)
      BY <3>2 DEF StartClaim, gates, history, GenerationLeft
    <3>3. ASSUME NEW op \in {"stop", "reset", "switch"}, StopGate(c, op) PROVE OnceInv'
      BY <3>3, OnceFrame DEF StopGate, session, history, GenerationLeft
    <3> QED BY <2>1, <3>1, <3>2, <3>3 DEF BeginCall
  <2>2. ASSUME NEW c \in Callers, CallStep(c) PROVE OnceInv'
    <3>1. CASE StartUnstop(c) BY <3>1 DEF StartUnstop, Goto, At, session, history
    <3>2. CASE StartOpenGate(c) BY <3>2 DEF StartOpenGate, Goto, At, session, history
    <3>3. CASE StartResume(c) BY <3>3 DEF StartResume, Goto, At, session, history
    <3>4. CASE StartAssign(c) BY <3>4 DEF StartAssign, Goto, At, gates, session, history
    <3>5. CASE StartSpawn(c) BY <3>5 DEF StartSpawn, Goto, At, LoopGoto, gates, session, history
    <3>6. CASE StartReturn(c) BY <3>6 DEF StartReturn, Return, At, Idle, gates, session, history
    <3>7. CASE StopHalt(c) BY <3>7 DEF StopHalt, Goto, At, session, history
    <3>8. CASE StopSetEvent(c) BY <3>8 DEF StopSetEvent, Goto, At, session, history
    <3>9. CASE StopLook(c) BY <3>9 DEF StopLook, At, gates, session, history
    <3>10. CASE StopJoin(c) BY <3>10 DEF StopJoin, Goto, At, gates, session, history, IsCurrent
    <3>11. CASE StopSettle(c)
      <4>1. Goto(c, "ttl") \/ Goto(c, "swap") \/ Return(c) BY <3>11 DEF StopSettle
      <4>2. \A d \in Callers : call'[d] = call[d] \/ call'[d].at \notin StartSteps
        BY <4>1, CallElsewhere
      <4>3. UNCHANGED <<loop, late, generation>> BY <3>11 DEF StopSettle
      <4> QED BY ONLY OnceInv, <1>1, <4>2, <4>3, OnceFrame
    <3>12. CASE ResetRequest(c)
      <4>1. \A d \in Callers : call'[d] = call[d] \/ call'[d].at \notin StartSteps
        BY <3>12, CallElsewhere DEF ResetRequest
      <4> QED BY ONLY OnceInv, <1>1, <3>12, <4>1, OnceFrame DEF ResetRequest, session, history
    <3>13. CASE ResetSettle(c)
      BY <3>13, OnceFrame DEF ResetSettle, Return, At, Idle, gates, history
    <3>14. CASE SwitchServe(c)
      <4>1. \A d \in Callers : call'[d] = call[d] \/ call'[d].at \notin StartSteps
        BY <3>14, CallElsewhere DEF SwitchServe
      <4> QED BY ONLY OnceInv, <1>1, <3>14, <4>1, OnceFrame DEF SwitchServe, session, history
    <3>15. CASE AdoptPolicy(c) BY <3>15 DEF AdoptPolicy, Return, At, Idle, gates, history
    <3>16. CASE MarkError(c) BY <3>16 DEF MarkError, Goto, At, gates, history
    <3>17. CASE MarkErrorClose(c)
      <4>1. \A d \in Callers : call'[d] = call[d] \/ call'[d].at \notin StartSteps
        BY <3>17, CallElsewhere DEF MarkErrorClose
      <4> QED BY ONLY OnceInv, <1>1, <3>17, <4>1, OnceFrame DEF MarkErrorClose, session, history
    <3> QED BY <2>2, <3>1, <3>2, <3>3, <3>4, <3>5, <3>6, <3>7, <3>8, <3>9, <3>10, <3>11, <3>12, <3>13, <3>14, <3>15, <3>16, <3>17 DEF CallStep
  <2>3. ASSUME NEW g \in Gens, LoopObserve(g) \/ LoopTick(g) \/ LoopStep(g) PROVE OnceInv'
    <3>1. CASE LoopObserve(g) BY <3>1 DEF LoopObserve, LoopGoto, gates, session, history, IsCurrent
    <3>24. CASE LoopReceive(g) BY <3>24 DEF LoopReceive, LoopGoto, gates, session, history, IsCurrent
    <3>25. CASE LoopTick(g) BY <3>25 DEF LoopTick, LoopGoto, gates, session, history, IsCurrent
    <3>26. CASE LoopQuit(g) BY <3>26 DEF LoopQuit, LoopGoto, gates, session, history, IsCurrent
    <3>2. CASE LoopFetch(g) BY <3>2 DEF LoopFetch, LoopGoto, gates, session, history
    <3>3. CASE LoopReady(g)
      <4>1. \E step \in {"connect", "done", "fail"} : LoopGoto(g, step) BY <3>3 DEF LoopReady
      <4>2. loop[g] = "ready" /\ UNCHANGED <<call, late, generation>>
        BY <3>3 DEF LoopReady, session, history
      <4> QED BY ONLY OnceInv, <1>1, <4>1, <4>2, OnceLoop DEF Spent
    <3>4. CASE LoopConnect(g) BY <3>4 DEF LoopConnect, LoopGoto, gates, session, history
    <3>5. CASE LoopCheck(g) BY <3>5 DEF LoopCheck, LoopGoto, gates, session, history, IsCurrent
    <3>6. CASE LoopEnter(g) BY <3>6 DEF LoopEnter, LoopGoto, gates, session, history
    <3>7. CASE LoopExit(g) BY <3>7 DEF LoopExit, LoopGoto, gates, session, history, IsCurrent
    <3>8. CASE LoopKeep(g) BY <3>8 DEF LoopKeep, AfterObservation, LoopGoto, gates, session, history, IsCurrent
    <3>9. CASE LoopFrame(g) BY <3>9 DEF LoopFrame, AfterObservation, LoopGoto, gates, session, history
    <3>10. CASE LoopFlush(g) BY <3>10 DEF LoopFlush, LoopGoto, gates, session, history, IsCurrent
    <3>11. CASE LoopSend(g) BY <3>11 DEF LoopSend, LoopGoto, gates, session, history
    <3>12. CASE LoopAwait(g)
      <4>1. \E step \in {"reply", "leave", "unwind"} : LoopGoto(g, step) BY <3>12 DEF LoopAwait
      <4>2. loop[g] = "await" /\ UNCHANGED <<call, late, generation>>
        BY <3>12 DEF LoopAwait, session, history
      <4> QED BY ONLY OnceInv, <1>1, <4>1, <4>2, OnceLoop DEF Spent
    <3>13. CASE LoopReply(g) BY <3>13 DEF LoopReply, LoopGoto, gates, session, history, IsCurrent
    <3>14. CASE LoopGate(g) BY <3>14 DEF LoopGate, LoopGoto, gates, session, history
    <3>15. CASE LoopConfirm(g) BY <3>15 DEF LoopConfirm, LoopGoto, gates, session, history, IsCurrent
    <3>16. CASE LoopPublish(g) BY <3>16 DEF LoopPublish, LoopGoto, gates, session, history
    <3>17. CASE LoopPut(g) BY <3>17 DEF LoopPut, LoopGoto, gates, session
    <3>18. CASE LoopRecord(g) BY <3>18 DEF LoopRecord, LoopGoto, gates, session, history, IsCurrent
    <3>19. CASE LoopNote(g) BY <3>19 DEF LoopNote, LoopGoto, gates, session, history
    <3>20. CASE LoopLeave(g)
      <4>1. UNCHANGED <<call, late, generation>> BY <3>20 DEF LoopLeave, history
      <4>2. CASE loop[g] = "leave"
        <5>1. LoopGoto(g, "close") BY <3>20, <4>2 DEF LoopLeave
        <5> QED BY ONLY OnceInv, <1>1, <4>1, <4>2, <5>1, OnceLoop DEF Spent
      <4>3. CASE loop[g] = "unwind"
        <5>1. LoopGoto(g, "unwound") BY <3>20, <4>3 DEF LoopLeave
        <5> QED BY ONLY OnceInv, <1>1, <4>1, <4>3, <5>1, OnceLoop DEF Spent
      <4> QED BY <3>20, <4>2, <4>3 DEF LoopLeave
    <3>21. CASE LoopClose(g)
      <4>1. UNCHANGED <<call, late, generation>> BY <3>21 DEF LoopClose, session, history
      <4>2. CASE loop[g] = "close"
        <5>1. LoopGoto(g, "done") BY <3>21, <4>2 DEF LoopClose
        <5> QED BY ONLY OnceInv, <1>1, <4>1, <4>2, <5>1, OnceLoop DEF Spent
      <4>3. CASE loop[g] = "unwound"
        <5>1. LoopGoto(g, "fail") BY <3>21, <4>3 DEF LoopClose
        <5> QED BY ONLY OnceInv, <1>1, <4>1, <4>3, <5>1, OnceLoop DEF Spent
      <4> QED BY <3>21, <4>2, <4>3 DEF LoopClose
    <3>22. CASE LoopFail(g) BY <3>22 DEF LoopFail, LoopGoto, gates, session, history
    <3>23. CASE LoopFailClose(g)
      <4>1. \E step \in {"failhalt", "failevent", "done"} : LoopGoto(g, step)
        BY <3>23 DEF LoopFailClose
      <4>2. loop[g] \in FailTail /\ UNCHANGED <<call, late, generation>>
        BY <3>23 DEF LoopFailClose, FailTail, session, history
      <4> QED BY ONLY OnceInv, <1>1, <4>1, <4>2, OnceLoop DEF Spent, FailTail
    <3> QED BY <2>3, <3>1, <3>2, <3>3, <3>4, <3>5, <3>6, <3>7, <3>8, <3>9, <3>10, <3>11, <3>12, <3>13, <3>14, <3>15, <3>16, <3>17, <3>18, <3>19, <3>20, <3>21, <3>22, <3>23, <3>24, <3>25, <3>26 DEF LoopStep
  <2> QED BY <1>3, <2>1, <2>2, <2>3 DEF Next
<1> QED BY <1>2, <1>3

\* However many calls and loops overlap, a loop that a later Start or Reset has
\* superseded puts at most one more action on the wire (LoopPut against the
\* generation that StartClaim and ResetSettle take).
THEOREM SupersededOnce == Spec => []SupersededSendsOnce
<1>1. Init => OnceInv BY OnceInit
<1>2. OnceInv /\ [Next]_vars => OnceInv' BY OnceStep
<1>3. OnceInv => SupersededSendsOnce
  BY DEF OnceInv, SupersededSendsOnce, TypeOK
<1> QED BY <1>1, <1>2, <1>3, PTL DEF Spec

-----------------------------------------------------------------------------
(* Calls one at a time, and the end of _fail() over before the next begins *)

OneCaller == \E c : Callers = {c}

\* Where a loop may be that is no longer current, once a stop() has joined it or given
\* it up : on a network wait, and from there on the way to its end.
Lag == {"unborn", "fetch", "ready", "connect", "check", "close", "unwound", "fail", "done"}
         \cup FailTail
         \cup (IF clock = "wall" THEN {"send", "await", "reply", "leave", "unwind"} ELSE {})

\* Where the current loop is while the session is STARTING, and while it is RUNNING.
Boot == {"fetch", "ready", "connect", "check", "enter", "fail"}
Run  == Streaming \cup Unwinding \cup {"fail"}

NoneFails == \A g \in Gens : loop[g] \notin FailTail
Active    == state = "RUNNING" \/ starting

\* The current loop is alive and everything is open to it.
LiveInv ==
  /\ ~stopEvent /\ sendGate /\ ~halted /\ generation \in Gens /\ NoneFails
  /\ state = "RUNNING" => loop[generation] \in Run
  /\ state # "RUNNING" => loop[generation] \in Boot

\* Everything is shut, but for what the end of _fail() has still to shut.
ShutInv ==
  /\ \A g \in Gens : g = generation => loop[g] \in Lag
  /\ sendGate => \E g \in Gens : g = generation /\ loop[g] = "failgate"
  /\ ~halted  => \E g \in Gens : g = generation /\ loop[g] \in {"failgate", "failhalt"}
  /\ ~stopEvent => \A g \in Gens : g = generation => loop[g] \in FailTail \cup {"unborn"}

StartPlace(r) ==
  /\ starting /\ state \in {"IDLE", "STOPPED"} /\ r.of = generation /\ generation > revoked /\ NoneFails
  /\ r.at # "unstop" => ~stopEvent
  /\ r.at \in {"resume", "assign", "spawn"} => sendGate
  /\ r.at \in {"assign", "spawn"} => ~halted
  /\ r.at = "spawn" => thread = generation

\* The steps of stop() up to its join, and what comes after the join.
Closing == {"halt", "event", "look", "join"}
Settled == {"settle", "ttl", "restore", "lose", "swap", "adopt", "reject", "errgate", "errhalt",
            "errevent"}

Place(r) ==
  /\ r.at \in {"idle", "await", "wedged"} => IF Active THEN LiveInv ELSE ShutInv
  /\ r.at \in StartSteps => StartPlace(r)
  /\ r.at \in Closing \cup Settled => ~sendGate
  /\ r.at \in (Closing \ {"halt"}) \cup Settled => halted
  /\ r.at \in {"look", "join"} \cup Settled => stopEvent
  /\ r.at = "join" => r.of = thread
  /\ r.at \in Settled => \A g \in Gens : g = generation => loop[g] \in Lag
  /\ r.at \in Settled \ {"settle"} => ~Active

\* Loop g is not started, or was stopped and lags, or is the one that _thread names,
\* whose generation no stop() has settled.
Tied(g) ==
  \/ loop[g] = "unborn"
  \/ stopEvent /\ loop[g] \in Lag
  \/ thread = g /\ g > revoked

LoopInv ==
  /\ revoked <= generation
  /\ \A g \in Gens : loop[g] \notin Lag => g = generation
  /\ \A g \in Gens : g = generation => Tied(g)
  /\ state = "ERROR" => \A g \in Gens : g = generation =>
       loop[g] \in Lag /\ (stopEvent \/ loop[g] \in FailTail \cup {"unborn", "done"})

CallerInv == OnceInv /\ LoopInv /\ \A c \in Callers : Place(call[c])

-----------------------------------------------------------------------------
(* A step of a loop thread *)

LEMMA LoopTo ==
  ASSUME TypeOK, NEW g \in Gens, NEW s, LoopGoto(g, s)
  PROVE  loop'[g] = s /\ \A h \in Gens \ {g} : loop'[h] = loop[h]
  BY DEF TypeOK, LoopGoto

Plain(g) ==
  \/ LoopFetch(g) \/ LoopReady(g) \/ LoopConnect(g) \/ LoopCheck(g)
  \/ LoopObserve(g) \/ LoopTick(g) \/ LoopReceive(g) \/ LoopQuit(g) \/ LoopExit(g)
  \/ LoopKeep(g) \/ LoopFrame(g) \/ LoopFlush(g) \/ LoopSend(g) \/ LoopAwait(g)
  \/ LoopReply(g) \/ LoopGate(g) \/ LoopConfirm(g) \/ LoopPublish(g) \/ LoopPut(g)
  \/ LoopRecord(g) \/ LoopNote(g) \/ LoopLeave(g) \/ LoopClose(g)

\* Where a plain step goes : a loop that is not current stays among the lagging ones,
\* and the current one, when everything is open to it, stays in its boot or its run.
Goes(g) ==
  /\ loop[g] \notin FailTail \cup {"unborn", "done"} /\ loop'[g] \notin FailTail \cup {"unborn"}
  /\ loop[g] \in Lag /\ ~IsCurrent(g) => loop'[g] \in Lag
  /\ IsCurrent(g) /\ sendGate /\ ~halted =>
       (loop[g] \in Run => loop'[g] \in Run) /\ (loop[g] \in Boot => loop'[g] \in Boot)

LEMMA PlainLeaves ==
  ASSUME TypeOK, NEW g \in Gens, Plain(g)
  PROVE  /\ UNCHANGED <<clock, state, starting, generation, thread, gates, call, revoked>>
         /\ \A h \in Gens \ {g} : loop'[h] = loop[h]
<1>1. UNCHANGED <<clock, state, starting, generation, thread, gates, call, revoked>>
  BY DEF Plain, LoopFetch, LoopReady, LoopConnect, LoopCheck, LoopObserve, LoopTick, LoopReceive,
         LoopQuit, LoopExit, LoopKeep, LoopFrame, LoopFlush, LoopSend, LoopAwait, LoopReply,
         LoopGate, LoopConfirm, LoopPublish, LoopPut, LoopRecord, LoopNote, LoopLeave, LoopClose,
         session, history
<1>2. \E s : LoopGoto(g, s)
  BY DEF Plain, LoopFetch, LoopReady, LoopConnect, LoopCheck, LoopObserve, LoopTick, LoopReceive,
         LoopQuit, LoopExit, LoopKeep, LoopFrame, LoopFlush, LoopSend, LoopAwait, LoopReply,
         LoopGate, LoopConfirm, LoopPublish, LoopPut, LoopRecord, LoopNote, LoopLeave, LoopClose
<1> QED BY <1>1, <1>2, LoopTo

LEMMA PlainGoes ==
  ASSUME TypeOK, NEW g \in Gens, Plain(g)
  PROVE  Goes(g)
<1> USE LoopTo DEF Goes, Lag, Boot, Run, Streaming, Unwinding, FailTail, IsCurrent, TypeOK
<1>1. CASE LoopFetch(g) BY <1>1 DEF LoopFetch
<1>2. CASE LoopReady(g) BY <1>2 DEF LoopReady
<1>3. CASE LoopConnect(g) BY <1>3 DEF LoopConnect
<1>4. CASE LoopCheck(g) BY <1>4 DEF LoopCheck
<1>5. CASE LoopObserve(g) BY <1>5 DEF LoopObserve
<1>6. CASE LoopTick(g) BY <1>6 DEF LoopTick
<1>7. CASE LoopReceive(g) BY <1>7 DEF LoopReceive
<1>8. CASE LoopQuit(g) BY <1>8 DEF LoopQuit
<1>9. CASE LoopExit(g) BY <1>9 DEF LoopExit
<1>10. CASE LoopKeep(g) BY <1>10 DEF LoopKeep, AfterObservation
<1>11. CASE LoopFrame(g) BY <1>11 DEF LoopFrame, AfterObservation
<1>12. CASE LoopFlush(g) BY <1>12 DEF LoopFlush
<1>13. CASE LoopSend(g) BY <1>13 DEF LoopSend
<1>14. CASE LoopAwait(g) BY <1>14 DEF LoopAwait
<1>15. CASE LoopReply(g) BY <1>15 DEF LoopReply
<1>16. CASE LoopGate(g) BY <1>16 DEF LoopGate
<1>17. CASE LoopConfirm(g) BY <1>17 DEF LoopConfirm
<1>18. CASE LoopPublish(g) BY <1>18 DEF LoopPublish
<1>19. CASE LoopPut(g) BY <1>19 DEF LoopPut
<1>20. CASE LoopRecord(g) BY <1>20 DEF LoopRecord
<1>21. CASE LoopNote(g) BY <1>21 DEF LoopNote
<1>22. CASE LoopLeave(g) BY <1>22 DEF LoopLeave
<1>23. CASE LoopClose(g) BY <1>23 DEF LoopClose
<1> QED
  BY <1>1, <1>2, <1>3, <1>4, <1>5, <1>6, <1>7, <1>8, <1>9, <1>10, <1>11, <1>12, <1>13, <1>14, <1>15,
     <1>16, <1>17, <1>18, <1>19, <1>20, <1>21, <1>22, <1>23 DEF Plain

LEMMA PlainKeeps ==
  ASSUME CallerInv, NEW g \in Gens, Plain(g)
  PROVE  LoopInv' /\ \A c \in Callers : Place(call[c])'
<1>0. TypeOK /\ LoopInv /\ (\A c \in Callers : Place(call[c])) /\ Goes(g) /\ Lag' = Lag
      /\ UNCHANGED <<clock, state, starting, generation, thread, gates, call, revoked>>
      /\ \A h \in Gens \ {g} : loop'[h] = loop[h]
  BY PlainLeaves, PlainGoes DEF CallerInv, OnceInv, Lag
<1> HIDE DEF Lag
<1>1. LoopInv' BY <1>0 DEF LoopInv, Tied, Goes, IsCurrent, gates
<1>2. ASSUME NEW c \in Callers PROVE Place(call[c])'
  <2>1. LiveInv => LiveInv' BY <1>0 DEF LiveInv, NoneFails, Goes, IsCurrent, gates
  <2>2. ShutInv => ShutInv'
    <3>1. "failgate" \in FailTail /\ "failhalt" \in FailTail BY DEF FailTail
    <3> QED BY <1>0, <3>1 DEF ShutInv, Goes, IsCurrent, gates
  <2>3. call[c].at \in Settled => stopEvent BY <1>0 DEF Place
  <2>4. call[c].at \in Settled => \A h \in Gens : h = generation => loop'[h] \in Lag
    BY <1>0, <2>3 DEF Place, Goes, IsCurrent
  <2>5. StartPlace(call[c]) => StartPlace(call[c])'
    BY <1>0 DEF StartPlace, NoneFails, Goes, gates
  <2>6. UNCHANGED <<Active, sendGate, halted, stopEvent, thread, generation>> /\ call' = call
    BY <1>0 DEF Active, gates
  <2> QED BY <1>0, <2>1, <2>2, <2>4, <2>5, <2>6 DEF Place
<1> QED BY <1>1, <1>2

\* In the steps of a Start the current loop is not born.
LEMMA StartsUnborn ==
  ASSUME CallerInv, NEW c \in Callers, call[c].at \in StartSteps
  PROVE  generation \in Gens /\ loop[generation] = "unborn"
  BY DEF CallerInv, OnceInv, OwnThread, Place, StartPlace

LEMMA SpecialKeeps ==
  ASSUME CallerInv, NEW g \in Gens, LoopEnter(g) \/ LoopFail(g) \/ LoopFailClose(g)
  PROVE  LoopInv' /\ \A c \in Callers : Place(call[c])'
<1> USE DEF gates, session, history
<1>0. TypeOK /\ LoopInv /\ (\A c \in Callers : Place(call[c])) /\ Lag' = Lag /\ UNCHANGED <<thread, call, generation, revoked>>
  BY DEF CallerInv, OnceInv, LoopEnter, LoopFail, LoopFailClose, Lag
<1>1. /\ "enter" \notin Lag /\ "fail" \in Lag /\ "done" \in Lag /\ FailTail \subseteq Lag
      /\ FailTail = {"failgate", "failhalt", "failevent"}
  BY DEF Lag, FailTail
<1>2. CASE LoopEnter(g)
  <2>1. g = generation /\ loop[g] = "enter" BY <1>0, <1>1, <1>2 DEF LoopEnter, LoopInv
  <2>2. /\ loop'[g] = "top" /\ \A h \in Gens \ {g} : loop'[h] = loop[h]
        /\ state' = "RUNNING" /\ UNCHANGED <<stopEvent, sendGate, halted>>
    BY <1>0, <1>2, <2>1, LoopTo DEF LoopEnter
  <2>3. LoopInv' BY <1>0, <1>1, <2>1, <2>2 DEF LoopInv, Tied
  <2>4. ASSUME NEW c \in Callers PROVE Place(call[c])'
    <3>1. Place(call[c]) BY <1>0
    <3>2. call[c].at \notin StartSteps BY <2>1, StartsUnborn
    <3>3. call[c].at \notin Settled BY <1>1, <2>1, <3>1 DEF Place
    <3>4. ~ShutInv BY <1>1, <2>1 DEF ShutInv
    <3>5. LiveInv => LiveInv'
      BY <1>0, <2>1, <2>2 DEF LiveInv, NoneFails, FailTail, Run, Streaming
    <3>6. Active' BY <2>2 DEF Active
    <3> QED BY <1>0, <2>2, <3>1, <3>2, <3>3, <3>4, <3>5, <3>6 DEF Place
  <2> QED BY <2>3, <2>4
<1>3. CASE LoopFail(g)
  <2>1. /\ loop[g] = "fail" /\ \A h \in Gens \ {g} : loop'[h] = loop[h]
        /\ UNCHANGED <<stopEvent, sendGate, halted>>
    BY <1>0, <1>3, LoopTo DEF LoopFail
  <2>2. CASE g = generation
    <3>1. loop'[g] = "failgate" /\ state' = "ERROR" /\ starting' = FALSE
      BY <1>0, <1>3, <2>2, LoopTo DEF LoopFail
    <3>2. LoopInv' BY <1>0, <1>1, <2>1, <2>2, <3>1 DEF LoopInv, Tied
    <3>3. ASSUME NEW c \in Callers PROVE Place(call[c])'
      <4>1. Place(call[c]) BY <1>0
      <4>2. call[c].at \notin StartSteps BY <2>1, <2>2, StartsUnborn
      <4>3. ~Active' BY <3>1 DEF Active
      <4>4. LiveInv \/ ShutInv => ShutInv'
        BY <1>0, <1>1, <2>1, <2>2, <3>1 DEF LiveInv, ShutInv
      <4>5. call[c].at \in Settled => \A h \in Gens : h = generation => loop'[h] \in Lag
        BY <1>1, <2>1, <3>1, <4>1 DEF Place
      <4> QED BY <1>0, <2>1, <4>1, <4>2, <4>3, <4>4, <4>5 DEF Place
    <3> QED BY <3>2, <3>3
  <2>3. CASE g # generation
    <3>1. loop'[g] = "done" /\ UNCHANGED <<state, starting>>
      BY <1>0, <1>3, <2>3, LoopTo DEF LoopFail
    <3>2. LoopInv' BY <1>0, <1>1, <2>1, <2>3, <3>1 DEF LoopInv, Tied
    <3>3. ASSUME NEW c \in Callers PROVE Place(call[c])'
      <4>1. Place(call[c]) BY <1>0
      <4>2. Active' = Active /\ (LiveInv => LiveInv') /\ (ShutInv => ShutInv')
        BY <1>0, <1>1, <2>1, <2>3, <3>1 DEF Active, LiveInv, NoneFails, ShutInv
      <4>3. StartPlace(call[c]) => StartPlace(call[c])'
        BY <1>0, <1>1, <2>1, <3>1 DEF StartPlace, NoneFails
      <4>4. call[c].at \in Settled => \A h \in Gens : h = generation => loop'[h] \in Lag
        BY <2>1, <2>3, <4>1 DEF Place
      <4> QED BY <1>0, <2>1, <4>1, <4>2, <4>3, <4>4 DEF Place
    <3> QED BY <3>2, <3>3
  <2> QED BY <2>2, <2>3
<1>4. CASE LoopFailClose(g)
  <2>1. /\ loop[g] \in FailTail /\ loop'[g] \in FailTail \cup {"done"}
        /\ \A h \in Gens \ {g} : loop'[h] = loop[h]
        /\ UNCHANGED <<state, starting>>
        /\ stopEvent' \in {stopEvent, TRUE} /\ sendGate' \in {sendGate, FALSE} /\ halted' \in {halted, TRUE}
    BY <1>0, <1>1, <1>4, LoopTo DEF LoopFailClose
  <2>2. /\ loop[g] = "failgate"  => loop'[g] = "failhalt" /\ ~sendGate'
        /\ loop[g] = "failhalt"  => loop'[g] = "failevent" /\ halted'
        /\ loop[g] = "failevent" => loop'[g] = "done" /\ stopEvent'
    BY <1>0, <1>4, LoopTo DEF LoopFailClose
  <2>5. (~sendGate => ~sendGate') /\ (halted => halted') /\ (stopEvent => stopEvent') BY <1>4 DEF LoopFailClose
  <2>6. \A h \in Gens : (loop[h] \in Lag => loop'[h] \in Lag) /\ (loop'[h] = "unborn" <=> loop[h] = "unborn")
    BY <1>1, <2>1
  <2>3. LoopInv'
    <3>1. \A h \in Gens : loop'[h] \notin Lag => loop[h] \notin Lag BY <2>6
    <3>2. \A h \in Gens : Tied(h) => Tied(h)' BY <1>0, <2>5, <2>6 DEF Tied
    <3>3. \A h \in Gens : (stopEvent \/ loop[h] \in FailTail \cup {"unborn", "done"})
                           => (stopEvent' \/ loop'[h] \in FailTail \cup {"unborn", "done"})
      BY <2>1, <2>5, <2>6
    <3> QED BY <1>0, <2>1, <2>6, <3>1, <3>2, <3>3 DEF LoopInv
  <2>4. ASSUME NEW c \in Callers PROVE Place(call[c])'
    <3>1. Place(call[c]) BY <1>0
    <3>2. ~NoneFails BY <2>1 DEF NoneFails
    <3>3. call[c].at \notin StartSteps /\ ~LiveInv BY <3>1, <3>2 DEF Place, StartPlace, LiveInv
    <3>4. Active' = Active BY <2>1 DEF Active
    <3>5. ShutInv => ShutInv' BY <1>0, <1>1, <2>1, <2>2 DEF ShutInv
    <3>6. call[c].at \in Settled => \A h \in Gens : h = generation => loop'[h] \in Lag
      BY <2>6, <3>1 DEF Place
    <3> QED BY <1>0, <2>5, <3>1, <3>3, <3>4, <3>5, <3>6 DEF Place
  <2> QED BY <2>3, <2>4
<1> QED BY <1>2, <1>3, <1>4

-----------------------------------------------------------------------------
(* A step of the only caller *)

LEMMA CallTo ==
  ASSUME TypeOK, NEW c \in Callers
  PROVE  /\ \A s : Goto(c, s) => call'[c].at = s /\ call'[c].of = call[c].of
         /\ Return(c) => call'[c].at = "idle"
         /\ \A r : call' = [call EXCEPT ![c] = r] => call'[c] = r
  BY DEF TypeOK, CallType, Goto, Return, Idle

LEMMA StartKeeps ==
  ASSUME CallerInv, PromptFail, NEW c \in Callers,
         \/ StartReenter(c) \/ StartClaim(c) \/ StartUnstop(c) \/ StartOpenGate(c)
         \/ StartResume(c) \/ StartAssign(c) \/ StartSpawn(c) \/ StartReturn(c)
  PROVE  LoopInv' /\ Place(call[c])'
<1> USE CallTo DEF At, gates, session, history
<1>0. TypeOK /\ OwnThread /\ Born /\ LoopInv /\ Place(call[c]) /\ generation \in Nat /\ revoked \in Nat
  BY DEF CallerInv, OnceInv, TypeOK
<1>1. CASE StartReenter(c) \/ StartReturn(c)
  <2>1. call[c].at \in {"idle", "await"} /\ call'[c].at \in {"idle", "wedged"}
    BY <1>0, <1>1 DEF StartReenter, StartReturn, MayBegin
  <2>2. UNCHANGED <<clock, session, thread, gates, loop, revoked>> BY <1>1 DEF StartReenter, StartReturn
  <2>3. LoopInv' BY <1>0, <2>2 DEF LoopInv, Tied, Lag
  <2>4. UNCHANGED <<Active, LiveInv, ShutInv>>
    BY <2>2 DEF Active, LiveInv, ShutInv, NoneFails, Lag
  <2> QED BY <1>0, <2>1, <2>3, <2>4 DEF Place, StartSteps, Closing, Settled
<1>2. CASE StartClaim(c)
  <2>1. /\ call[c].at = "idle" /\ ~Active /\ state \in {"IDLE", "STOPPED"} /\ NoneFails
        /\ starting' = TRUE /\ generation' = generation + 1 /\ generation < MaxGen
        /\ UNCHANGED <<clock, state, thread, gates, loop, revoked>>
    BY <1>2 DEF StartClaim, MayBegin, Active, NoneFails, GenerationLeft
  <2>2. call'[c].at = "unstop" /\ call'[c].of = generation + 1
    <3>1. call'[c] = [at |-> "unstop", op |-> "start", of |-> generation + 1]
      BY <1>0, <1>2 DEF StartClaim, TypeOK
    <3> QED BY <3>1
  <2>3. ShutInv BY <1>0, <2>1 DEF Place
  <2>4. \A g \in Gens : loop[g] \in Lag BY <1>0, <2>3 DEF LoopInv, ShutInv
  <2>5. \A g \in Gens : g = generation + 1 => loop[g] = "unborn" BY <1>0 DEF Born
  <2>6. LoopInv' BY <1>0, <2>1, <2>4, <2>5 DEF LoopInv, Tied, Lag
  <2>7. StartPlace(call[c])' BY <1>0, <2>1, <2>2 DEF StartPlace, NoneFails, LoopInv
  <2> QED BY <2>2, <2>6, <2>7 DEF Place, Closing, Settled
<1>3. CASE StartUnstop(c) \/ StartOpenGate(c) \/ StartResume(c) \/ StartAssign(c)
  <2>1. /\ call[c].at \in StartSteps \ {"spawn"} /\ call'[c].at \in StartSteps
        /\ call'[c].of = call[c].of
        /\ UNCHANGED <<clock, state, starting, generation, loop, revoked>>
    BY <1>0, <1>3 DEF StartUnstop, StartOpenGate, StartResume, StartAssign, StartSteps
  <2>2. StartPlace(call[c]) /\ generation \in Gens /\ loop[generation] = "unborn"
    BY <1>0, <2>1, StartsUnborn DEF Place
  <2>3. LoopInv' BY <1>0, <2>1, <2>2 DEF LoopInv, Tied, Lag, StartPlace
  <2>4. StartPlace(call[c])'
    <3> USE DEF StartPlace, NoneFails
    <3>1. CASE StartUnstop(c) BY <1>0, <2>1, <2>2, <3>1 DEF StartUnstop
    <3>2. CASE StartOpenGate(c) BY <1>0, <2>1, <2>2, <3>2 DEF StartOpenGate
    <3>3. CASE StartResume(c) BY <1>0, <2>1, <2>2, <3>3 DEF StartResume
    <3>4. CASE StartAssign(c) BY <1>0, <2>1, <2>2, <3>4 DEF StartAssign
    <3> QED BY <1>3, <3>1, <3>2, <3>3, <3>4
  <2> QED BY <2>1, <2>3, <2>4 DEF Place, StartSteps, Closing, Settled
<1>4. CASE StartSpawn(c)
  <2>1. /\ call[c].at = "spawn" /\ call'[c].at = "await" /\ LoopGoto(call[c].of, "fetch")
        /\ UNCHANGED <<clock, session, thread, gates, revoked>>
    BY <1>0, <1>4 DEF StartSpawn
  <2>2. StartPlace(call[c]) /\ generation \in Gens /\ loop[generation] = "unborn"
    BY <1>0, <2>1, StartsUnborn DEF Place, StartSteps
  <2>3. call[c].of = generation BY <2>2 DEF StartPlace
  <2>4. loop'[generation] = "fetch" /\ \A h \in Gens \ {generation} : loop'[h] = loop[h]
    BY <1>0, <2>1, <2>2, <2>3, LoopTo
  <2>5. LoopInv' BY <1>0, <2>1, <2>2, <2>4 DEF LoopInv, Tied, Lag, StartPlace
  <2>6. Active' /\ LiveInv'
    BY <2>1, <2>2, <2>4 DEF Active, LiveInv, StartPlace, NoneFails, Boot, FailTail
  <2> QED BY <2>1, <2>5, <2>6 DEF Place, StartSteps, Closing, Settled
<1> QED BY <1>1, <1>2, <1>3, <1>4

LEMMA StopKeeps ==
  ASSUME CallerInv, PromptFail, NEW c \in Callers,
         \/ \E op \in {"stop", "reset", "switch"} : StopGate(c, op)
         \/ StopHalt(c) \/ StopSetEvent(c) \/ StopLook(c) \/ StopJoin(c) \/ StopSettle(c)
  PROVE  LoopInv' /\ Place(call[c])'
<1> USE CallTo DEF At, gates, session, history
<1>0. TypeOK /\ LoopInv /\ Place(call[c]) /\ generation \in Nat /\ revoked \in Nat /\ call[c].of \in 0 .. MaxGen
  BY DEF CallerInv, OnceInv, TypeOK, CallType
<1>1. CASE \E op \in {"stop", "reset", "switch"} : StopGate(c, op)
  <2>1. PICK op \in {"stop", "reset", "switch"} : StopGate(c, op) BY <1>1
  <2>2. /\ call'[c].at = "halt" /\ sendGate' = FALSE
        /\ UNCHANGED <<clock, state, starting, generation, thread, stopEvent, loop, revoked>>
    BY <1>0, <2>1 DEF StopGate
  <2>3. LoopInv' BY <1>0, <2>2 DEF LoopInv, Tied, Lag
  <2> QED BY <2>2, <2>3 DEF Place, StartSteps, Closing, Settled
<1>2. CASE StopHalt(c)
  <2>1. /\ call[c].at = "halt" /\ call'[c].at = "event" /\ halted' = TRUE
        /\ UNCHANGED <<clock, state, starting, generation, thread, stopEvent, sendGate, loop, revoked>>
    BY <1>0, <1>2 DEF StopHalt
  <2>2. LoopInv' BY <1>0, <2>1 DEF LoopInv, Tied, Lag
  <2> QED BY <1>0, <2>1, <2>2 DEF Place, StartSteps, Closing, Settled
<1>3. CASE StopSetEvent(c)
  <2>1. /\ call[c].at = "event" /\ call'[c].at = "look" /\ stopEvent' = TRUE
        /\ UNCHANGED <<clock, state, starting, generation, thread, halted, sendGate, loop, revoked>>
    BY <1>0, <1>3 DEF StopSetEvent
  <2>2. LoopInv' BY <1>0, <2>1 DEF LoopInv, Tied, Lag
  <2> QED BY <1>0, <2>1, <2>2 DEF Place, StartSteps, Closing, Settled
<1>4. CASE StopLook(c)
  <2>1. call' = [call EXCEPT ![c] = [call[c] EXCEPT !.at = "join", !.of = thread]]
    BY <1>0, <1>4 DEF StopLook, TypeOK, CallType
  <2>2. call'[c].at = "join" /\ call'[c].of = thread
    BY <1>0, <2>1 DEF TypeOK, CallType
  <2>3. /\ call[c].at = "look"
        /\ UNCHANGED <<clock, state, starting, generation, thread, gates, loop, revoked>>
    BY <1>4 DEF StopLook
  <2>4. LoopInv' BY <1>0, <2>3 DEF LoopInv, Tied, Lag
  <2> QED BY <1>0, <2>2, <2>3, <2>4 DEF Place, StartSteps, Closing, Settled
<1>5. CASE StopJoin(c)
  <2>1. /\ call[c].at = "join" /\ call'[c].at = "settle"
        /\ \A g \in Gens : g = call[c].of =>
             loop[g] \in {"unborn", "done"} \cup Blocking \/ IsCurrent(g)
        /\ UNCHANGED <<clock, state, starting, generation, thread, gates, loop, revoked>>
    BY <1>0, <1>5 DEF StopJoin
  <2>2. stopEvent /\ halted /\ ~sendGate /\ call[c].of = thread BY <1>0, <2>1 DEF Place, Closing
  <2>3. \A g \in Gens : g = thread => loop[g] \in Lag
    BY <1>0, <2>1, <2>2 DEF IsCurrent, Blocking, Lag, TypeOK
  <2>4. \A g \in Gens : g = generation => loop[g] \in Lag
    <3>1. "unborn" \in Lag BY DEF Lag
    <3> QED BY <1>0, <2>3, <3>1 DEF LoopInv, Tied
  <2>5. LoopInv' BY <1>0, <2>1 DEF LoopInv, Tied, Lag
  <2>6. \A g \in Gens : g = generation' => loop'[g] \in Lag' BY <2>1, <2>4 DEF Lag
  <2> QED BY <2>1, <2>2, <2>5, <2>6 DEF Place, StartSteps, Closing, Settled
<1>6. CASE StopSettle(c)
  <2>1. /\ call[c].at = "settle" /\ revoked' = generation /\ thread' = 0 /\ ~Active'
        /\ state' # "ERROR" \/ state = "ERROR"
        /\ UNCHANGED <<clock, generation, gates, loop>>
    BY <1>6 DEF StopSettle, Active
  <2>2. call'[c].at \in {"ttl", "swap", "idle"}
    <3>1. Goto(c, "ttl") \/ Goto(c, "swap") \/ Return(c) BY <1>6 DEF StopSettle
    <3> QED BY <1>0, <3>1
  <2>3. /\ stopEvent /\ halted /\ ~sendGate /\ \A g \in Gens : g = generation => loop[g] \in Lag
    BY <1>0, <2>1 DEF Place, Settled
  <2>4. Lag' = Lag BY <2>1 DEF Lag
  <2>5. LoopInv' BY <1>0, <2>1, <2>3, <2>4 DEF LoopInv, Tied
  <2>6. ShutInv' BY <2>1, <2>3, <2>4 DEF ShutInv
  <2> QED BY <2>1, <2>2, <2>3, <2>4, <2>5, <2>6 DEF Place, StartSteps, Closing, Settled
<1> QED BY <1>1, <1>2, <1>3, <1>4, <1>5, <1>6

LEMMA SettledKeeps ==
  ASSUME CallerInv, NEW c \in Callers,
         \/ ResetRequest(c) \/ ResetSettle(c) \/ SwitchServe(c) \/ AdoptPolicy(c)
         \/ MarkError(c) \/ MarkErrorClose(c)
  PROVE  LoopInv' /\ Place(call[c])'
<1> USE CallTo DEF At, gates, session, history
<1>0. /\ TypeOK /\ Born /\ LoopInv /\ Place(call[c]) /\ generation \in Nat /\ revoked \in Nat
      /\ call[c].at \in Settled \ {"settle"}
  BY DEF CallerInv, OnceInv, TypeOK, Settled, ResetRequest, ResetSettle, SwitchServe, AdoptPolicy,
         MarkError, MarkErrorClose
<1>1. /\ ~sendGate /\ halted /\ stopEvent /\ ~Active
      /\ \A g \in Gens : g = generation => loop[g] \in Lag
  BY <1>0 DEF Place
<1>2. UNCHANGED <<clock, thread, sendGate, halted, stopEvent, loop, revoked>>
  BY <1>0, <1>1
  DEF TypeOK, ResetRequest, ResetSettle, SwitchServe, AdoptPolicy, MarkError, MarkErrorClose
<1>3. ~Active'
  BY <1>1 DEF ResetRequest, ResetSettle, SwitchServe, AdoptPolicy, MarkError, MarkErrorClose, Active
<1>4. call'[c].at \in {"idle"} \cup (Settled \ {"settle"})
  BY <1>0 DEF ResetRequest, ResetSettle, SwitchServe, AdoptPolicy, MarkError, MarkErrorClose, Settled
<1>5. generation' = generation \/ generation' = generation + 1
  BY DEF ResetRequest, ResetSettle, SwitchServe, AdoptPolicy, MarkError, MarkErrorClose
<1>6. Lag' = Lag BY <1>2 DEF Lag
<1>7. \A g \in Gens : loop[g] \in Lag BY <1>0, <1>1 DEF LoopInv
<1>8. LoopInv' BY <1>0, <1>1, <1>2, <1>5, <1>6, <1>7 DEF LoopInv, Tied
<1>9. ShutInv' BY <1>1, <1>2, <1>6, <1>7 DEF ShutInv
<1> QED BY <1>1, <1>2, <1>3, <1>4, <1>6, <1>7, <1>8, <1>9 DEF Place, StartSteps, Closing, Settled

-----------------------------------------------------------------------------
(* Every step *)

LEMMA CallerInit == Init => CallerInv
<1> SUFFICES ASSUME Init PROVE CallerInv
  OBVIOUS
<1>1. OnceInv BY OnceInit
<1>2. \A g \in Gens : loop[g] = "unborn" /\ "unborn" \in Lag /\ g # generation BY DEF Init, Lag
<1>3. LoopInv BY <1>2 DEF Init, LoopInv
<1>4. ASSUME NEW c \in Callers PROVE Place(call[c])
  <2>1. call[c].at = "idle" BY DEF Init, Idle
  <2>2. ~Active /\ ShutInv
    <3>1. ~sendGate /\ halted /\ ~Active BY DEF Init, Active
    <3> QED BY <1>2, <3>1 DEF ShutInv
  <2> QED BY <2>1, <2>2 DEF Place, StartSteps, Closing, Settled
<1> QED BY <1>1, <1>3, <1>4 DEF CallerInv

LEMMA CallerStep ==
  ASSUME OneCaller, PromptFail, CallerInv, [Next]_vars
  PROVE  CallerInv'
<1>1. OnceInv' BY OnceStep DEF CallerInv
<1>2. LoopInv' /\ \A c \in Callers : Place(call[c])'
  <2>1. CASE UNCHANGED vars
    <3>1. UNCHANGED <<Lag, Active, LiveInv, ShutInv, NoneFails, LoopInv>>
      BY <2>1 DEF vars, Lag, Active, LiveInv, ShutInv, NoneFails, LoopInv, Tied
    <3>2. ASSUME NEW c \in Callers PROVE Place(call[c])'
      BY <2>1, <3>1 DEF CallerInv, vars, Place, StartPlace
    <3> QED BY <3>1, <3>2 DEF CallerInv
  <2>2. ASSUME NEW c \in Callers, BeginCall(c) \/ CallStep(c)
        PROVE  LoopInv' /\ \A d \in Callers : Place(call[d])'
    <3>1. LoopInv' /\ Place(call[c])'
      <4>1. CASE \/ StartReenter(c) \/ StartClaim(c) \/ StartUnstop(c) \/ StartOpenGate(c)
                 \/ StartResume(c) \/ StartAssign(c) \/ StartSpawn(c) \/ StartReturn(c)
        BY <4>1, StartKeeps
      <4>2. CASE \/ \E op \in {"stop", "reset", "switch"} : StopGate(c, op)
                 \/ StopHalt(c) \/ StopSetEvent(c) \/ StopLook(c) \/ StopJoin(c) \/ StopSettle(c)
        BY <4>2, StopKeeps
      <4>3. CASE \/ ResetRequest(c) \/ ResetSettle(c) \/ SwitchServe(c) \/ AdoptPolicy(c)
                 \/ MarkError(c) \/ MarkErrorClose(c)
        BY <4>3, SettledKeeps
      <4> QED BY <2>2, <4>1, <4>2, <4>3 DEF BeginCall, CallStep
    <3>2. \A d \in Callers : d = c BY DEF OneCaller
    <3> QED BY <3>1, <3>2
  <2>3. ASSUME NEW g \in Gens, LoopObserve(g) \/ LoopTick(g) \/ LoopStep(g)
        PROVE  LoopInv' /\ \A c \in Callers : Place(call[c])'
    <3>1. Plain(g) \/ LoopEnter(g) \/ LoopFail(g) \/ LoopFailClose(g) BY <2>3 DEF LoopStep, Plain
    <3> QED BY <3>1, PlainKeeps, SpecialKeeps
  <2> QED BY <2>1, <2>2, <2>3 DEF Next
<1> QED BY <1>1, <1>2 DEF CallerInv

\* With one call at a time, the current loop, the two gates, the stop event and _thread
\* agree with the session's state at every step of every call and of every loop.
THEOREM CallerInvariant == ASSUME OneCaller, PromptFail PROVE Spec => []CallerInv
<1>1. Init => CallerInv BY CallerInit
<1>2. CallerInv /\ [Next]_vars => CallerInv' BY CallerStep
<1> QED BY <1>1, <1>2, PTL DEF Spec

\* Between calls a session that is not RUNNING or STARTING has both gates shut and no loop
\* past the tests before a send (stop()'s join and the ends of _fail() and mark_error()).
THEOREM SilentCorrect == ASSUME OneCaller, PromptFail PROVE Spec => []SilentUnlessRunning
<1>1. CallerInv => SilentUnlessRunning
  <2> SUFFICES ASSUME CallerInv, NoCallUnderWay, ~Active, NoneFails
               PROVE  ~sendGate /\ halted /\ \A g \in Gens : loop[g] \notin {"gate", "confirm", "publish", "put"}
    BY DEF SilentUnlessRunning, Active, NoneFails
  <2>1. ShutInv BY DEF OneCaller, NoCallUnderWay, At, CallerInv, Place
  <2>2. ~sendGate /\ halted BY <2>1, "failgate" \in FailTail, "failhalt" \in FailTail
    DEF ShutInv, NoneFails, CallerInv, OnceInv, TypeOK, FailTail
  <2>3. \A g \in Gens : loop[g] \in Lag BY <2>1 DEF ShutInv, CallerInv, LoopInv
  <2> QED BY <2>2, <2>3 DEF Lag, FailTail
<1> QED BY <1>1, CallerInvariant, PTL

\* Between calls RUNNING means that the loop of the current generation is streaming or on
\* its way to report its own failure (_run() against start() and stop()).
THEOREM RunningCorrect == ASSUME OneCaller, PromptFail PROVE Spec => []RunningHasLoop
<1>1. CallerInv => RunningHasLoop
  BY DEF OneCaller, NoCallUnderWay, At, CallerInv, Place, Active, LiveInv, Run, RunningHasLoop
<1> QED BY <1>1, CallerInvariant, PTL

-----------------------------------------------------------------------------
(* What a step may never do *)

\* Only the end of a Reset, or of a switch that adopts its policy, leaves ERROR, and for
\* IDLE : a loop that is still booting cannot make a failed session RUNNING (_run()).
THEOREM ErrorIsKept == ASSUME OneCaller, PromptFail PROVE Spec => ErrorNeedsReset
<1> DEFINE Kept == state = "ERROR" /\ state' # "ERROR" =>
                     state' = "IDLE" /\ \E c \in Callers : call[c].at \in {"restore", "adopt"}
<1>1. ASSUME CallerInv, [Next]_vars PROVE [Kept]_vars
  <2> SUFFICES ASSUME Next, state = "ERROR", state' # "ERROR" PROVE Kept
    BY <1>1
  <2>1. ASSUME NEW c \in Callers, BeginCall(c) \/ CallStep(c) PROVE Kept
    <3>1. ResetSettle(c) \/ AdoptPolicy(c)
      BY <2>1 DEF BeginCall, CallStep, StartReenter, StartClaim, StopGate, StartUnstop,
         StartOpenGate, StartResume, StartAssign, StartSpawn, StartReturn, StopHalt, StopSetEvent,
         StopLook, StopJoin, StopSettle, ResetRequest, SwitchServe, MarkError, MarkErrorClose, session
    <3> QED BY <3>1 DEF ResetSettle, AdoptPolicy, At
  <2>2. ASSUME NEW g \in Gens, LoopObserve(g) \/ LoopTick(g) \/ LoopStep(g) PROVE FALSE
    <3>1. TypeOK BY <1>1 DEF CallerInv, OnceInv
    <3>2. ~Plain(g) BY <3>1, PlainLeaves
    <3>3. LoopEnter(g) /\ g = generation /\ loop[g] = "enter"
      BY <2>2, <3>2 DEF LoopStep, Plain, LoopEnter, LoopFail, LoopFailClose, session
    <3>4. loop[g] \in Lag BY <1>1, <3>3 DEF CallerInv, LoopInv
    <3> QED BY <3>3, <3>4 DEF Lag, FailTail
  <2> QED BY <2>1, <2>2 DEF Next
<1>2. CallerInv /\ [Next]_vars => [Kept]_vars BY <1>1
<1> QED BY <1>2, CallerInvariant, PTL DEF Spec, ErrorNeedsReset

\* Once a Stop has settled a generation, its loop never sends again : the join, or the
\* wait it gave the loop up in, lies before every test that precedes a send (publish()).
THEOREM StoppedIsSilent == ASSUME OneCaller, PromptFail PROVE Spec => StoppedStaysSilent
<1> DEFINE Silent == \A g \in Gens : loop[g] = "put" /\ loop'[g] = "record" => g > revoked
<1>1. ASSUME CallerInv PROVE Silent
  <2>1. "put" \notin Lag /\ "put" # "unborn" BY DEF Lag, FailTail
  <2> QED BY <1>1, <2>1 DEF CallerInv, LoopInv, Tied
<1>2. CallerInv => [Silent]_vars BY <1>1
<1> QED BY <1>2, CallerInvariant, PTL DEF StoppedStaysSilent

\* What status() and the preview show is only ever replaced by the current loop or cleared
\* (_record_observation(), _record_action() and the end of reset()).
THEOREM ReportsAreCurrent == ASSUME OneCaller, PromptFail PROVE Spec => ReportsCurrentLoop
<1> DEFINE Current == /\ shown'.frame  \in {shown.frame, 0, generation}
                      /\ shown'.action \in {shown.action, 0, generation}
<1>1. ASSUME CallerInv, Next PROVE Current
  <2>0. shown \in [frame : 0 .. MaxGen, action : 0 .. MaxGen] /\ TypeOK
    BY <1>1 DEF CallerInv, OnceInv, TypeOK
  <2>1. ASSUME NEW c \in Callers, BeginCall(c) \/ CallStep(c) PROVE Current
    <3>1. shown' = shown \/ shown' = [frame |-> 0, action |-> 0]
      BY <2>1 DEF BeginCall, CallStep, StartReenter, StartClaim, StopGate, StartUnstop,
         StartOpenGate, StartResume, StartAssign, StartSpawn, StartReturn, StopHalt, StopSetEvent,
         StopLook, StopJoin, StopSettle, ResetRequest, ResetSettle, SwitchServe, AdoptPolicy,
         MarkError, MarkErrorClose
    <3> QED BY <3>1
  <2>2. ASSUME NEW g \in Gens, LoopObserve(g) \/ LoopTick(g) \/ LoopStep(g) PROVE Current
    <3>1. "frame" \notin Lag /\ "note" \notin Lag BY DEF Lag, FailTail
    <3>2. CASE LoopFrame(g)
      <4>1. g = generation BY <1>1, <3>1, <3>2 DEF CallerInv, LoopInv, LoopFrame
      <4> QED BY <2>0, <3>2, <4>1 DEF LoopFrame
    <3>3. CASE LoopNote(g)
      <4>1. g = generation BY <1>1, <3>1, <3>3 DEF CallerInv, LoopInv, LoopNote
      <4> QED BY <2>0, <3>3, <4>1 DEF LoopNote
    <3>4. CASE ~LoopFrame(g) /\ ~LoopNote(g)
      <4>1. shown' = shown
        BY <2>2, <3>4 DEF LoopStep, LoopFetch, LoopReady, LoopConnect, LoopCheck, LoopEnter,
           LoopObserve, LoopTick, LoopReceive, LoopQuit, LoopExit, LoopKeep, LoopFlush, LoopSend,
           LoopAwait, LoopReply, LoopGate, LoopConfirm, LoopPublish, LoopPut, LoopRecord,
           LoopLeave, LoopClose, LoopFail, LoopFailClose
      <4> QED BY <4>1
    <3> QED BY <3>2, <3>3, <3>4
  <2> QED BY <1>1, <2>1, <2>2 DEF Next
<1>2. CallerInv /\ [Next]_vars => [Current]_vars BY <1>1
<1> QED BY <1>2, CallerInvariant, PTL DEF Spec, ReportsCurrentLoop
=============================================================================
