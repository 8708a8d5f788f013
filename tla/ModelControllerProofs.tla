----------------------- MODULE ModelControllerProofs -----------------------
(***************************************************************************)
(* Theorems about ModelController for any entries and either owner of the  *)
(* settle : for any number of callers, the types and that one switch works *)
(* at a time ; and for one caller at a time, that between calls the VLA    *)
(* client, the settle command and the psi0 session reach the robot only    *)
(* where they may.                                                         *)
(*                                                                         *)
(* The argument follows the caller.  Rest is what a call finds and leaves, *)
(* Quiet what stop() has established and the rest of a Reset or a switch   *)
(* works under ; Place says which of the two, and what else, holds at each *)
(* step of a call.  What the parts do by themselves disturbs neither.      *)
(***************************************************************************)
EXTENDS ModelController, TLAPS

OneCaller == \E c : Callers = {c}

-----------------------------------------------------------------------------
Ops == {"none", "start", "stop", "reset", "switch"}

Calls == [at : Steps, op : Ops, on : Models, from : Models, got : States, back : BOOLEAN]

\* A call in the steps of stop() knows which call it is part of, and a settle is armed
\* only where there is something that owns it.
Knows(r) ==
  /\ r.at \in StopSteps => r.op \in {"stop", "reset", "switch"}
  /\ r.at = "armselect" => SettleSource # "none"

TypeInv == TypeOK /\ \A c \in Callers : Knows(call[c])

PsiActive == psi.starting \/ psi.state = "RUNNING"

\* The three properties, without "between calls".
Rest ==
  /\ gate /\ source = "groot" => mode = "RUNNING" /\ selected = "groot"
  /\ settling => mode = "IDLE" /\ selected = "groot" /\ source = SettleSource /\ gate
  /\ PsiActive => selected # "groot" /\ source = "psi" /\ gate

Quiet == ~gate /\ ~settling /\ ~PsiActive

\* The psi0 session is active for a selected psi0 entry only, and nothing settles.
Hushed == ~settling /\ (selected = "groot" => ~PsiActive)

StartPlace(r) ==
  /\ r.at \in {"alive", "hush"} => r.on = "groot"
  /\ r.at \in StartSteps => r.on = selected
  /\ r.at \in StartSteps \ {"alive", "hush"} => Hushed
  /\ r.at \in {"resume", "session", "await", "key", "store"} => source = Port(selected)
  /\ r.at \in {"session", "await", "key", "store"} => gate
  /\ r.at \in {"session", "await"} => selected # "groot"
  /\ r.at = "key" => selected = "groot"
  /\ r.at = "store" /\ selected = "groot" => r.got = "RUNNING"

StopPlace(r) ==
  /\ r.at \in {"halt", "look", "pause", "backend"} => Hushed
  /\ r.at \in {"look", "pause", "backend"} => ~gate
  /\ r.at = "pause" => selected = "groot"

SwitchWork == SwitchSteps \ {"release", "raise"}

QuietSteps == {"mark", "active", "request", "revive", "ready", "fail", "armselect", "prepselect"}
                \cup (SwitchSteps \ {"release"})

ResetPlace(r) ==
  /\ r.at \in {"request", "revive", "ready"} => r.on = selected
  /\ r.at \in {"revive", "prepselect", "prepresume", "prepwait"} => r.on = "groot"
  /\ r.at \in PrepareSteps /\ r.op = "reset" => r.on = selected
  /\ r.at \in {"prepresume", "prepwait", "armresume", "arm"} => ~settling /\ ~PsiActive
  /\ r.at \in {"armselect", "armresume", "arm"} => mode = "IDLE" /\ selected = "groot"
  /\ r.at \in {"armresume", "arm"} => source = SettleSource
  /\ r.at = "arm" => gate
  /\ r.at \in SwitchWork => r.op # "reset"

Place(r) ==
  /\ r.at \in {"free", "alive", "hush", "settle", "report", "release"} => Rest
  /\ r.at \in QuietSteps => Quiet
  /\ StartPlace(r) /\ StopPlace(r) /\ ResetPlace(r)

PlaceInv == \A c \in Callers : Place(call[c])

CallInv == TypeInv /\ PlaceInv

-----------------------------------------------------------------------------
(* The types *)

LEMMA FreeTyped == Free \in Calls /\ Free.at = "free"
  BY ControllerAssumption DEF Free, Calls, Steps, Ops, Models, States

\* What a call keeps when it only moves on.
Kept(c) ==
  /\ call'[c].op = call[c].op /\ call'[c].on = call[c].on
  /\ call'[c].from = call[c].from /\ call'[c].got = call[c].got

LEMMA Going ==
  ASSUME TypeInv, NEW c \in Callers, NEW s, Goto(c, s)
  PROVE  call'[c].at = s /\ Kept(c) /\ \A d \in Callers \ {c} : call'[d] = call[d]
<1>1. call \in [Callers -> Calls] BY DEF TypeInv, TypeOK, Calls, Ops
<1>2. call'[c] = [call[c] EXCEPT !.at = s] BY <1>1 DEF Goto
<1> QED BY <1>1, <1>2 DEF Goto, Kept, Calls

LEMMA GoingTyped ==
  ASSUME TypeInv, NEW c \in Callers, NEW s \in Steps, Goto(c, s)
  PROVE  call' \in [Callers -> Calls]
<1>1. call \in [Callers -> Calls] BY DEF TypeInv, TypeOK, Calls, Ops
<1>2. [call[c] EXCEPT !.at = s] \in Calls BY <1>1 DEF Calls
<1> QED BY <1>1, <1>2 DEF Goto

LEMMA Returning ==
  ASSUME TypeInv, NEW c \in Callers, Return(c)
  PROVE  /\ call' \in [Callers -> Calls] /\ call'[c] = Free
         /\ \A d \in Callers \ {c} : call'[d] = call[d]
  BY FreeTyped DEF Return, TypeInv, TypeOK, Calls, Ops

\* A step of caller c that moves it on, or frees it, keeps every call typed.
LEMMA OthersKnow ==
  ASSUME TypeInv, NEW c \in Callers, \A d \in Callers \ {c} : call'[d] = call[d],
         Knows(call'[c])
  PROVE  \A d \in Callers : Knows(call'[d])
  BY DEF TypeInv

LEMMA Moves ==
  ASSUME TypeInv, NEW c \in Callers, NEW s \in Steps, Goto(c, s),
         s \in StopSteps => call[c].op \in {"stop", "reset", "switch"},
         s = "armselect" => SettleSource # "none"
  PROVE  call' \in [Callers -> Calls] /\ \A d \in Callers : Knows(call'[d])
  BY Going, GoingTyped, OthersKnow DEF Kept, Knows

LEMMA Frees ==
  ASSUME TypeInv, NEW c \in Callers, Return(c)
  PROVE  call' \in [Callers -> Calls] /\ \A d \in Callers : Knows(call'[d])
  BY Returning, FreeTyped, OthersKnow DEF Knows, StopSteps

\* The places of a call, by name.
LEMMA Places ==
  /\ \A s \in StartSteps \cup ResetSteps \cup SwitchSteps \cup PrepareSteps \cup {"free", "stuck", "report"} :
       s \in Steps /\ s \notin StopSteps
  /\ \A s \in StopSteps : s \in Steps /\ s # "armselect"
  BY DEF StartSteps, StopSteps, ResetSteps, SwitchSteps, PrepareSteps, Steps

VarsTyped ==
  /\ mode \in States /\ switching \in BOOLEAN /\ selected \in Models
  /\ source \in {"psi", "groot", "initial_pose", "warmstart"} /\ gate \in BOOLEAN
  /\ psi \in [state : States, starting : BOOLEAN, locked : BOOLEAN]
  /\ server \in Checkpoints \cup {"down"} /\ groot \in {"up", "server", "down"}
  /\ playing \in BOOLEAN /\ settling \in BOOLEAN /\ overtaken \subseteq Callers

CallsTyped == call \in [Callers -> Calls] /\ \A c \in Callers : Knows(call[c])

LEMMA TypeSplit == TypeInv <=> VarsTyped /\ CallsTyped
  BY DEF TypeInv, TypeOK, VarsTyped, CallsTyped, Calls, Ops

LEMMA TypeJoin == VarsTyped' /\ CallsTyped' => TypeInv'
  BY DEF TypeInv, TypeOK, VarsTyped, CallsTyped, Calls, Ops

LEMMA ConstantsTyped ==
  /\ {"IDLE", "RUNNING", "STOPPED", "ERROR"} = States /\ "groot" \in Models /\ Checkpoints \subseteq Models
  /\ \A m \in Models : m # "groot" => m \in Checkpoints
  /\ Initial \in Models
  BY ControllerAssumption DEF States, Models

LEMMA TypesOfStart ==
  ASSUME TypeInv, NEW c \in Callers,
         \/ StartCheck(c) \/ StartAlive(c) \/ StartHush(c) \/ StartSelect(c) \/ StartResume(c)
         \/ StartSession(c) \/ StartAwait(c) \/ StartKey(c) \/ StartStore(c) \/ Report(c)
  PROVE  TypeInv'
<1> USE DEF OnlyCall, own, port, backends
<1>0. VarsTyped /\ CallsTyped /\ call[c] \in Calls BY TypeSplit DEF CallsTyped
<1>1. CASE StartCheck(c)
  <2> DEFINE r == [Free EXCEPT !.op = "start", !.on = selected,
                     !.at = IF selected = "groot" THEN "alive" ELSE "select"]
  <2>1. r \in Calls /\ Knows(r)
    <3>1. r.at \in {"alive", "select"} BY FreeTyped DEF Calls
    <3> QED BY <1>0, <3>1, FreeTyped, Places DEF Calls, VarsTyped, Knows, StartSteps, Ops
  <2>2. call' \in [Callers -> Calls] /\ \A d \in Callers : Knows(call'[d])
    BY <1>0, <1>1, <2>1 DEF StartCheck, CallsTyped
  <2>3. VarsTyped' BY <1>0, <1>1 DEF StartCheck, VarsTyped
  <2> QED BY <2>2, <2>3, TypeJoin DEF CallsTyped
<1>2. CASE StartAwait(c)
  <2>1. call' = [call EXCEPT ![c] = [call[c] EXCEPT !.at = "store", !.got = psi.state]]
    BY <1>0, <1>2 DEF StartAwait, CallsTyped
  <2>2. [call[c] EXCEPT !.at = "store", !.got = psi.state] \in Calls
    BY <1>0, Places DEF Calls, VarsTyped, StartSteps
  <2>3. Knows([call[c] EXCEPT !.at = "store", !.got = psi.state])
    BY <1>0 DEF Knows, Calls, StopSteps
  <2>4. CallsTyped' BY <1>0, <2>1, <2>2, <2>3 DEF CallsTyped
  <2>5. VarsTyped' BY <1>0, <1>2 DEF StartAwait, VarsTyped
  <2> QED BY <2>4, <2>5, TypeJoin
<1>3. CASE StartKey(c)
  <2>1. call' = [call EXCEPT ![c] = [call[c] EXCEPT !.at = "store", !.got = "RUNNING"]]
    BY <1>0, <1>3 DEF StartKey, CallsTyped
  <2>2. [call[c] EXCEPT !.at = "store", !.got = "RUNNING"] \in Calls
    BY <1>0, Places DEF Calls, StartSteps, States
  <2>3. Knows([call[c] EXCEPT !.at = "store", !.got = "RUNNING"])
    BY <1>0 DEF Knows, Calls, StopSteps
  <2>4. CallsTyped' BY <1>0, <2>1, <2>2, <2>3 DEF CallsTyped
  <2>5. VarsTyped' BY <1>0, <1>3 DEF StartKey, VarsTyped
  <2> QED BY <2>4, <2>5, TypeJoin
<1>4. CASE \/ StartAlive(c) \/ StartHush(c) \/ StartSelect(c) \/ StartResume(c)
           \/ StartSession(c) \/ StartStore(c) \/ Report(c)
  <2>1. \/ Return(c)
        \/ \E s \in {"hush", "select", "resume", "key", "session", "stuck", "await", "report"} : Goto(c, s)
    BY <1>4 DEF StartAlive, StartHush, StartSelect, StartResume, StartSession, StartStore, Report
  <2>2. CallsTyped'
    <3>1. \A s \in {"hush", "select", "resume", "key", "session", "stuck", "await", "report"} :
            s \in Steps /\ s \notin StopSteps /\ s # "armselect"
      BY DEF StartSteps, StopSteps, Steps
    <3> QED BY <2>1, <3>1, Moves, Frees DEF CallsTyped
  <2>3. (psi \in [state : States, starting : BOOLEAN, locked : BOOLEAN])' /\ (overtaken \subseteq Callers)'
    BY <1>0, <1>4
    DEF StartAlive, StartHush, StartSelect, StartResume, StartSession, StartStore, Report, VarsTyped,
        RouterSelect, RouterResume, SetMode
  <2>4. VarsTyped'
    BY <1>0, <1>4, <2>3
    DEF StartAlive, StartHush, StartSelect, StartResume, StartSession, StartStore, Report, VarsTyped,
        Port, RouterSelect, RouterResume, SetMode, Calls
  <2> QED BY <2>2, <2>4, TypeJoin
<1> QED BY <1>1, <1>2, <1>3, <1>4

LEMMA TypesOfStop ==
  ASSUME TypeInv, NEW c \in Callers,
         \/ StopBegin(c) \/ StopSettle(c) \/ StopHalt(c) \/ StopLook(c) \/ StopPause(c)
         \/ StopBackend(c) \/ StopMark(c)
  PROVE  TypeInv'
<1> USE DEF OnlyCall, own, port, backends
<1>0. VarsTyped /\ CallsTyped /\ call[c] \in Calls BY TypeSplit DEF CallsTyped
<1>1. CASE StopBegin(c)
  <2>1. PICK op \in {"stop", "reset"} : call' = [call EXCEPT ![c] = [Free EXCEPT !.at = "settle", !.op = op]]
    BY <1>1 DEF StopBegin
  <2> DEFINE r == [Free EXCEPT !.at = "settle", !.op = op]
  <2>2. r \in Calls BY FreeTyped, Places DEF Calls, StopSteps, Ops
  <2>3. Knows(r) BY FreeTyped DEF Knows, Calls
  <2>4. CallsTyped' BY <1>0, <2>1, <2>2, <2>3 DEF CallsTyped
  <2>5. VarsTyped' BY <1>0, <1>1 DEF StopBegin, VarsTyped
  <2> QED BY <2>4, <2>5, TypeJoin
<1>2. CASE StopSettle(c) \/ StopHalt(c) \/ StopLook(c) \/ StopPause(c) \/ StopBackend(c)
  <2>1. \E s \in StopSteps : Goto(c, s)
    BY <1>2 DEF StopSettle, StopHalt, StopLook, StopPause, StopBackend, StopSteps
  <2>2. call[c].op \in {"stop", "reset", "switch"}
    BY <1>0, <1>2 DEF StopSettle, StopHalt, StopLook, StopPause, StopBackend, At, CallsTyped, Knows, StopSteps
  <2>3. CallsTyped' BY <2>1, <2>2, Moves, Places DEF CallsTyped
  <2>4. (psi \in [state : States, starting : BOOLEAN, locked : BOOLEAN])'
    BY <1>0, <1>2
    DEF StopSettle, StopHalt, StopLook, StopPause, StopBackend, VarsTyped, RouterHalt, PsiStopped, States
  <2>5. VarsTyped'
    BY <1>0, <1>2, <2>4
    DEF StopSettle, StopHalt, StopLook, StopPause, StopBackend, VarsTyped, RouterHalt
  <2> QED BY <2>3, <2>5, TypeJoin
<1>3. CASE StopMark(c)
  <2>1. AfterStop(c) \in {"active", "old", "report"}
    BY <1>0, <1>3 DEF StopMark, At, CallsTyped, Knows, StopSteps, AfterStop
  <2>2. CallsTyped'
    <3>1. AfterStop(c) \in Steps /\ AfterStop(c) \notin StopSteps /\ AfterStop(c) # "armselect"
      BY <2>1 DEF StopSteps, ResetSteps, SwitchSteps, Steps
    <3> QED BY <1>3, <3>1, Moves DEF StopMark, CallsTyped
  <2>3. VarsTyped' BY <1>0, <1>3 DEF StopMark, VarsTyped, SetMode, States
  <2> QED BY <2>2, <2>3, TypeJoin
<1> QED BY <1>1, <1>2, <1>3

LEMMA TypesOfReset ==
  ASSUME TypeInv, NEW c \in Callers,
         \/ ResetActive(c) \/ ResetRequest(c) \/ ResetRevive(c) \/ ResetFail(c) \/ ResetReady(c)
         \/ ArmSelect(c) \/ ArmResume(c) \/ Arm(c)
         \/ PrepareSelect(c) \/ PrepareResume(c) \/ PrepareWait(c)
  PROVE  TypeInv'
<1> USE DEF OnlyCall, own, port, backends
<1>0. VarsTyped /\ CallsTyped /\ call[c] \in Calls BY TypeSplit DEF CallsTyped
<1>1. CASE ResetActive(c)
  <2> DEFINE r == [call[c] EXCEPT !.at = "request", !.on = selected]
  <2>1. call' = [call EXCEPT ![c] = r] \/ Return(c) BY <1>1 DEF ResetActive
  <2>2. r \in Calls BY <1>0, Places DEF Calls, VarsTyped, ResetSteps
  <2>3. Knows(r) BY <1>0 DEF Knows, Calls, StopSteps
  <2>4. CallsTyped'
    <3>1. CASE call' = [call EXCEPT ![c] = r] BY <1>0, <2>2, <2>3, <3>1 DEF CallsTyped
    <3>2. CASE Return(c) BY <3>2, Frees DEF CallsTyped
    <3> QED BY <2>1, <3>1, <3>2
  <2>5. VarsTyped' BY <1>0, <1>1 DEF ResetActive, GrootOutlives, VarsTyped
  <2> QED BY <2>4, <2>5, TypeJoin
<1>2. CASE \/ ResetRequest(c) \/ ResetRevive(c) \/ ResetFail(c) \/ ResetReady(c)
           \/ ArmSelect(c) \/ ArmResume(c) \/ Arm(c)
  <2>1. PICK s \in {"fail", "revive", "ready", "prepselect", "report", "armselect", "armresume", "arm"} :
          Goto(c, s) /\ (s = "armselect" => SettleSource # "none")
    BY <1>2 DEF ResetRequest, ResetRevive, GrootStarts, ResetFail, ResetReady, ArmSelect, ArmResume, Arm
  <2>2. CallsTyped'
    <3>1. s \in Steps /\ s \notin StopSteps BY DEF ResetSteps, PrepareSteps, StopSteps, Steps
    <3> QED BY <2>1, <3>1, Moves DEF CallsTyped
  <2>3. (source \in {"psi", "groot", "initial_pose", "warmstart"})'
    <3>1. ArmSelect(c) => SettleSource # "none"
      BY <1>0 DEF ArmSelect, At, CallsTyped, Knows
    <3> QED BY <1>0, <1>2, <3>1, ControllerAssumption
        DEF ResetRequest, ResetRevive, ResetFail, ResetReady, ArmSelect, ArmResume, Arm, VarsTyped,
            RouterSelect, RouterResume, SetMode
  <2>4. VarsTyped'
    BY <1>0, <1>2, <2>3
    DEF ResetRequest, ResetRevive, GrootStarts, ResetFail, ResetReady, ArmSelect, ArmResume, Arm, VarsTyped,
        RouterSelect, RouterResume, SetMode, States
  <2> QED BY <2>2, <2>4, TypeJoin
<1>3. CASE PrepareSelect(c) \/ PrepareResume(c) \/ PrepareWait(c)
  <2>1. PICK s \in {"prepresume", "prepwait", "ready", "fail", "broken", "commit", "rollback"} : Goto(c, s)
    BY <1>3 DEF PrepareSelect, PrepareResume, PrepareWait, Started, Failed
  <2>2. CallsTyped'
    <3>1. s \in Steps /\ s \notin StopSteps /\ s # "armselect"
      BY DEF ResetSteps, PrepareSteps, SwitchSteps, StopSteps, Steps
    <3> QED BY <2>1, <3>1, Moves DEF CallsTyped
  <2>3. VarsTyped'
    BY <1>0, <1>3
    DEF PrepareSelect, PrepareResume, PrepareWait, VarsTyped, RouterSelect, RouterResume, RouterHalt
  <2> QED BY <2>2, <2>3, TypeJoin
<1> QED BY <1>1, <1>2, <1>3

LEMMA TypesOfSwitch ==
  ASSUME TypeInv, NEW c \in Callers,
         \/ \E model \in Models : SwitchBegin(c, model)
         \/ SwitchHush(c) \/ SwitchHalt(c) \/ SwitchStopBackend(c) \/ SwitchStopServer(c)
         \/ ServerStart(c) \/ ServerVerify(c) \/ AdoptPolicy(c) \/ ServerPort(c)
         \/ GrootStart(c) \/ SwitchCommit(c) \/ SwitchIdle(c) \/ SwitchRollback(c)
         \/ SwitchBroken(c) \/ SwitchRelease(c)
  PROVE  TypeInv'
<1> USE DEF OnlyCall, own, port, backends
<1>0. VarsTyped /\ CallsTyped /\ call[c] \in Calls BY TypeSplit DEF CallsTyped
<1>1. CASE \E model \in Models : SwitchBegin(c, model)
  <2>1. PICK model \in Models : SwitchBegin(c, model) BY <1>1
  <2>2. PICK s \in {"release", "settle"} :
          call' = [call EXCEPT ![c] = [Free EXCEPT !.op = "switch", !.on = model, !.from = selected, !.at = s]]
    BY <2>1 DEF SwitchBegin
  <2> DEFINE r == [Free EXCEPT !.op = "switch", !.on = model, !.from = selected, !.at = s]
  <2>3. r \in Calls BY <1>0, FreeTyped, Places DEF Calls, SwitchSteps, StopSteps, Ops, VarsTyped
  <2>4. Knows(r) BY FreeTyped DEF Knows, Calls
  <2>5. CallsTyped' BY <1>0, <2>2, <2>3, <2>4 DEF CallsTyped
  <2>6. VarsTyped' BY <1>0, <2>1 DEF SwitchBegin, VarsTyped
  <2> QED BY <2>5, <2>6, TypeJoin
<1>2. CASE SwitchRollback(c)
  <2> DEFINE r == [call[c] EXCEPT !.at = "start", !.on = call[c].from, !.back = TRUE]
  <2>1. call' = [call EXCEPT ![c] = r] BY <1>0, <1>2 DEF SwitchRollback, CallsTyped
  <2>2. r \in Calls BY <1>0, Places DEF Calls, SwitchSteps
  <2>3. Knows(r) BY <1>0 DEF Knows, Calls, StopSteps
  <2>4. CallsTyped' BY <1>0, <2>1, <2>2, <2>3 DEF CallsTyped
  <2>5. VarsTyped' BY <1>0, <1>2 DEF SwitchRollback, VarsTyped
  <2> QED BY <2>4, <2>5, TypeJoin
<1>3. CASE \/ SwitchHush(c) \/ SwitchHalt(c) \/ SwitchStopBackend(c) \/ SwitchStopServer(c)
           \/ ServerStart(c) \/ ServerVerify(c) \/ AdoptPolicy(c) \/ ServerPort(c)
           \/ GrootStart(c) \/ SwitchCommit(c) \/ SwitchIdle(c)
           \/ SwitchBroken(c) \/ SwitchRelease(c)
  <2>1. \/ Return(c)
        \/ \E s \in SwitchSteps \cup {"report", "prepselect"} : Goto(c, s)
    BY <1>3 DEF SwitchHush, SwitchHalt, SwitchStopBackend, SwitchStopServer, ServerStart, ServerVerify,
                AdoptPolicy, ServerPort, GrootStart, GrootStarts, SwitchCommit, SwitchIdle, SwitchBroken,
                SwitchRelease, Started, Failed, SwitchSteps
  <2>2. CallsTyped'
    <3>1. \A s \in SwitchSteps \cup {"report", "prepselect"} :
            s \in Steps /\ s \notin StopSteps /\ s # "armselect"
      BY DEF SwitchSteps, PrepareSteps, StopSteps, Steps
    <3> QED BY <2>1, <3>1, Moves, Frees DEF CallsTyped
  <2>3. (psi \in [state : States, starting : BOOLEAN, locked : BOOLEAN])'
    BY <1>0, <1>3
    DEF SwitchHush, SwitchHalt, SwitchStopBackend, SwitchStopServer, ServerStart, ServerVerify,
        AdoptPolicy, ServerPort, GrootStart, SwitchCommit, SwitchIdle, SwitchBroken, SwitchRelease,
        VarsTyped, RouterSelect, RouterHalt, SetMode, PsiStopped, States
  <2>4. (server \in Checkpoints \cup {"down"})'
    BY <1>0, <1>3, ConstantsTyped
    DEF SwitchHush, SwitchHalt, SwitchStopBackend, SwitchStopServer, ServerStart, ServerVerify,
        AdoptPolicy, ServerPort, GrootStart, SwitchCommit, SwitchIdle, SwitchBroken, SwitchRelease,
        VarsTyped, RouterSelect, RouterHalt, SetMode, Calls
  <2>5. (groot \in {"up", "server", "down"} /\ playing \in BOOLEAN)'
    BY <1>0, <1>3
    DEF SwitchHush, SwitchHalt, SwitchStopBackend, SwitchStopServer, ServerStart, ServerVerify,
        AdoptPolicy, ServerPort, GrootStart, GrootStarts, SwitchCommit, SwitchIdle, SwitchBroken,
        SwitchRelease, VarsTyped, RouterSelect, RouterHalt, SetMode, GrootOutlives
  <2>6. (selected \in Models /\ mode \in States)'
    BY <1>0, <1>3
    DEF SwitchHush, SwitchHalt, SwitchStopBackend, SwitchStopServer, ServerStart, ServerVerify,
        AdoptPolicy, ServerPort, GrootStart, GrootStarts, SwitchCommit, SwitchIdle, SwitchBroken,
        SwitchRelease, VarsTyped, RouterSelect, RouterHalt, SetMode, Calls, States
  <2>7. (source \in {"psi", "groot", "initial_pose", "warmstart"} /\ gate \in BOOLEAN)'
    BY <1>0, <1>3
    DEF SwitchHush, SwitchHalt, SwitchStopBackend, SwitchStopServer, ServerStart, ServerVerify,
        AdoptPolicy, ServerPort, GrootStart, GrootStarts, SwitchCommit, SwitchIdle, SwitchBroken,
        SwitchRelease, VarsTyped, RouterSelect, RouterHalt, SetMode, Calls, States
  <2>8. (switching \in BOOLEAN /\ settling \in BOOLEAN /\ overtaken \subseteq Callers)'
    BY <1>0, <1>3
    DEF SwitchHush, SwitchHalt, SwitchStopBackend, SwitchStopServer, ServerStart, ServerVerify,
        AdoptPolicy, ServerPort, GrootStart, GrootStarts, SwitchCommit, SwitchIdle, SwitchBroken,
        SwitchRelease, VarsTyped, RouterSelect, RouterHalt, SetMode, Calls, States
  <2>9. VarsTyped' BY <2>3, <2>4, <2>5, <2>6, <2>7, <2>8 DEF VarsTyped
  <2> QED BY <2>2, <2>9, TypeJoin
<1> QED BY <1>1, <1>2, <1>3

Parts == PsiRuns \/ PsiFails \/ ServerDies \/ GrootDies

\* What the parts do by themselves leaves the calls, the router, and what the
\* controller knows as they are, and a session that is not active stays so.
LEMMA PartsLeave ==
  ASSUME TypeInv, Parts
  PROVE  /\ TypeInv' /\ UNCHANGED <<own, port, settling, call>>
         /\ PsiActive' => PsiActive
<1>0. VarsTyped /\ CallsTyped BY TypeSplit
<1>1. UNCHANGED <<own, port, settling, call, overtaken>>
  BY DEF Parts, PsiRuns, PsiFails, ServerDies, GrootDies, own, port
<1>2. (psi \in [state : States, starting : BOOLEAN, locked : BOOLEAN])' /\ (PsiActive' => PsiActive)
  BY <1>0 DEF Parts, PsiRuns, PsiFails, ServerDies, GrootDies, VarsTyped, States, PsiActive
<1>3. VarsTyped'
  BY <1>0, <1>1, <1>2 DEF Parts, PsiRuns, PsiFails, ServerDies, GrootDies, VarsTyped, own, port, backends
<1>4. CallsTyped' BY <1>0, <1>1 DEF CallsTyped
<1> QED BY <1>1, <1>2, <1>3, <1>4, TypeJoin

LEMMA TypeInit == Init => TypeInv
<1> SUFFICES ASSUME Init PROVE TypeInv OBVIOUS
<1>1. VarsTyped BY ControllerAssumption DEF Init, VarsTyped, States, Models
<1>2. CallsTyped BY FreeTyped DEF Init, CallsTyped, Knows, StopSteps
<1> QED BY <1>1, <1>2, TypeSplit

LEMMA TypeStep == TypeInv /\ [Next]_vars => TypeInv'
<1> SUFFICES ASSUME TypeInv, [Next]_vars PROVE TypeInv' OBVIOUS
<1>1. CASE UNCHANGED vars
  BY <1>1 DEF vars, TypeInv, TypeOK
<1>2. ASSUME NEW c \in Callers, BeginCall(c) \/ CallStep(c) PROVE TypeInv'
  BY <1>2, TypesOfStart, TypesOfStop, TypesOfReset, TypesOfSwitch DEF BeginCall, CallStep
<1>3. CASE Parts BY <1>3, PartsLeave
<1> QED BY <1>1, <1>2, <1>3 DEF Next, Parts

-----------------------------------------------------------------------------
(* The place of the caller *)

LEMMA StartPlaces ==
  ASSUME CallInv, NEW c \in Callers,
         \/ StartHush(c) \/ StartSelect(c) \/ StartResume(c) \/ StartStore(c)
  PROVE  Place(call[c])'
<1> USE DEF OnlyCall, own, port, backends, RouterSelect, RouterResume, RouterHalt, SetMode, Port
<1> USE DEF StartPlace, StopPlace, ResetPlace, Rest, Quiet, Hushed, PsiActive, PsiStopped
<1> USE DEF StartSteps, QuietSteps, SwitchSteps, SwitchWork, PrepareSteps
<1>0. /\ TypeInv /\ Place(call[c]) /\ Knows(call[c]) /\ VarsTyped /\ call[c] \in Calls
  BY TypeSplit DEF CallInv, PlaceInv, TypeInv, CallsTyped
<1>1. CASE StartHush(c)
  <2>1. call[c].at = "hush" /\ call'[c].at = "select" /\ Kept(c)
    BY <1>0, <1>1, Going DEF StartHush, At
  <2> QED BY <1>0, <1>1, <2>1 DEF StartHush, Place, Kept, Knows, VarsTyped
<1>2. CASE StartSelect(c)
  <2>1. call[c].at = "select" /\ call'[c].at = "resume" /\ Kept(c)
    BY <1>0, <1>2, Going DEF StartSelect, At
  <2> QED BY <1>0, <1>2, <2>1 DEF StartSelect, Place, Kept, Knows, VarsTyped
<1>3. CASE StartResume(c)
  <2>1. call[c].at = "resume" /\ call'[c].at = (IF call[c].on = "groot" THEN "key" ELSE "session") /\ Kept(c)
    BY <1>0, <1>3, Going DEF StartResume, At
  <2> QED BY <1>0, <1>3, <2>1 DEF StartResume, Place, Kept, Knows, VarsTyped
<1>4. CASE StartStore(c)
  <2>1. call[c].at = "store" /\ call'[c].at = "report" /\ Kept(c)
    BY <1>0, <1>4, Going DEF StartStore, At
  <2> QED BY <1>0, <1>4, <2>1 DEF StartStore, Place, Kept, Knows, VarsTyped
<1> QED BY <1>1, <1>2, <1>3, <1>4

LEMMA StopPlaces ==
  ASSUME CallInv, NEW c \in Callers,
         \/ StopSettle(c) \/ StopHalt(c) \/ StopLook(c) \/ StopPause(c)
         \/ StopBackend(c) \/ StopMark(c)
  PROVE  Place(call[c])'
<1> USE DEF OnlyCall, own, port, backends, RouterSelect, RouterResume, RouterHalt, SetMode, Port
<1> USE DEF StartPlace, StopPlace, ResetPlace, Rest, Quiet, Hushed, PsiActive, PsiStopped
<1> USE DEF StartSteps, QuietSteps, SwitchSteps, SwitchWork, PrepareSteps
<1>0. /\ TypeInv /\ Place(call[c]) /\ Knows(call[c]) /\ VarsTyped /\ call[c] \in Calls
  BY TypeSplit DEF CallInv, PlaceInv, TypeInv, CallsTyped
<1>1. CASE StopSettle(c)
  <2>1. call[c].at = "settle" /\ call'[c].at = "halt" /\ Kept(c)
    BY <1>0, <1>1, Going DEF StopSettle, At
  <2> QED BY <1>0, <1>1, <2>1 DEF StopSettle, Place, Kept, Knows, VarsTyped
<1>2. CASE StopHalt(c)
  <2>1. call[c].at = "halt" /\ call'[c].at = "look" /\ Kept(c)
    BY <1>0, <1>2, Going DEF StopHalt, At
  <2> QED BY <1>0, <1>2, <2>1 DEF StopHalt, Place, Kept, Knows, VarsTyped
<1>3. CASE StopLook(c)
  <2>1. call[c].at = "look" /\ Kept(c)
        /\ call'[c].at = (IF selected # "groot" THEN "backend"
                          ELSE IF mode = "RUNNING" /\ groot = "up" THEN "pause" ELSE "mark")
    BY <1>0, <1>3, Going DEF StopLook, At
  <2> QED BY <1>0, <1>3, <2>1 DEF StopLook, Place, Kept, Knows, VarsTyped
<1>4. CASE StopPause(c)
  <2>1. call[c].at = "pause" /\ call'[c].at = "mark" /\ Kept(c)
    BY <1>0, <1>4, Going DEF StopPause, At
  <2> QED BY <1>0, <1>4, <2>1 DEF StopPause, Place, Kept, Knows, VarsTyped
<1>5. CASE StopBackend(c)
  <2>1. call[c].at = "backend" /\ call'[c].at = "mark" /\ Kept(c)
    BY <1>0, <1>5, Going DEF StopBackend, At
  <2> QED BY <1>0, <1>5, <2>1 DEF StopBackend, Place, Kept, Knows, VarsTyped
<1>6. CASE StopMark(c)
  <2>1. /\ call[c].at = "mark" /\ Kept(c)
        /\ \/ call[c].op = "reset" /\ call'[c].at = "active"
           \/ call[c].op = "switch" /\ call'[c].at = "old"
           \/ call[c].op = "stop" /\ call'[c].at = "report"
    BY <1>0, <1>6, Going DEF StopMark, At, AfterStop, Knows, StopSteps
  <2> QED BY <1>0, <1>6, <2>1 DEF StopMark, AfterStop, Knows, StopSteps, Place, Kept, Knows, VarsTyped
<1> QED BY <1>1, <1>2, <1>3, <1>4, <1>5, <1>6

LEMMA ResetPlaces ==
  ASSUME CallInv, NEW c \in Callers,
         \/ ResetRequest(c) \/ ResetRevive(c) \/ ResetFail(c) \/ ResetReady(c)
         \/ ArmSelect(c) \/ ArmResume(c) \/ Arm(c) \/ PrepareSelect(c)
         \/ PrepareResume(c) \/ PrepareWait(c)
  PROVE  Place(call[c])'
<1> USE DEF OnlyCall, own, port, backends, RouterSelect, RouterResume, RouterHalt, SetMode, Port
<1> USE DEF StartPlace, StopPlace, ResetPlace, Rest, Quiet, Hushed, PsiActive, PsiStopped
<1> USE DEF StartSteps, QuietSteps, SwitchSteps, SwitchWork, PrepareSteps
<1>0. /\ TypeInv /\ Place(call[c]) /\ Knows(call[c]) /\ VarsTyped /\ call[c] \in Calls
  BY TypeSplit DEF CallInv, PlaceInv, TypeInv, CallsTyped
<1>1. CASE ResetRequest(c)
  <2>1. /\ call[c].at = "request" /\ Kept(c)
        /\ \/ call'[c].at = "fail"
           \/ call'[c].at = (IF call[c].on = "groot" THEN "revive" ELSE "ready")
    BY <1>0, <1>1, Going DEF ResetRequest, At
  <2> QED BY <1>0, <1>1, <2>1 DEF ResetRequest, Place, Kept, Knows, VarsTyped
<1>2. CASE ResetRevive(c)
  <2>1. call[c].at = "revive" /\ call'[c].at \in {"fail", "prepselect"} /\ Kept(c)
    BY <1>0, <1>2, Going DEF ResetRevive, At, GrootStarts
  <2> QED BY <1>0, <1>2, <2>1 DEF ResetRevive, GrootStarts, Place, Kept, Knows, VarsTyped
<1>3. CASE ResetFail(c)
  <2>1. call[c].at = "fail" /\ call'[c].at = "report" /\ Kept(c)
    BY <1>0, <1>3, Going DEF ResetFail, At
  <2> QED BY <1>0, <1>3, <2>1 DEF ResetFail, Place, Kept, Knows, VarsTyped
<1>4. CASE ResetReady(c)
  <2>1. /\ call[c].at = "ready" /\ Kept(c)
        /\ call'[c].at = (IF call[c].on = "groot" /\ SettleSource # "none" THEN "armselect" ELSE "report")
    BY <1>0, <1>4, Going DEF ResetReady, At
  <2> QED BY <1>0, <1>4, <2>1 DEF ResetReady, Place, Kept, Knows, VarsTyped
<1>5. CASE ArmSelect(c)
  <2>1. call[c].at = "armselect" /\ call'[c].at = "armresume" /\ Kept(c)
    BY <1>0, <1>5, Going DEF ArmSelect, At
  <2> QED BY <1>0, <1>5, <2>1 DEF ArmSelect, Place, Kept, Knows, VarsTyped
<1>6. CASE ArmResume(c)
  <2>1. call[c].at = "armresume" /\ call'[c].at = "arm" /\ Kept(c)
    BY <1>0, <1>6, Going DEF ArmResume, At
  <2> QED BY <1>0, <1>6, <2>1 DEF ArmResume, Place, Kept, Knows, VarsTyped
<1>7. CASE Arm(c)
  <2>1. call[c].at = "arm" /\ call'[c].at = "report" /\ Kept(c)
        /\ SettleSource # "groot"
    BY <1>0, <1>7, Going, ControllerAssumption DEF Arm, At
  <2> QED BY <1>0, <1>7, <2>1 DEF Arm, Place, Kept, Knows, VarsTyped
<1>8. CASE PrepareSelect(c)
  <2>1. call[c].at = "prepselect" /\ call'[c].at = "prepresume" /\ Kept(c)
    BY <1>0, <1>8, Going DEF PrepareSelect, At
  <2> QED BY <1>0, <1>8, <2>1 DEF PrepareSelect, Place, Kept, Knows, VarsTyped
<1>9. CASE PrepareResume(c)
  <2>1. call[c].at = "prepresume" /\ call'[c].at = "prepwait" /\ Kept(c)
    BY <1>0, <1>9, Going DEF PrepareResume, At
  <2> QED BY <1>0, <1>9, <2>1 DEF PrepareResume, Place, Kept, Knows, VarsTyped
<1>10. CASE PrepareWait(c)
  <2>1. /\ call[c].at = "prepwait" /\ Kept(c)
        /\ IF call[c].op = "reset" THEN call'[c].at \in {"ready", "fail"}
           ELSE call'[c].at \in {"broken", "commit", "rollback"}
    BY <1>0, <1>10, Going DEF PrepareWait, At, Started, Failed
  <2> QED BY <1>0, <1>10, <2>1 DEF PrepareWait, Started, Failed, Place, Kept, Knows, VarsTyped
<1> QED BY <1>1, <1>2, <1>3, <1>4, <1>5, <1>6, <1>7, <1>8, <1>9, <1>10

LEMMA SwitchPlaces ==
  ASSUME CallInv, NEW c \in Callers,
         \/ SwitchHush(c) \/ SwitchHalt(c) \/ SwitchStopBackend(c)
         \/ SwitchStopServer(c) \/ ServerStart(c) \/ ServerVerify(c) \/ AdoptPolicy(c)
         \/ ServerPort(c) \/ GrootStart(c) \/ SwitchCommit(c) \/ SwitchIdle(c)
         \/ SwitchBroken(c)
  PROVE  Place(call[c])'
<1> USE DEF OnlyCall, own, port, backends, RouterSelect, RouterResume, RouterHalt, SetMode, Port
<1> USE DEF StartPlace, StopPlace, ResetPlace, Rest, Quiet, Hushed, PsiActive, PsiStopped
<1> USE DEF StartSteps, QuietSteps, SwitchSteps, SwitchWork, PrepareSteps
<1>0. /\ TypeInv /\ Place(call[c]) /\ Knows(call[c]) /\ VarsTyped /\ call[c] \in Calls
  BY TypeSplit DEF CallInv, PlaceInv, TypeInv, CallsTyped
<1>1. CASE SwitchHush(c)
  <2>1. call[c].at = "old" /\ call'[c].at = "oldhalt" /\ Kept(c)
    BY <1>0, <1>1, Going DEF SwitchHush, At
  <2> QED BY <1>0, <1>1, <2>1 DEF SwitchHush, Place, Kept, Knows, VarsTyped
<1>2. CASE SwitchHalt(c)
  <2>1. call[c].at = "oldhalt" /\ call'[c].at = "oldbackend" /\ Kept(c)
    BY <1>0, <1>2, Going DEF SwitchHalt, At
  <2> QED BY <1>0, <1>2, <2>1 DEF SwitchHalt, Place, Kept, Knows, VarsTyped
<1>3. CASE SwitchStopBackend(c)
  <2>1. call[c].at = "oldbackend" /\ call'[c].at \in {"oldserver", "start", "raise"} /\ Kept(c)
    BY <1>0, <1>3, Going DEF SwitchStopBackend, At
  <2> QED BY <1>0, <1>3, <2>1 DEF SwitchStopBackend, Place, Kept, Knows, VarsTyped
<1>4. CASE SwitchStopServer(c)
  <2>1. call[c].at = "oldserver" /\ call'[c].at \in {"start", "raise"} /\ Kept(c)
    BY <1>0, <1>4, Going DEF SwitchStopServer, At
  <2> QED BY <1>0, <1>4, <2>1 DEF SwitchStopServer, Place, Kept, Knows, VarsTyped
<1>5. CASE ServerStart(c)
  <2>1. call[c].at = "start" /\ call'[c].at \in {"verify", "broken", "rollback"} /\ Kept(c)
    BY <1>0, <1>5, Going DEF ServerStart, At, Failed
  <2> QED BY <1>0, <1>5, <2>1 DEF ServerStart, Failed, Place, Kept, Knows, VarsTyped
<1>6. CASE ServerVerify(c)
  <2>1. call[c].at = "verify" /\ call'[c].at \in {"adopt", "broken", "rollback"} /\ Kept(c)
    BY <1>0, <1>6, Going DEF ServerVerify, At, Failed
  <2> QED BY <1>0, <1>6, <2>1 DEF ServerVerify, Failed, Place, Kept, Knows, VarsTyped
<1>7. CASE AdoptPolicy(c)
  <2>1. call[c].at = "adopt" /\ call'[c].at = "port" /\ Kept(c)
    BY <1>0, <1>7, Going DEF AdoptPolicy, At
  <2> QED BY <1>0, <1>7, <2>1 DEF AdoptPolicy, Place, Kept, Knows, VarsTyped
<1>8. CASE ServerPort(c)
  <2>1. call[c].at = "port" /\ call'[c].at \in {"broken", "commit"} /\ Kept(c)
    BY <1>0, <1>8, Going DEF ServerPort, At, Started
  <2> QED BY <1>0, <1>8, <2>1 DEF ServerPort, Started, Place, Kept, Knows, VarsTyped
<1>9. CASE GrootStart(c)
  <2>1. call[c].at = "start" /\ call'[c].at \in {"prepselect", "broken", "rollback"} /\ Kept(c)
    BY <1>0, <1>9, Going DEF GrootStart, At, GrootStarts, Failed
  <2> QED BY <1>0, <1>9, <2>1 DEF GrootStart, GrootStarts, Failed, Place, Kept, Knows, VarsTyped
<1>10. CASE SwitchCommit(c)
  <2>1. call[c].at = "commit" /\ call'[c].at = "idle" /\ Kept(c)
    BY <1>0, <1>10, Going DEF SwitchCommit, At
  <2> QED BY <1>0, <1>10, <2>1 DEF SwitchCommit, Place, Kept, Knows, VarsTyped
<1>11. CASE SwitchIdle(c)
  <2>1. call[c].at = "idle" /\ call'[c].at = "release" /\ Kept(c)
    BY <1>0, <1>11, Going DEF SwitchIdle, At
  <2> QED BY <1>0, <1>11, <2>1 DEF SwitchIdle, Place, Kept, Knows, VarsTyped
<1>12. CASE SwitchBroken(c)
  <2>1. call[c].at = "broken" /\ call'[c].at = "raise" /\ Kept(c)
    BY <1>0, <1>12, Going DEF SwitchBroken, At
  <2> QED BY <1>0, <1>12, <2>1 DEF SwitchBroken, Place, Kept, Knows, VarsTyped
<1> QED BY <1>1, <1>2, <1>3, <1>4, <1>5, <1>6, <1>7, <1>8, <1>9, <1>10, <1>11, <1>12

\* A caller that is free has only to be at rest, and one that begins a call changes
\* nothing but its own record.
LEMMA FreePlace ==
  ASSUME CallInv, NEW c \in Callers, Return(c), Rest'
  PROVE  Place(call[c])'
<1>1. call'[c].at = "free" BY Returning, FreeTyped DEF CallInv
<1> QED BY <1>1
    DEF Place, StartPlace, StopPlace, ResetPlace, StartSteps, QuietSteps, SwitchSteps, SwitchWork,
        PrepareSteps

LEMMA BeginPlaces ==
  ASSUME CallInv, NEW c \in Callers, BeginCall(c)
  PROVE  Place(call[c])'
<1> USE DEF OnlyCall, own, port, backends, Rest
<1> USE DEF Place, StartPlace, StopPlace, ResetPlace
<1> USE DEF StartSteps, QuietSteps, SwitchSteps, SwitchWork, PrepareSteps
<1>0. /\ TypeInv /\ call \in [Callers -> Calls] /\ Place(call[c])
  BY TypeSplit DEF CallInv, PlaceInv, CallsTyped
<1>1. CASE StartCheck(c)
  <2>1. call'[c] = [Free EXCEPT !.op = "start", !.on = selected,
                      !.at = IF selected = "groot" THEN "alive" ELSE "select"]
    BY <1>0, <1>1 DEF StartCheck
  <2>2. call'[c].at = (IF selected = "groot" THEN "alive" ELSE "select") /\ call'[c].on = selected
    BY <2>1, FreeTyped DEF Calls
  <2>3. Rest /\ UNCHANGED <<own, port, psi, settling>> BY <1>0, <1>1 DEF StartCheck, At
  <2>4. selected # "groot" => ~settling BY <2>3
  <2> QED BY <2>2, <2>3, <2>4 DEF Hushed, PsiActive
<1>2. CASE StopBegin(c)
  <2>1. PICK op \in {"stop", "reset"} : call'[c] = [Free EXCEPT !.at = "settle", !.op = op]
    BY <1>0, <1>2 DEF StopBegin
  <2>2. call'[c].at = "settle" BY <2>1, FreeTyped DEF Calls
  <2>3. Rest /\ UNCHANGED <<own, port, psi, settling>> BY <1>0, <1>2 DEF StopBegin, At
  <2> QED BY <2>2, <2>3 DEF PsiActive
<1>3. CASE \E model \in Models : SwitchBegin(c, model)
  <2>1. PICK model \in Models : SwitchBegin(c, model) BY <1>3
  <2>2. PICK s \in {"release", "settle"} :
          call'[c] = [Free EXCEPT !.op = "switch", !.on = model, !.from = selected, !.at = s]
    BY <1>0, <2>1 DEF SwitchBegin
  <2>3. call'[c].at = s BY <2>2, FreeTyped DEF Calls
  <2>4. Rest /\ UNCHANGED <<mode, selected, port, psi, settling>> BY <1>0, <2>1 DEF SwitchBegin, At
  <2> QED BY <2>3, <2>4 DEF PsiActive
<1> QED BY <1>1, <1>2, <1>3 DEF BeginCall

LEMMA OtherPlaces ==
  ASSUME CallInv, NEW c \in Callers,
         \/ StartAlive(c) \/ StartSession(c) \/ StartAwait(c) \/ StartKey(c) \/ Report(c)
         \/ ResetActive(c) \/ SwitchRollback(c) \/ SwitchRelease(c)
  PROVE  Place(call[c])'
<1> USE DEF OnlyCall, own, port, backends, Port
<1> USE DEF StartPlace, StopPlace, ResetPlace, Rest, Quiet, Hushed, PsiActive
<1> USE DEF StartSteps, QuietSteps, SwitchSteps, SwitchWork, PrepareSteps
<1>0. /\ TypeInv /\ Place(call[c]) /\ VarsTyped /\ call[c] \in Calls /\ call \in [Callers -> Calls]
  BY TypeSplit DEF CallInv, PlaceInv, TypeInv, CallsTyped
<1>1. CASE StartAlive(c)
  <2>1. CASE groot = "up"
    <3>1. call[c].at = "alive" /\ call'[c].at = "hush" /\ Kept(c)
      BY <1>0, <1>1, <2>1, Going DEF StartAlive, At
    <3> QED BY <1>0, <1>1, <3>1 DEF StartAlive, Place, Kept
  <2>2. CASE groot # "up"
    <3>1. Rest' BY <1>0, <1>1 DEF StartAlive, At, Place
    <3> QED BY <1>1, <2>2, <3>1, FreePlace DEF StartAlive
  <2> QED BY <2>1, <2>2
<1>2. CASE StartSession(c)
  <2>1. CASE Return(c)
    <3>1. psi' = psi \/ psi' = [psi EXCEPT !.starting = TRUE] \/ psi' = [psi EXCEPT !.locked = TRUE]
      BY <1>2 DEF StartSession
    <3>2. selected # "groot" /\ source = "psi" /\ gate /\ ~settling
      BY <1>0, <1>2 DEF StartSession, At, Place
    <3>3. Rest' BY <1>2, <3>2 DEF StartSession
    <3> QED BY <2>1, <3>3, FreePlace
  <2>2. CASE Goto(c, "stuck")
    <3>1. call'[c].at = "stuck" BY <1>0, <2>2, Going
    <3> QED BY <3>1 DEF Place
  <2>3. CASE Goto(c, "await")
    <3>1. call[c].at = "session" /\ call'[c].at = "await" /\ Kept(c)
      BY <1>0, <1>2, <2>3, Going DEF StartSession, At
    <3> QED BY <1>0, <1>2, <3>1 DEF StartSession, Place, Kept
  <2> QED BY <1>2, <2>1, <2>2, <2>3 DEF StartSession
<1>3. CASE StartAwait(c)
  <2>1. call'[c] = [call[c] EXCEPT !.at = "store", !.got = psi.state] /\ call[c].at = "await"
    BY <1>0, <1>3 DEF StartAwait, At
  <2>2. call'[c].at = "store" /\ call'[c].on = call[c].on BY <1>0, <2>1 DEF Calls
  <2> QED BY <1>0, <1>3, <2>1, <2>2 DEF StartAwait, Place
<1>4. CASE StartKey(c)
  <2>1. call'[c] = [call[c] EXCEPT !.at = "store", !.got = "RUNNING"] /\ call[c].at = "key"
    BY <1>0, <1>4 DEF StartKey, At
  <2>2. call'[c].at = "store" /\ call'[c].on = call[c].on /\ call'[c].got = "RUNNING"
    BY <1>0, <2>1 DEF Calls
  <2> QED BY <1>0, <1>4, <2>1, <2>2 DEF StartKey, Place
<1>5. CASE Report(c)
  <2>1. Rest' BY <1>0, <1>5 DEF Report, At, Place
  <2> QED BY <1>5, <2>1, FreePlace DEF Report
<1>6. CASE ResetActive(c)
  <2>1. CASE call' = [call EXCEPT ![c].at = "request", ![c].on = selected]
    <3>1. call'[c] = [call[c] EXCEPT !.at = "request", !.on = selected] /\ call[c].at = "active"
      BY <1>0, <1>6, <2>1 DEF ResetActive, At
    <3>2. call'[c].at = "request" /\ call'[c].on = selected BY <1>0, <3>1 DEF Calls
    <3> QED BY <1>0, <1>6, <3>1, <3>2 DEF ResetActive, Place
  <2>2. CASE Return(c)
    <3>1. Rest' BY <1>0, <1>6 DEF ResetActive, At, Place
    <3> QED BY <2>2, <3>1, FreePlace
  <2> QED BY <1>6, <2>1, <2>2 DEF ResetActive
<1>7. CASE SwitchRollback(c)
  <2>1. call'[c] = [call[c] EXCEPT !.at = "start", !.on = call[c].from, !.back = TRUE]
        /\ call[c].at = "rollback"
    BY <1>0, <1>7 DEF SwitchRollback, At
  <2>2. call'[c].at = "start" /\ call'[c].op = call[c].op BY <1>0, <2>1 DEF Calls
  <2> QED BY <1>0, <1>7, <2>1, <2>2 DEF SwitchRollback, Place
<1>8. CASE SwitchRelease(c)
  <2>1. CASE At(c, "release") /\ Goto(c, "report")
    <3>1. call[c].at = "release" /\ call'[c].at = "report" BY <1>0, <2>1, Going DEF At
    <3> QED BY <1>0, <1>8, <3>1 DEF SwitchRelease, Place
  <2>2. CASE At(c, "raise") /\ Return(c)
    <3>1. Rest' BY <1>0, <1>8, <2>2 DEF SwitchRelease, At, Place
    <3> QED BY <2>2, <3>1, FreePlace
  <2> QED BY <1>8, <2>1, <2>2 DEF SwitchRelease
<1> QED BY <1>1, <1>2, <1>3, <1>4, <1>5, <1>6, <1>7, <1>8

\* The parts disturb no place.
LEMMA PartsPlaces ==
  ASSUME CallInv, Parts, NEW c \in Callers
  PROVE  Place(call[c])'
<1>1. /\ UNCHANGED <<mode, selected, source, gate, settling, call>> /\ (PsiActive' => PsiActive)
  BY PartsLeave DEF CallInv, own, port
<1>2. Place(call[c]) BY DEF CallInv, PlaceInv
<1>3. (Rest => Rest') /\ (Quiet => Quiet') /\ (Hushed => Hushed')
  BY <1>1 DEF Rest, Quiet, Hushed
<1>4. (StartPlace(call[c]) => StartPlace(call[c])') /\ (StopPlace(call[c]) => StopPlace(call[c])')
  BY <1>1, <1>3 DEF StartPlace, StopPlace
<1>5. ResetPlace(call[c]) => ResetPlace(call[c])' BY <1>1 DEF ResetPlace
<1> QED BY <1>1, <1>2, <1>3, <1>4, <1>5 DEF Place

LEMMA CallInit == Init => CallInv
<1> SUFFICES ASSUME Init PROVE CallInv OBVIOUS
<1>1. ~gate /\ ~settling /\ ~PsiActive BY DEF Init, PsiActive
<1>2. \A c \in Callers : call[c].at = "free" BY FreeTyped DEF Init
<1>3. PlaceInv
  BY <1>1, <1>2
  DEF PlaceInv, Place, Rest, StartPlace, StopPlace, ResetPlace, StartSteps, QuietSteps, SwitchSteps,
      SwitchWork, PrepareSteps
<1> QED BY <1>3, TypeInit DEF CallInv

LEMMA CallInvStep == ASSUME OneCaller, CallInv, [Next]_vars PROVE CallInv'
<1>0. TypeInv' BY TypeStep DEF CallInv
<1>1. CASE UNCHANGED vars
  <2>1. \A c \in Callers : Place(call[c]) => Place(call[c])'
    BY <1>1 DEF vars, Place, Rest, Quiet, Hushed, PsiActive, StartPlace, StopPlace, ResetPlace
  <2> QED BY <1>0, <2>1 DEF CallInv, PlaceInv
<1>2. ASSUME NEW c \in Callers, BeginCall(c) \/ CallStep(c) PROVE CallInv'
  <2>1. Place(call[c])'
    BY <1>2, BeginPlaces, StartPlaces, StopPlaces, ResetPlaces, SwitchPlaces, OtherPlaces DEF CallStep
  <2>2. \A d \in Callers : d = c BY DEF OneCaller
  <2> QED BY <1>0, <2>1, <2>2 DEF CallInv, PlaceInv
<1>3. CASE Parts BY <1>0, <1>3, PartsPlaces DEF CallInv, PlaceInv
<1> QED BY <1>1, <1>2, <1>3 DEF Next, Parts

-----------------------------------------------------------------------------
(* One switch at a time, for any callers *)

\* A call has the op of the method whose steps it takes.
Fits(op, at) ==
  /\ at = "free" => op = "none"
  /\ at \in StartSteps \cup {"stuck"} => op = "start"
  /\ at \in ResetSteps => op = "reset"
  /\ at \in PrepareSteps => op \in {"reset", "switch"}
  /\ at \in SwitchSteps => op = "switch"

\* From the entry of switch() to its finally clause.
Switches(r) == r.op = "switch" /\ r.at # "report"

\* The selection is committed, and only the end of the switch is left.
Over(r) == r.at \in {"idle", "release"}

\* The lock is held by the switch that works, and by nothing else.
SwitchIsOne ==
  /\ switching <=> \E c \in Callers : Switches(call[c])
  /\ \A c, d \in Callers : Switches(call[c]) /\ Switches(call[d]) => c = d

\* Until a switch commits, the entry it came from is the selected one : a rollback goes
\* back to what status() has shown all along.
SwitchComesFromSelected ==
  \A c \in Callers : Switches(call[c]) /\ ~Over(call[c]) => selected = call[c].from

SwitchInv == /\ TypeInv /\ \A c \in Callers : Fits(call[c].op, call[c].at)
             /\ SwitchIsOne /\ SwitchComesFromSelected

\* What a step inside a call does to the switch under way : nothing.
Within(c) ==
  /\ \A d \in Callers \ {c} : call'[d] = call[d]
  /\ UNCHANGED <<switching, selected>>
  /\ Fits(call'[c].op, call'[c].at)
  /\ Switches(call'[c]) <=> Switches(call[c])
  /\ Switches(call[c]) /\ ~Over(call'[c]) => ~Over(call[c]) /\ call'[c].from = call[c].from

LEMMA WithinKeeps == ASSUME SwitchInv, TypeInv', NEW c \in Callers, Within(c) PROVE SwitchInv'
<1>1. \A d \in Callers : Fits(call'[d].op, call'[d].at) BY DEF SwitchInv, Within
<1>2. \A d \in Callers : Switches(call'[d]) <=> Switches(call[d]) BY DEF Within
<1>3. SwitchIsOne' BY <1>2 DEF SwitchInv, SwitchIsOne, Within
<1>4. SwitchComesFromSelected'
  <2> SUFFICES ASSUME NEW d \in Callers, Switches(call'[d]), ~Over(call'[d])
               PROVE  selected' = call'[d].from
    BY DEF SwitchComesFromSelected
  <2> QED BY <1>2 DEF SwitchInv, SwitchComesFromSelected, Within
<1> QED BY <1>1, <1>3, <1>4 DEF SwitchInv

LEMMA MovesWithin ==
  ASSUME SwitchInv, NEW c \in Callers, NEW s, Goto(c, s), UNCHANGED <<switching, selected>>,
         Fits(call[c].op, s),
         call[c].op = "switch" => /\ call[c].at # "report" /\ s # "report"
                                  /\ call[c].at \in {"idle", "release"} => s \in {"idle", "release"}
  PROVE  Within(c)
<1>1. call'[c].at = s /\ Kept(c) /\ \A d \in Callers \ {c} : call'[d] = call[d]
  BY Going DEF SwitchInv
<1> QED BY <1>1 DEF Within, Kept, Switches, Over

LEMMA ReturnsWithin ==
  ASSUME SwitchInv, NEW c \in Callers, Return(c), UNCHANGED <<switching, selected>>,
         ~Switches(call[c])
  PROVE  Within(c)
<1>1. call'[c] = Free /\ \A d \in Callers \ {c} : call'[d] = call[d] BY Returning DEF SwitchInv
<1>2. Free.at = "free" /\ Free.op = "none" BY FreeTyped DEF Free
<1>3. Fits("none", "free")
  BY DEF Fits, StartSteps, ResetSteps, PrepareSteps, SwitchSteps
<1> QED BY <1>1, <1>2, <1>3 DEF Within, Switches

LEMMA StartWithin ==
  ASSUME SwitchInv, NEW c \in Callers,
         \/ StartCheck(c) \/ StartAlive(c) \/ StartHush(c) \/ StartSelect(c) \/ StartResume(c)
         \/ StartSession(c) \/ StartAwait(c) \/ StartKey(c) \/ StartStore(c) \/ Report(c)
  PROVE  Within(c)
<1> USE DEF OnlyCall, own, port, backends, At
<1>0. call \in [Callers -> Calls] /\ call[c] \in Calls /\ Fits(call[c].op, call[c].at)
  BY TypeSplit DEF SwitchInv, CallsTyped
<1>a. \A s \in StartSteps \cup {"stuck", "report"} : Fits("start", s)
  BY DEF Fits, StartSteps, ResetSteps, PrepareSteps, SwitchSteps
<1>1. CASE StartCheck(c)
  <2> DEFINE r == [Free EXCEPT !.op = "start", !.on = selected,
                     !.at = IF selected = "groot" THEN "alive" ELSE "select"]
  <2>1. r.op = "start" /\ r.at \in {"alive", "select"} BY FreeTyped DEF Calls
  <2>2. call'[c] = r /\ \A d \in Callers \ {c} : call'[d] = call[d] BY <1>0, <1>1 DEF StartCheck
  <2>3. call[c].op = "none" BY <1>0, <1>1 DEF StartCheck, Fits
  <2>4. Fits(r.op, r.at) BY <1>a, <2>1 DEF StartSteps
  <2>5. UNCHANGED <<switching, selected>> BY <1>1 DEF StartCheck
  <2> QED BY <2>1, <2>2, <2>3, <2>4, <2>5 DEF Within, Switches
<1>2. CASE StartAwait(c) \/ StartKey(c)
  <2>1. PICK got : call' = [call EXCEPT ![c] = [call[c] EXCEPT !.at = "store", !.got = got]]
    BY <1>0, <1>2 DEF StartAwait, StartKey
  <2>2. /\ call'[c].at = "store" /\ call'[c].op = call[c].op
        /\ \A d \in Callers \ {c} : call'[d] = call[d]
    BY <1>0, <2>1 DEF Calls
  <2>3. call[c].op = "start" BY <1>0, <1>2 DEF StartAwait, StartKey, Fits, StartSteps
  <2>4. Fits("start", "store") BY <1>a DEF StartSteps
  <2>5. UNCHANGED <<switching, selected>> BY <1>2 DEF StartAwait, StartKey
  <2> QED BY <2>2, <2>3, <2>4, <2>5 DEF Within, Switches
<1>3. CASE \/ StartAlive(c) \/ StartHush(c) \/ StartSelect(c) \/ StartResume(c)
           \/ StartSession(c) \/ StartStore(c)
  <2>1. call[c].op = "start"
    BY <1>0, <1>3
    DEF StartAlive, StartHush, StartSelect, StartResume, StartSession, StartStore, Fits, StartSteps
  <2>2. UNCHANGED <<switching, selected>>
    BY <1>3
    DEF StartAlive, StartHush, StartSelect, StartResume, StartSession, StartStore,
        RouterSelect, RouterResume, SetMode
  <2>3. Return(c) \/ \E s \in StartSteps \cup {"stuck", "report"} : Goto(c, s)
    BY <1>3
    DEF StartAlive, StartHush, StartSelect, StartResume, StartSession, StartStore, StartSteps
  <2>4. ~Switches(call[c]) BY <2>1 DEF Switches
  <2> QED BY <1>a, <2>1, <2>2, <2>3, <2>4, MovesWithin, ReturnsWithin
<1>4. CASE Report(c)
  BY <1>4, ReturnsWithin DEF Report, Switches
<1> QED BY <1>1, <1>2, <1>3, <1>4

LEMMA StopWithin ==
  ASSUME SwitchInv, NEW c \in Callers,
         \/ StopBegin(c) \/ StopSettle(c) \/ StopHalt(c) \/ StopLook(c) \/ StopPause(c)
         \/ StopBackend(c) \/ StopMark(c)
  PROVE  Within(c)
<1> USE DEF OnlyCall, own, port, backends, At
<1>0. /\ call \in [Callers -> Calls] /\ call[c] \in Calls /\ Knows(call[c])
      /\ Fits(call[c].op, call[c].at)
  BY TypeSplit DEF SwitchInv, CallsTyped
<1>a. \A s \in StopSteps, op \in Ops : Fits(op, s)
  BY DEF Fits, StartSteps, StopSteps, ResetSteps, PrepareSteps, SwitchSteps
<1>1. CASE StopBegin(c)
  <2>1. PICK op \in {"stop", "reset"} : call' = [call EXCEPT ![c] = [Free EXCEPT !.at = "settle", !.op = op]]
    BY <1>1 DEF StopBegin
  <2>2. /\ call'[c].at = "settle" /\ call'[c].op = op
        /\ \A d \in Callers \ {c} : call'[d] = call[d]
    BY <1>0, <2>1, FreeTyped DEF Calls
  <2>3. call[c].op = "none" BY <1>0, <1>1 DEF StopBegin, Fits
  <2>4. Fits(op, "settle") BY <1>a DEF StopSteps, Ops
  <2>5. UNCHANGED <<switching, selected>> BY <1>1 DEF StopBegin
  <2> QED BY <2>2, <2>3, <2>4, <2>5 DEF Within, Switches
<1>2. CASE StopSettle(c) \/ StopHalt(c) \/ StopLook(c) \/ StopPause(c) \/ StopBackend(c)
  <2>1. call[c].at \in StopSteps /\ \E s \in StopSteps : Goto(c, s)
    BY <1>2 DEF StopSettle, StopHalt, StopLook, StopPause, StopBackend, StopSteps
  <2>2. UNCHANGED <<switching, selected>>
    BY <1>2 DEF StopSettle, StopHalt, StopLook, StopPause, StopBackend, RouterHalt
  <2>3. \A s \in StopSteps : s \notin {"report", "idle", "release"} BY DEF StopSteps
  <2>4. call[c].op \in Ops BY <1>0 DEF Calls
  <2> QED BY <1>a, <2>1, <2>2, <2>3, <2>4, MovesWithin
<1>3. CASE StopMark(c)
  <2>1. call[c].op \in {"stop", "reset", "switch"} BY <1>0, <1>3 DEF StopMark, Knows, StopSteps
  <2>2. /\ Fits(call[c].op, AfterStop(c))
        /\ call[c].op = "switch" => AfterStop(c) = "old"
    BY <2>1
    DEF AfterStop, Fits, StartSteps, StopSteps, ResetSteps, PrepareSteps, SwitchSteps
  <2>3. UNCHANGED <<switching, selected>> /\ Goto(c, AfterStop(c)) BY <1>3 DEF StopMark, SetMode
  <2>4. call[c].at = "mark" BY <1>3 DEF StopMark
  <2> QED BY <2>2, <2>3, <2>4, MovesWithin
<1> QED BY <1>1, <1>2, <1>3

LEMMA ResetWithin ==
  ASSUME SwitchInv, NEW c \in Callers,
         \/ ResetActive(c) \/ ResetRequest(c) \/ ResetRevive(c) \/ ResetFail(c) \/ ResetReady(c)
         \/ ArmSelect(c) \/ ArmResume(c) \/ Arm(c)
         \/ PrepareSelect(c) \/ PrepareResume(c) \/ PrepareWait(c)
  PROVE  Within(c)
<1> USE DEF OnlyCall, own, port, backends, At
<1>0. call \in [Callers -> Calls] /\ call[c] \in Calls /\ Fits(call[c].op, call[c].at)
  BY TypeSplit DEF SwitchInv, CallsTyped
<1>a. \A s \in ResetSteps \cup {"prepselect", "report"} : Fits("reset", s)
  BY DEF Fits, StartSteps, ResetSteps, PrepareSteps, SwitchSteps
<1>1. CASE ResetActive(c)
  <2>1. call[c].op = "reset" BY <1>0, <1>1 DEF ResetActive, Fits, ResetSteps
  <2>2. UNCHANGED <<switching, selected>> BY <1>1 DEF ResetActive
  <2>3. CASE call' = [call EXCEPT ![c].at = "request", ![c].on = selected]
    <3>1. /\ call'[c].at = "request" /\ call'[c].op = call[c].op
          /\ \A d \in Callers \ {c} : call'[d] = call[d]
      BY <1>0, <2>3 DEF Calls
    <3>2. Fits("reset", "request") BY <1>a DEF ResetSteps
    <3> QED BY <2>1, <2>2, <3>1, <3>2 DEF Within, Switches
  <2>4. CASE Return(c) BY <2>1, <2>2, <2>4, ReturnsWithin DEF Switches
  <2> QED BY <1>1, <2>3, <2>4 DEF ResetActive
<1>2. CASE \/ ResetRequest(c) \/ ResetRevive(c) \/ ResetFail(c) \/ ResetReady(c)
           \/ ArmSelect(c) \/ ArmResume(c) \/ Arm(c)
  <2>1. call[c].op = "reset"
    BY <1>0, <1>2
    DEF ResetRequest, ResetRevive, ResetFail, ResetReady, ArmSelect, ArmResume, Arm, Fits, ResetSteps
  <2>2. UNCHANGED <<switching, selected>>
    BY <1>2
    DEF ResetRequest, ResetRevive, ResetFail, ResetReady, ArmSelect, ArmResume, Arm,
        RouterSelect, RouterResume, SetMode
  <2>3. \E s \in ResetSteps \cup {"prepselect", "report"} : Goto(c, s)
    BY <1>2
    DEF ResetRequest, ResetRevive, GrootStarts, ResetFail, ResetReady, ArmSelect, ArmResume, Arm,
        ResetSteps
  <2> QED BY <1>a, <2>1, <2>2, <2>3, MovesWithin
<1>3. CASE PrepareSelect(c) \/ PrepareResume(c) \/ PrepareWait(c)
  <2>1. call[c].op \in {"reset", "switch"} /\ call[c].at \in PrepareSteps
    BY <1>0, <1>3 DEF PrepareSelect, PrepareResume, PrepareWait, Fits, PrepareSteps
  <2>2. UNCHANGED <<switching, selected>>
    BY <1>3 DEF PrepareSelect, PrepareResume, PrepareWait, RouterSelect, RouterResume, RouterHalt
  <2>3. PICK s : Goto(c, s) /\ \/ s \in PrepareSteps
                               \/ call[c].op = "reset" /\ s \in {"ready", "fail"}
                               \/ call[c].op = "switch" /\ s \in {"broken", "commit", "rollback"}
    BY <1>3, <2>1 DEF PrepareSelect, PrepareResume, PrepareWait, Started, Failed, PrepareSteps
  <2>4. Fits(call[c].op, s) /\ s \notin {"report", "idle", "release"}
    BY <2>1, <2>3 DEF Fits, StartSteps, ResetSteps, PrepareSteps, SwitchSteps
  <2>5. call[c].at \notin {"report", "idle", "release"} BY <2>1 DEF PrepareSteps
  <2> QED BY <2>2, <2>3, <2>4, <2>5, MovesWithin
<1> QED BY <1>1, <1>2, <1>3

\* The steps of a switch between its entry and its end.
LEMMA SwitchWithin ==
  ASSUME SwitchInv, NEW c \in Callers,
         \/ SwitchHush(c) \/ SwitchHalt(c) \/ SwitchStopBackend(c) \/ SwitchStopServer(c)
         \/ ServerStart(c) \/ ServerVerify(c) \/ AdoptPolicy(c) \/ ServerPort(c)
         \/ GrootStart(c) \/ SwitchIdle(c) \/ SwitchRollback(c) \/ SwitchBroken(c)
  PROVE  Within(c)
<1> USE DEF OnlyCall, own, port, backends, At
<1>0. call \in [Callers -> Calls] /\ call[c] \in Calls /\ Fits(call[c].op, call[c].at)
  BY TypeSplit DEF SwitchInv, CallsTyped
<1>a. \A s \in SwitchSteps \cup {"prepselect"} : Fits("switch", s) /\ s # "report"
  BY DEF Fits, StartSteps, ResetSteps, PrepareSteps, SwitchSteps
<1>1. CASE SwitchRollback(c)
  <2>1. call' = [call EXCEPT ![c] = [call[c] EXCEPT !.at = "start", !.on = call[c].from, !.back = TRUE]]
    BY <1>0, <1>1 DEF SwitchRollback
  <2>2. /\ call'[c].at = "start" /\ call'[c].op = call[c].op /\ call'[c].from = call[c].from
        /\ \A d \in Callers \ {c} : call'[d] = call[d]
    BY <1>0, <2>1 DEF Calls
  <2>3. call[c].op = "switch" /\ call[c].at = "rollback"
    BY <1>0, <1>1 DEF SwitchRollback, Fits, SwitchSteps
  <2>4. Fits("switch", "start") BY <1>a DEF SwitchSteps
  <2>5. UNCHANGED <<switching, selected>> BY <1>1 DEF SwitchRollback
  <2> QED BY <2>2, <2>3, <2>4, <2>5 DEF Within, Switches, Over
<1>2. CASE \/ SwitchHush(c) \/ SwitchHalt(c) \/ SwitchStopBackend(c) \/ SwitchStopServer(c)
           \/ ServerStart(c) \/ ServerVerify(c) \/ AdoptPolicy(c) \/ ServerPort(c)
           \/ GrootStart(c) \/ SwitchIdle(c) \/ SwitchBroken(c)
  <2>1. call[c].op = "switch" /\ call[c].at \in SwitchSteps
    BY <1>0, <1>2
    DEF SwitchHush, SwitchHalt, SwitchStopBackend, SwitchStopServer, ServerStart, ServerVerify,
        AdoptPolicy, ServerPort, GrootStart, SwitchIdle, SwitchBroken, Fits, SwitchSteps
  <2>2. UNCHANGED <<switching, selected>>
    BY <1>2
    DEF SwitchHush, SwitchHalt, SwitchStopBackend, SwitchStopServer, ServerStart, ServerVerify,
        AdoptPolicy, ServerPort, GrootStart, SwitchIdle, SwitchBroken, RouterSelect, RouterHalt,
        SetMode
  <2>3. \E s \in SwitchSteps \cup {"prepselect"} :
          Goto(c, s) /\ (call[c].at \in {"idle", "release"} => s = "release")
    BY <1>2
    DEF SwitchHush, SwitchHalt, SwitchStopBackend, SwitchStopServer, ServerStart, ServerVerify,
        AdoptPolicy, ServerPort, GrootStart, GrootStarts, SwitchIdle, SwitchBroken, Started, Failed,
        SwitchSteps
  <2>4. call[c].at # "report" BY <2>1 DEF SwitchSteps
  <2> QED BY <1>a, <2>1, <2>2, <2>3, <2>4, MovesWithin
<1> QED BY <1>1, <1>2

\* switch() tests the lock and takes it, and keeps what is selected as the entry to
\* go back to.
LEMMA SwitchBegins ==
  ASSUME SwitchInv, TypeInv', NEW c \in Callers, NEW model \in Models, SwitchBegin(c, model)
  PROVE  SwitchInv'
<1> USE DEF At
<1>0. call \in [Callers -> Calls] BY TypeSplit DEF SwitchInv, CallsTyped
<1>1. PICK s \in {"release", "settle"} :
        call' = [call EXCEPT ![c] = [Free EXCEPT !.op = "switch", !.on = model, !.from = selected, !.at = s]]
  BY DEF SwitchBegin
<1>2. /\ call'[c].at = s /\ call'[c].op = "switch" /\ call'[c].from = selected
      /\ \A d \in Callers \ {c} : call'[d] = call[d]
  BY <1>0, <1>1, FreeTyped DEF Calls
<1>3. ~switching /\ switching' = TRUE /\ selected' = selected BY DEF SwitchBegin
<1>4. \A d \in Callers : ~Switches(call[d]) BY <1>3 DEF SwitchInv, SwitchIsOne
<1>5. \A d \in Callers : Switches(call'[d]) <=> d = c BY <1>2, <1>4 DEF Switches
<1>6. \A d \in Callers : Fits(call'[d].op, call'[d].at)
  <2>1. Fits("switch", s)
    BY DEF Fits, StartSteps, ResetSteps, PrepareSteps, SwitchSteps
  <2> QED BY <1>2, <2>1 DEF SwitchInv
<1>7. SwitchIsOne' BY <1>3, <1>5 DEF SwitchIsOne
<1>8. SwitchComesFromSelected' BY <1>2, <1>3, <1>5 DEF SwitchComesFromSelected
<1> QED BY <1>6, <1>7, <1>8 DEF SwitchInv

\* The commit : no other switch is under way whose entry to go back to it would change.
LEMMA SwitchCommits ==
  ASSUME SwitchInv, TypeInv', NEW c \in Callers, SwitchCommit(c)
  PROVE  SwitchInv'
<1>1. /\ call'[c].at = "idle" /\ Kept(c) /\ \A d \in Callers \ {c} : call'[d] = call[d]
      /\ call[c].at = "commit" /\ switching' = switching
  BY Going DEF SwitchInv, SwitchCommit, At
<1>2. call[c].op = "switch" BY <1>1 DEF SwitchInv, Fits, SwitchSteps
<1>3. \A d \in Callers : Fits(call'[d].op, call'[d].at)
  <2>1. Fits("switch", "idle")
    BY DEF Fits, StartSteps, ResetSteps, PrepareSteps, SwitchSteps
  <2> QED BY <1>1, <1>2, <2>1 DEF SwitchInv, Kept
<1>4. \A d \in Callers : (Switches(call'[d]) <=> Switches(call[d])) /\ (Switches(call[d]) <=> d = c)
  BY <1>1, <1>2 DEF SwitchInv, SwitchIsOne, Switches, Kept
<1>5. SwitchIsOne' BY <1>1, <1>4 DEF SwitchInv, SwitchIsOne
<1>6. SwitchComesFromSelected' BY <1>1, <1>4 DEF SwitchComesFromSelected, Over
<1> QED BY <1>3, <1>5, <1>6 DEF SwitchInv

\* The finally clause gives the lock back, and is the only one to do so.
LEMMA SwitchReleases ==
  ASSUME SwitchInv, TypeInv', NEW c \in Callers, SwitchRelease(c)
  PROVE  SwitchInv'
<1>1. call[c].at \in {"release", "raise"} /\ switching' = FALSE /\ selected' = selected
  BY DEF SwitchRelease, At
<1>2. call[c].op = "switch" BY <1>1 DEF SwitchInv, Fits, SwitchSteps
<1>3. \A d \in Callers \ {c} : call'[d] = call[d] BY Going, Returning DEF SwitchInv, SwitchRelease
<1>4. Fits(call'[c].op, call'[c].at) /\ ~Switches(call'[c])
  <2>1. CASE Goto(c, "report")
    <3>1. call'[c].at = "report" BY <2>1, Going DEF SwitchInv
    <3> QED BY <3>1 DEF Fits, StartSteps, ResetSteps, PrepareSteps, SwitchSteps, Switches
  <2>2. CASE Return(c)
    <3>1. call'[c] = Free BY <2>2, Returning DEF SwitchInv
    <3>2. Free.at = "free" /\ Free.op = "none" BY FreeTyped DEF Free
    <3> QED BY <3>1, <3>2 DEF Fits, StartSteps, ResetSteps, PrepareSteps, SwitchSteps, Switches
  <2> QED BY <2>1, <2>2 DEF SwitchRelease
<1>5. \A d \in Callers : ~Switches(call'[d])
  BY <1>1, <1>2, <1>3, <1>4 DEF SwitchInv, SwitchIsOne, Switches
<1>6. \A d \in Callers : Fits(call'[d].op, call'[d].at) BY <1>3, <1>4 DEF SwitchInv
<1>7. SwitchIsOne' /\ SwitchComesFromSelected'
  BY <1>1, <1>5 DEF SwitchIsOne, SwitchComesFromSelected
<1> QED BY <1>6, <1>7 DEF SwitchInv

LEMMA SwitchInit == Init => SwitchInv
<1> SUFFICES ASSUME Init PROVE SwitchInv OBVIOUS
<1>1. \A c \in Callers : call[c] = Free BY DEF Init
<1>2. Free.at = "free" /\ Free.op = "none" BY FreeTyped DEF Free
<1>3. Fits("none", "free")
  BY DEF Fits, StartSteps, ResetSteps, PrepareSteps, SwitchSteps
<1>4. \A c \in Callers : ~Switches(call[c]) BY <1>1, <1>2 DEF Switches
<1>5. SwitchIsOne /\ SwitchComesFromSelected
  BY <1>4 DEF Init, SwitchIsOne, SwitchComesFromSelected
<1> QED BY <1>1, <1>2, <1>3, <1>5, TypeInit DEF SwitchInv

LEMMA SwitchStep == SwitchInv /\ [Next]_vars => SwitchInv'
<1> SUFFICES ASSUME SwitchInv, [Next]_vars PROVE SwitchInv' OBVIOUS
<1>0. TypeInv' BY TypeStep DEF SwitchInv
<1>1. CASE UNCHANGED vars
  BY <1>0, <1>1 DEF vars, SwitchInv, SwitchIsOne, SwitchComesFromSelected
<1>2. ASSUME NEW c \in Callers, BeginCall(c) \/ CallStep(c) PROVE SwitchInv'
  <2>1. \/ Within(c) \/ SwitchCommit(c) \/ SwitchRelease(c)
        \/ \E model \in Models : SwitchBegin(c, model)
    BY <1>2, StartWithin, StopWithin, ResetWithin, SwitchWithin DEF BeginCall, CallStep
  <2> QED BY <1>0, <2>1, WithinKeeps, SwitchBegins, SwitchCommits, SwitchReleases
<1>3. CASE Parts
  <2>1. UNCHANGED <<switching, selected, call>> BY <1>3, PartsLeave DEF SwitchInv, own
  <2> QED BY <1>0, <2>1 DEF SwitchInv, SwitchIsOne, SwitchComesFromSelected
<1> QED BY <1>1, <1>2, <1>3 DEF Next, Parts

-----------------------------------------------------------------------------
(* Theorems *)

\* However many calls of ModelController overlap, and whatever its parts do meanwhile,
\* the fields keep their types and the steps of stop() know which call they serve.
THEOREM TypeCorrect == Spec => []TypeOK
<1>1. TypeInv /\ [Next]_vars => TypeInv' BY TypeStep
<1>2. TypeInv => TypeOK BY DEF TypeInv
<1> QED BY <1>1, <1>2, TypeInit, PTL DEF Spec

\* Calls one at a time : each finds and leaves the controller at rest, whichever way
\* start(), stop(), reset() and switch() end and whatever dies meanwhile.
THEOREM CallsInvariant == ASSUME OneCaller PROVE Spec => []CallInv
<1>1. CallInv /\ [Next]_vars => CallInv' BY CallInvStep
<1> QED BY <1>1, CallInit, PTL DEF Spec

\* Calls one at a time : between them the VLA client's way to the robot is open only
\* while RUNNING, and a settle is published only after a Reset of GR00T and owns the port.
THEOREM ControllerCorrect == ASSUME OneCaller PROVE Spec => []ControllerInv
<1>1. CallInv /\ NoCallUnderWay => Rest BY DEF CallInv, PlaceInv, Place, NoCallUnderWay, At, OneCaller
<1>2. CallInv => ControllerInv
  BY <1>1 DEF CallInv, TypeInv, ControllerInv, VlaHeldBack, SettleOwnsPort, Rest
<1> QED BY <1>2, CallsInvariant, PTL

\* Calls one at a time : between them the psi0 session streams only while a psi0 entry
\* is selected and owns the open port, through every switch and its rollback.
THEOREM PsiOwns == ASSUME OneCaller PROVE Spec => []PsiOwnsPort
<1>1. CallInv /\ NoCallUnderWay => Rest BY DEF CallInv, PlaceInv, Place, NoCallUnderWay, At, OneCaller
<1>2. CallInv => PsiOwnsPort BY <1>1 DEF PsiOwnsPort, Rest, PsiActive
<1> QED BY <1>2, CallsInvariant, PTL

\* However many calls overlap : one switch works at a time, the lock is held exactly while
\* it does (each way out of switch() passes its finally clause), and until it commits the
\* selected entry is the one it came from, so that a failure rolls back to that entry.
THEOREM SwitchIsExclusive == Spec => [](SwitchIsOne /\ SwitchComesFromSelected)
<1>1. SwitchInv /\ [Next]_vars => SwitchInv' BY SwitchStep
<1>2. SwitchInv => SwitchIsOne /\ SwitchComesFromSelected BY DEF SwitchInv
<1> QED BY <1>1, <1>2, SwitchInit, PTL DEF Spec
=============================================================================
