-------------------------- MODULE ModelController --------------------------
(***************************************************************************)
(* The controller behind the evaluation UI (psi0_bridge/model_controller.  *)
(* py) with the parts it drives : the action router's switch, the psi0     *)
(* session, the policy server process (policy_server.py), the GR00T        *)
(* process group (groot_backend.py) and the settle command of a Reset.     *)
(*                                                                         *)
(* Every call (start, stop, reset, switch) runs in a pool thread of its    *)
(* own, a member of Callers.  One action per critical section, per call    *)
(* into a part, and per wait; reads that follow each other with nothing    *)
(* between them are one action.  A part is as coarse as its own module     *)
(* allows : a call of the router or of the session is one action here,     *)
(* and what can happen inside it is in ActionRouter and in Session.        *)
(* Left out : close(), the texts of errors, the entries' availability, the *)
(* planner commands of _ensure_sonic_pose() and the keys "k" and "i".      *)
(***************************************************************************)
EXTENDS Naturals

CONSTANTS
  Callers,       \* pool threads that carry the calls
  Checkpoints,   \* ids of the psi0 entries
  Initial,       \* initial_id
  SettleSource   \* what owns the settle : "initial_pose", "warmstart" or "none"

ASSUME ControllerAssumption ==
  /\ Initial \in Checkpoints /\ "groot" \notin Checkpoints /\ "down" \notin Checkpoints
  /\ SettleSource \in {"initial_pose", "warmstart", "none"}

VARIABLES
  mode,       \* _state
  switching,  \* _switching, and _switch_lock
  selected,   \* selected_id
  source,     \* the router's source ...
  gate,       \* ... and its gate
  psi,        \* the psi0 session : state, starting, and locked once its lock is lost
  server,     \* the checkpoint that the policy server process serves, or "down"
  groot,      \* "up", "down", or "server" when only the VLA client is gone
  playing,    \* the VLA client streams actions; its key "p" toggles this
  settling,   \* the settle command is being published
  call,       \* progress of every caller
  overtaken   \* history : callers in a start() during which a stop() has returned

vars == <<mode, switching, selected, source, gate, psi, server, groot, playing,
          settling, call, overtaken>>

Models == Checkpoints \cup {"groot"}
States == {"IDLE", "RUNNING", "STOPPED", "ERROR"}
Port(model) == IF model = "groot" THEN "groot" ELSE "psi"

StartSteps  == {"alive", "hush", "select", "resume", "session", "await", "key", "store"}
StopSteps   == {"settle", "halt", "look", "pause", "backend", "mark"}
ResetSteps  == {"active", "request", "revive", "ready", "fail", "armselect", "armresume", "arm"}
SwitchSteps == {"old", "oldhalt", "oldbackend", "oldserver", "start", "verify", "adopt", "port",
                "commit", "idle", "rollback", "broken", "release", "raise"}
PrepareSteps == {"prepselect", "prepresume", "prepwait"}
Steps == {"free", "stuck", "report"} \cup StartSteps \cup StopSteps \cup ResetSteps
         \cup SwitchSteps \cup PrepareSteps

\* A call : its step, the entry it works on (_active() or the target of a switch), the
\* entry a switch came from, the state that start() got, and a switch's rollback.
Free == [at |-> "free", op |-> "none", on |-> Initial, from |-> Initial,
         got |-> "IDLE", back |-> FALSE]

TypeOK ==
  /\ mode \in States /\ switching \in BOOLEAN /\ selected \in Models
  /\ source \in {"psi", "groot", "initial_pose", "warmstart"} /\ gate \in BOOLEAN
  /\ psi \in [state : States, starting : BOOLEAN, locked : BOOLEAN]
  /\ server \in Checkpoints \cup {"down"} /\ groot \in {"up", "server", "down"}
  /\ playing \in BOOLEAN /\ settling \in BOOLEAN
  /\ call \in [Callers -> [at : Steps, op : {"none", "start", "stop", "reset", "switch"},
                           on : Models, from : Models, got : States, back : BOOLEAN]]
  /\ overtaken \subseteq Callers

\* The launcher has started and verified the initial entry's server.
Init ==
  /\ mode = "IDLE" /\ switching = FALSE /\ selected = Initial
  /\ source = "psi" /\ gate = FALSE
  /\ psi = [state |-> "IDLE", starting |-> FALSE, locked |-> FALSE]
  /\ server = Initial /\ groot = "down" /\ playing = FALSE /\ settling = FALSE
  /\ call = [c \in Callers |-> Free]
  /\ overtaken = {}

port     == <<source, gate>>
backends == <<server, groot, playing>>
own      == <<mode, switching, selected>>

At(c, step)   == call[c].at = step
Goto(c, step) == call' = [call EXCEPT ![c].at = step]
Return(c)     == call' = [call EXCEPT ![c] = Free]

\* The calls into the router (see ActionRouter), and an assignment to _state.
RouterSelect(s) == source' = s /\ gate' = FALSE /\ UNCHANGED <<own, psi, backends, settling, overtaken>>
RouterResume == gate' = TRUE /\ UNCHANGED <<own, source, psi, backends, settling, overtaken>>
RouterHalt == gate' = FALSE /\ UNCHANGED <<own, source, psi, backends, settling, overtaken>>
SetMode(state) == mode' = state /\ UNCHANGED <<switching, selected, port, psi, backends, settling, overtaken>>
OnlyCall == UNCHANGED <<own, port, psi, backends, settling, overtaken>>

-----------------------------------------------------------------------------
(* start() *)

\* The checks; a start() that they refuse raises and changes nothing.
StartCheck(c) ==
  /\ At(c, "free") /\ ~switching /\ mode # "ERROR"
  /\ call' = [call EXCEPT ![c] = [Free EXCEPT !.op = "start", !.on = selected,
                !.at = IF selected = "groot" THEN "alive" ELSE "select"]]
  /\ OnlyCall

StartAlive(c) ==
  /\ At(c, "alive")
  /\ IF groot = "up" THEN Goto(c, "hush") /\ UNCHANGED overtaken
                     ELSE Return(c) /\ overtaken' = overtaken \ {c}
  /\ UNCHANGED <<own, port, psi, backends, settling>>

StartHush(c) ==
  /\ At(c, "hush") /\ Goto(c, "select")
  /\ settling' = FALSE
  /\ UNCHANGED <<own, port, psi, backends, overtaken>>

StartSelect(c) ==
  At(c, "select") /\ Goto(c, "resume") /\ RouterSelect(Port(call[c].on))

\* For psi this comes after up to eight seconds of _ensure_sonic_pose().
StartResume(c) ==
  /\ At(c, "resume") /\ Goto(c, IF call[c].on = "groot" THEN "key" ELSE "session")
  /\ RouterResume

\* psi_session.start() : it raises in ERROR, and it loses its lock when the session
\* is running or starting already (Session's StartReenter).
StartSession(c) ==
  /\ At(c, "session") /\ ~psi.locked
  /\ \/ /\ psi.state = "ERROR" /\ ~psi.starting
        /\ Return(c) /\ overtaken' = overtaken \ {c} /\ UNCHANGED psi
     \/ /\ psi.starting \/ psi.state = "RUNNING"
        /\ Goto(c, "stuck") /\ psi' = [psi EXCEPT !.locked = TRUE] /\ UNCHANGED overtaken
     \/ /\ ~psi.starting /\ psi.state \in {"IDLE", "STOPPED"}
        /\ Goto(c, "await") /\ psi' = [psi EXCEPT !.starting = TRUE] /\ UNCHANGED overtaken
  /\ UNCHANGED <<own, port, backends, settling>>

\* The session is ready, or eight seconds are over; its state at that moment.
StartAwait(c) ==
  /\ At(c, "await") /\ ~psi.locked
  /\ call' = [call EXCEPT ![c].at = "store", ![c].got = psi.state]
  /\ OnlyCall

StartKey(c) ==
  /\ At(c, "key")
  /\ call' = [call EXCEPT ![c].at = "store", ![c].got = "RUNNING"]
  /\ playing' = (groot = "up" /\ ~playing)
  /\ UNCHANGED <<own, port, psi, server, groot, settling, overtaken>>

StartStore(c) == At(c, "store") /\ Goto(c, "report") /\ SetMode(call[c].got)

\* status(), which ends every call, asks the psi0 session when psi is selected.
Report(c) ==
  /\ At(c, "report") /\ (selected = "groot" \/ ~psi.locked)
  /\ Return(c)
  /\ overtaken' = IF call[c].op = "stop"
                  THEN {d \in Callers : call[d].op = "start"} \cup overtaken
                  ELSE overtaken \ {c}
  /\ UNCHANGED <<own, port, psi, backends, settling>>

-----------------------------------------------------------------------------
(* stop(), which is also the first part of reset() and of switch() *)

StopBegin(c) ==
  /\ At(c, "free")
  /\ \E op \in {"stop", "reset"} : call' = [call EXCEPT ![c] = [Free EXCEPT !.at = "settle", !.op = op]]
  /\ OnlyCall

StopSettle(c) ==
  /\ At(c, "settle") /\ Goto(c, "halt")
  /\ settling' = FALSE
  /\ UNCHANGED <<own, port, psi, backends, overtaken>>

StopHalt(c) == At(c, "halt") /\ Goto(c, "look") /\ RouterHalt

StopLook(c) ==
  /\ At(c, "look")
  /\ Goto(c, IF selected # "groot" THEN "backend"
             ELSE IF mode = "RUNNING" /\ groot = "up" THEN "pause" ELSE "mark")
  /\ OnlyCall

StopPause(c) ==
  /\ At(c, "pause") /\ Goto(c, "mark")
  /\ playing' = (groot = "up" /\ ~playing)
  /\ UNCHANGED <<own, port, psi, server, groot, settling, overtaken>>

\* psi_session.stop().
PsiStopped == [psi EXCEPT !.starting = FALSE,
                 !.state = IF @ # "ERROR" /\ (psi.starting \/ @ = "RUNNING") THEN "STOPPED" ELSE @]

\* Mutant : stop() overlooks a session that is still starting.
StopBackend_RunningOnly(c) ==
  /\ At(c, "backend") /\ ~psi.locked /\ Goto(c, "mark")
  /\ psi' = IF psi.state = "RUNNING" THEN [psi EXCEPT !.state = "STOPPED"] ELSE psi
  /\ UNCHANGED <<own, port, backends, settling, overtaken>>

StopBackend(c) ==
  /\ At(c, "backend") /\ ~psi.locked /\ Goto(c, "mark")
  /\ psi' = PsiStopped
  /\ UNCHANGED <<own, port, backends, settling, overtaken>>

AfterStop(c) == CASE call[c].op = "reset"  -> "active"
                  [] call[c].op = "switch" -> "old"
                  [] call[c].op = "stop"   -> "report"

\* The closing critical section.  (The status() that follows is ignored by reset()
\* and switch(); it waits for the session's lock like any other.)
StopMark(c) ==
  /\ At(c, "mark")
  /\ Goto(c, AfterStop(c))
  /\ SetMode(IF mode = "ERROR" THEN mode ELSE "STOPPED")

-----------------------------------------------------------------------------
(* the rest of reset() *)

\* groot.stop() raises : a process has outlived its KILL.  The client is ended first;
\* a server that is not reached, or not ended, is left behind.
GrootOutlives ==
  /\ groot # "down" /\ groot' \in {groot, "server"}
  /\ playing' = FALSE

\* groot.stop() ends both processes, or its exception ends the call.
ResetActive(c) ==
  /\ At(c, "active") /\ (selected = "groot" \/ ~psi.locked)
  /\ \/ /\ call' = [call EXCEPT ![c].at = "request", ![c].on = selected]
        /\ IF selected = "groot" THEN groot' = "down" /\ playing' = FALSE
                                 ELSE UNCHANGED <<groot, playing>>
     \/ selected = "groot" /\ GrootOutlives /\ Return(c)
  /\ UNCHANGED <<own, port, psi, server, settling, overtaken>>

\* The 0.3 s sleep and the request; a refused or unanswered one is an error.
ResetRequest(c) ==
  /\ At(c, "request")
  /\ Goto(c, "fail") \/ Goto(c, IF call[c].on = "groot" THEN "revive" ELSE "ready")
  /\ OnlyCall

\* The outcome of groot.start() : both processes run, or neither, or (the client
\* could not be spawned) the server alone.
GrootStarts(c, done, failed) ==
  IF groot = "up"
  THEN Goto(c, done) /\ UNCHANGED <<groot, playing>>
  ELSE /\ playing' = FALSE
       /\ \/ groot' = "up" /\ Goto(c, done)
          \/ groot' \in {"server", "down"} /\ Goto(c, failed)

ResetRevive(c) ==
  /\ At(c, "revive") /\ GrootStarts(c, "prepselect", "fail")
  /\ UNCHANGED <<own, port, psi, server, settling, overtaken>>

ResetFail(c) == At(c, "fail") /\ Goto(c, "report") /\ SetMode("ERROR")

\* The closing critical section, and _arm_settle()'s test of the entry.
ResetReady(c) ==
  /\ At(c, "ready")
  /\ Goto(c, IF call[c].on = "groot" /\ SettleSource # "none" THEN "armselect" ELSE "report")
  /\ SetMode("IDLE")

ArmSelect(c) == At(c, "armselect") /\ Goto(c, "armresume") /\ RouterSelect(SettleSource)
ArmResume(c) == At(c, "armresume") /\ Goto(c, "arm") /\ RouterResume

Arm(c) ==
  /\ At(c, "arm") /\ Goto(c, "report")
  /\ settling' = TRUE
  /\ UNCHANGED <<own, port, psi, backends, overtaken>>

-----------------------------------------------------------------------------
(* the rest of switch() *)

\* A second switch is refused; one to the selected entry returns its status.
SwitchBegin(c, model) ==
  /\ At(c, "free") /\ ~switching
  /\ switching' = TRUE
  /\ call' = [call EXCEPT ![c] = [Free EXCEPT !.op = "switch", !.on = model, !.from = selected,
                !.at = IF model = selected THEN "release" ELSE "settle"]]
  /\ UNCHANGED <<mode, selected, port, psi, backends, settling, overtaken>>

\* _stop_backend(previous), which begins by repeating what stop() has just done.
SwitchHush(c) ==
  /\ At(c, "old") /\ (selected = "groot" \/ ~psi.locked) /\ Goto(c, "oldhalt")
  /\ settling' = FALSE
  /\ UNCHANGED <<own, port, psi, backends, overtaken>>

SwitchHalt(c) == At(c, "oldhalt") /\ Goto(c, "oldbackend") /\ RouterHalt

\* What raises here is outside switch()'s inner try : there is no rollback.
SwitchStopBackend(c) ==
  /\ At(c, "oldbackend")
  /\ \/ /\ call[c].from = "groot" /\ Goto(c, "start")
        /\ groot' = "down" /\ playing' = FALSE /\ UNCHANGED psi
     \/ /\ call[c].from = "groot" /\ Goto(c, "raise")
        /\ GrootOutlives /\ UNCHANGED psi
     \/ /\ call[c].from # "groot" /\ ~psi.locked /\ Goto(c, "oldserver")
        /\ psi' = PsiStopped /\ UNCHANGED <<groot, playing>>
  /\ UNCHANGED <<own, port, server, settling, overtaken>>

\* psi_server.stop() forgets its child before it ends it, and raises when the child
\* outlives its KILL; a killed child serves nobody.
SwitchStopServer(c) ==
  /\ At(c, "oldserver")
  /\ Goto(c, "start") \/ (server # "down" /\ Goto(c, "raise"))
  /\ server' = "down"
  /\ UNCHANGED <<own, port, psi, groot, playing, settling, overtaken>>

\* What comes after _start_backend() has returned, and after it has raised.
Started(c) == IF call[c].back THEN "broken" ELSE "commit"
Failed(c)  == IF call[c].back THEN "broken" ELSE "rollback"

\* psi_server.start() : it raises if its child runs.
ServerStart(c) ==
  /\ At(c, "start") /\ call[c].on # "groot"
  /\ \/ server = "down" /\ server' = call[c].on /\ Goto(c, "verify")
     \/ Goto(c, Failed(c)) /\ UNCHANGED server
  /\ UNCHANGED <<own, port, psi, groot, playing, settling, overtaken>>

\* verify_psi() : the served identity, or its timeout.
ServerVerify(c) ==
  /\ At(c, "verify")
  /\ \/ server = call[c].on /\ Goto(c, "adopt")
     \/ Goto(c, Failed(c))
  /\ OnlyCall

AdoptPolicy(c) ==
  /\ At(c, "adopt") /\ ~psi.locked /\ Goto(c, "port")
  /\ psi' = [psi EXCEPT !.starting = FALSE, !.state = IF @ = "RUNNING" THEN @ ELSE "IDLE"]
  /\ UNCHANGED <<own, port, backends, settling, overtaken>>

ServerPort(c) == At(c, "port") /\ Goto(c, Started(c)) /\ RouterSelect("psi")

GrootStart(c) ==
  /\ At(c, "start") /\ call[c].on = "groot" /\ GrootStarts(c, "prepselect", Failed(c))
  /\ UNCHANGED <<own, port, psi, server, settling, overtaken>>

SwitchCommit(c) ==
  /\ At(c, "commit") /\ Goto(c, "idle")
  /\ selected' = call[c].on
  /\ UNCHANGED <<mode, switching, port, psi, backends, settling, overtaken>>

SwitchIdle(c) == At(c, "idle") /\ Goto(c, "release") /\ SetMode("IDLE")

\* _rollback() : _start_backend(previous).  It leaves the failed target as it is.
SwitchRollback(c) ==
  /\ At(c, "rollback")
  /\ call' = [call EXCEPT ![c].at = "start", ![c].on = call[c].from, ![c].back = TRUE]
  /\ OnlyCall

\* selected_id is already the entry that a rollback goes back to.
SwitchBroken(c) == At(c, "broken") /\ Goto(c, "raise") /\ SetMode("ERROR")

\* The finally clause, before the final status() or with the exception.
SwitchRelease(c) ==
  /\ \/ At(c, "release") /\ Goto(c, "report")
     \/ At(c, "raise") /\ Return(c)
  /\ switching' = FALSE
  /\ UNCHANGED <<mode, selected, port, psi, backends, settling, overtaken>>

-----------------------------------------------------------------------------
(* _prepare_groot(), for reset() and for switch() *)

\* In a switch the router has selected groot once before, with the same effect.
PrepareSelect(c) == At(c, "prepselect") /\ Goto(c, "prepresume") /\ RouterSelect("groot")
PrepareResume(c) == At(c, "prepresume") /\ Goto(c, "prepwait") /\ RouterResume

\* Mutant : the router stays open when SONIC does not answer.
PrepareWait_LeftOpen(c) ==
  /\ At(c, "prepwait")
  /\ \/ gate' = FALSE /\ Goto(c, IF call[c].op = "reset" THEN "ready" ELSE Started(c))
     \/ UNCHANGED gate /\ Goto(c, IF call[c].op = "reset" THEN "fail" ELSE Failed(c))
  /\ UNCHANGED <<own, source, psi, backends, settling, overtaken>>

\* SONIC publishes its state, or it does not; the router is halted in both cases.
PrepareWait(c) ==
  /\ At(c, "prepwait")
  /\ \/ Goto(c, IF call[c].op = "reset" THEN "ready" ELSE Started(c))
     \/ Goto(c, IF call[c].op = "reset" THEN "fail" ELSE Failed(c))
  /\ RouterHalt

-----------------------------------------------------------------------------
(* what the parts do by themselves *)

\* The session's loop gets its connection.
PsiRuns ==
  /\ psi.starting /\ ~psi.locked /\ server # "down"
  /\ psi' = [psi EXCEPT !.starting = FALSE, !.state = "RUNNING"]
  /\ UNCHANGED <<own, port, backends, settling, call, overtaken>>

\* The session's loop fails; the controller is not told.
PsiFails ==
  /\ psi.starting \/ psi.state = "RUNNING"
  /\ ~psi.locked
  /\ psi' = [psi EXCEPT !.starting = FALSE, !.state = "ERROR"]
  /\ UNCHANGED <<own, port, backends, settling, call, overtaken>>

ServerDies ==
  /\ server # "down" /\ server' = "down"
  /\ UNCHANGED <<own, port, psi, groot, playing, settling, call, overtaken>>

\* The VLA client ends, or the GR00T server; the server alone is not alive for the UI.
GrootDies ==
  /\ groot # "down" /\ groot' \in {"server", "down"} \ {groot}
  /\ playing' = FALSE
  /\ UNCHANGED <<own, port, psi, server, settling, call, overtaken>>

-----------------------------------------------------------------------------

BeginCall(c) == StartCheck(c) \/ StopBegin(c) \/ \E model \in Models : SwitchBegin(c, model)

CallStep(c) ==
  \/ StartAlive(c) \/ StartHush(c) \/ StartSelect(c) \/ StartResume(c) \/ StartSession(c)
  \/ StartAwait(c) \/ StartKey(c) \/ StartStore(c) \/ Report(c)
  \/ StopSettle(c) \/ StopHalt(c) \/ StopLook(c) \/ StopPause(c) \/ StopBackend(c) \/ StopMark(c)
  \/ ResetActive(c) \/ ResetRequest(c) \/ ResetRevive(c) \/ ResetFail(c) \/ ResetReady(c)
  \/ ArmSelect(c) \/ ArmResume(c) \/ Arm(c)
  \/ SwitchHush(c) \/ SwitchHalt(c) \/ SwitchStopBackend(c) \/ SwitchStopServer(c)
  \/ ServerStart(c) \/ ServerVerify(c) \/ AdoptPolicy(c) \/ ServerPort(c)
  \/ GrootStart(c) \/ SwitchCommit(c) \/ SwitchIdle(c) \/ SwitchRollback(c) \/ SwitchBroken(c)
  \/ SwitchRelease(c) \/ PrepareSelect(c) \/ PrepareResume(c) \/ PrepareWait(c)

Next ==
  \/ \E c \in Callers : BeginCall(c) \/ CallStep(c)
  \/ PsiRuns \/ PsiFails \/ ServerDies \/ GrootDies

Spec == Init /\ [][Next]_vars

-----------------------------------------------------------------------------
(* What holds when calls come one at a time (Callers is a singleton) *)

NoCallUnderWay == \A c \in Callers : At(c, "free")

\* Between calls the VLA client's way to the robot is open only while the controller
\* says RUNNING; what kept it open for a preparation or a settle is undone.
VlaHeldBack ==
  (NoCallUnderWay /\ gate /\ source = "groot") => mode = "RUNNING" /\ selected = "groot"

\* Between calls a settle command is published only in the window after a Reset of
\* GR00T, and then it owns the port.
SettleOwnsPort ==
  (NoCallUnderWay /\ settling)
    => mode = "IDLE" /\ selected = "groot" /\ source = SettleSource /\ gate

\* The types, and who else than the psi0 session may own the port.
ControllerInv == TypeOK /\ VlaHeldBack /\ SettleOwnsPort

\* The psi0 session streams only while a psi0 entry is selected and owns the port.
PsiOwnsPort ==
  (NoCallUnderWay /\ (psi.starting \/ psi.state = "RUNNING"))
    => selected # "groot" /\ source = "psi" /\ gate

-----------------------------------------------------------------------------
(* What the source says and the code does not keep *)

\* README : after a failed switch "the previous backend restarts".  A policy server
\* that is up between calls serves the selected checkpoint.
ServesSelected == NoCallUnderWay => server \in {"down", selected}

\* start() : "session is in ERROR; Reset before Start".  After a Reset that ends in
\* IDLE the session accepts a Start.
ResetClearsError ==
  [][\A c \in Callers : At(c, "ready") /\ ~At(c, "ready")' => psi.state # "ERROR"]_vars

\* session.py : "Stop clears the send gate immediately [...] so no further action is
\* published".  Once a Stop has returned only a call that begins later opens the port.
StopHolds ==
  [][~gate /\ gate' => \A c \in overtaken : call'[c] = call[c]]_vars
=============================================================================
