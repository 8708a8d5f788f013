------------------------------ MODULE Session ------------------------------
(***************************************************************************)
(* The control session of the psi0 bridge (psi0_bridge/session.py) : the   *)
(* four-state machine IDLE / RUNNING / STOPPED / ERROR, driven by          *)
(* concurrent operator calls and by one loop thread per Start.             *)
(*                                                                         *)
(* app.py's handlers are plain functions, so the web server runs every     *)
(* call in a pool thread of its own (a member of Callers).  A call is      *)
(* start(), stop(), reset() or a checkpoint switch (CheckpointController.  *)
(* switch, seen from the session : stop(), the server swap, then           *)
(* adopt_policy() or mark_error()).  Loop thread g is the thread that the  *)
(* start() which claimed generation g creates.                             *)
(*                                                                         *)
(* One action per access to shared state : a critical section of _lock is  *)
(* one action, and so is every read or write of an Event, of the           *)
(* publisher's flag and of _thread made outside the lock.  The stream runs *)
(* on the wall clock (_stream : one request, its answer, the next request) *)
(* or on the simulation clock (_stream_simulation : two coroutines, one    *)
(* sends at the clock's ticks, one receives ; they alternate at awaits).   *)
(* Left to other modules or left out : the content of observations and     *)
(* actions, the policy's identity (_info), telemetry, and the monitor's    *)
(* poll rate.                                                              *)
(***************************************************************************)
EXTENDS Naturals

CONSTANTS
  Callers,    \* pool threads that carry operator calls
  MaxGen,     \* bound : the last generation number the model hands out
  PromptFail  \* timing : the unlocked end of _fail() is over before a new call begins

ASSUME SessionAssumption == MaxGen \in Nat /\ PromptFail \in BOOLEAN

VARIABLES
  clock,       \* policy_clock.mode, fixed at start-up
  lockFree,    \* FALSE once start() waits for the lock it already holds
  state,       \* _state
  starting,    \* _starting
  generation,  \* _generation
  thread,      \* _thread : the generation of the loop it refers to, 0 for None
  stopEvent,   \* _stop_event
  sendGate,    \* _send_gate
  halted,      \* PosePublisher._halted
  connected,   \* _ws_connected
  shown,       \* whose frame and action status() and the preview report
  call,        \* progress of every caller
  loop,        \* progress of every loop thread
  revoked,     \* history : the generation that was current at the last Stop
  late         \* history : actions loop g sent when it was no longer current

vars == <<clock, lockFree, state, starting, generation, thread, stopEvent, sendGate,
          halted, connected, shown, call, loop, revoked, late>>

Gens == 1 .. MaxGen

\* Where start() and the other calls may be.
StartSteps == {"unstop", "open", "resume", "assign", "spawn"}
StopSteps  == {"halt", "event", "look", "join", "settle"}
CallSteps  == {"idle", "await", "wedged", "ttl", "restore", "lose", "swap", "adopt",
               "reject", "errgate", "errhalt", "errevent"}
              \cup StartSteps \cup StopSteps
Ops == {"none", "start", "stop", "reset", "switch"}

\* Where a loop thread may be; it sends an action by going from "put" to "record".
FailTail  == {"failgate", "failhalt", "failevent"}
Unwinding == {"unwind", "unwound"}
Streaming == {"top", "observe", "frame", "flush", "send", "await", "reply", "gate", "confirm",
              "publish", "put", "record", "note"}
LoopSteps == {"unborn", "fetch", "ready", "connect", "check", "enter", "leave", "close",
              "fail", "done"} \cup Streaming \cup Unwinding \cup FailTail

\* The network waits of a loop that was told to stop : they can outlast the three
\* seconds of stop()'s join (the /info GET and the WebSocket open have ten).  On the
\* simulation clock a send that hangs is cancelled when the receiver sees the stop.
Blocking == {"fetch", "connect", "close", "unwound"}
            \cup (IF clock = "wall" THEN {"send"} ELSE {})

\* Only the wall-clock stream drops the actions buffered before an observation.
AfterObservation == IF clock = "wall" THEN "flush" ELSE "send"

Idle == [at |-> "idle", op |-> "none", of |-> 0]

CallType == [at : CallSteps, op : Ops, of : 0 .. MaxGen]

TypeOK ==
  /\ clock \in {"wall", "simulation"}
  /\ lockFree \in BOOLEAN
  /\ state \in {"IDLE", "RUNNING", "STOPPED", "ERROR"}
  /\ starting \in BOOLEAN
  /\ generation \in Nat
  /\ thread \in 0 .. MaxGen
  /\ stopEvent \in BOOLEAN /\ sendGate \in BOOLEAN /\ halted \in BOOLEAN
  /\ connected \in BOOLEAN
  /\ shown \in [frame : 0 .. MaxGen, action : 0 .. MaxGen]
  /\ call \in [Callers -> CallType]
  /\ loop \in [Gens -> LoopSteps]
  /\ revoked \in Nat
  /\ late \in [Gens -> Nat]

Init ==
  /\ clock \in {"wall", "simulation"}
  /\ lockFree = TRUE
  /\ state = "IDLE" /\ starting = FALSE
  /\ generation = 0 /\ thread = 0
  /\ stopEvent = FALSE /\ sendGate = FALSE /\ halted = TRUE /\ connected = FALSE
  /\ shown = [frame |-> 0, action |-> 0]
  /\ call = [c \in Callers |-> Idle]
  /\ loop = [g \in Gens |-> "unborn"]
  /\ revoked = 0
  /\ late = [g \in Gens |-> 0]

\* Mutant : the test forgets the generation and reads the stop event alone.
IsCurrent_AnyGeneration(g) == g \in Gens /\ ~stopEvent

\* _is_current(g)
IsCurrent(g) == g = generation /\ ~stopEvent

At(c, step)     == call[c].at = step
Goto(c, step)   == call' = [call EXCEPT ![c].at = step]
Return(c)       == call' = [call EXCEPT ![c] = Idle]
LoopGoto(g, step) == loop' = [loop EXCEPT ![g] = step]

\* Generations are handed out by start() and by the end of reset(); the model
\* stops claiming them at MaxGen (the resets then under way still take theirs).
GenerationLeft == generation < MaxGen

\* A call comes over HTTP; the three assignments that end _fail() take microseconds.
MayBegin(c) == At(c, "idle") /\ (PromptFail => \A g \in Gens : loop[g] \notin FailTail)

gates   == <<stopEvent, sendGate, halted>>
session == <<state, starting, generation, connected>>
history == <<revoked, late>>

-----------------------------------------------------------------------------
(* start() *)

\* A Start in STARTING or RUNNING : `return self.status()` inside `with self._lock`.
\* The lock is a threading.Lock, status() takes it again, and nobody ever frees it.
StartReenter(c) ==
  /\ MayBegin(c) /\ lockFree
  /\ starting \/ state = "RUNNING"
  /\ lockFree' = FALSE
  /\ call' = [call EXCEPT ![c] = [at |-> "wedged", op |-> "start", of |-> 0]]
  /\ UNCHANGED <<clock, session, thread, gates, shown, loop, history>>

\* Mutant : start() does not refuse in ERROR.
StartClaim_FromError(c) ==
  /\ MayBegin(c) /\ lockFree /\ GenerationLeft
  /\ ~starting /\ state # "RUNNING"
  /\ starting' = TRUE
  /\ generation' = generation + 1
  /\ call' = [call EXCEPT ![c] = [at |-> "unstop", op |-> "start", of |-> generation + 1]]
  /\ UNCHANGED <<clock, lockFree, state, connected, thread, gates, shown, loop, history>>

\* The first critical section.  In ERROR the call raises and changes nothing.
StartClaim(c) ==
  /\ MayBegin(c) /\ lockFree /\ GenerationLeft
  /\ ~starting /\ state \in {"IDLE", "STOPPED"}
  /\ starting' = TRUE
  /\ generation' = generation + 1
  /\ call' = [call EXCEPT ![c] = [at |-> "unstop", op |-> "start", of |-> generation + 1]]
  /\ UNCHANGED <<clock, lockFree, state, connected, thread, gates, shown, loop, history>>

StartUnstop(c) ==
  /\ At(c, "unstop") /\ Goto(c, "open")
  /\ stopEvent' = FALSE
  /\ UNCHANGED <<clock, lockFree, session, thread, sendGate, halted, shown, loop, history>>

StartOpenGate(c) ==
  /\ At(c, "open") /\ Goto(c, "resume")
  /\ sendGate' = TRUE
  /\ UNCHANGED <<clock, lockFree, session, thread, stopEvent, halted, shown, loop, history>>

StartResume(c) ==
  /\ At(c, "resume") /\ Goto(c, "assign")
  /\ halted' = FALSE
  /\ UNCHANGED <<clock, lockFree, session, thread, stopEvent, sendGate, shown, loop, history>>

StartAssign(c) ==
  /\ At(c, "assign") /\ lockFree /\ Goto(c, "spawn")
  /\ thread' = call[c].of
  /\ UNCHANGED <<clock, lockFree, session, gates, shown, loop, history>>

StartSpawn(c) ==
  /\ At(c, "spawn") /\ Goto(c, "await")
  /\ LoopGoto(call[c].of, "fetch")
  /\ UNCHANGED <<clock, lockFree, session, thread, gates, shown, history>>

\* _ready_event.wait() ends on the event or after eight seconds; then status().
StartReturn(c) ==
  /\ At(c, "await") /\ lockFree /\ Return(c)
  /\ UNCHANGED <<clock, lockFree, session, thread, gates, shown, loop, history>>

-----------------------------------------------------------------------------
(* stop(), which is also the first part of reset() and of a checkpoint switch *)

\* A second switch is refused while one holds _switch_lock.
StopGate(c, op) ==
  /\ MayBegin(c)
  /\ op = "reset" => GenerationLeft
  /\ op = "switch" => \A d \in Callers : call[d].op # "switch"
  /\ call' = [call EXCEPT ![c] = [at |-> "halt", op |-> op, of |-> 0]]
  /\ sendGate' = FALSE
  /\ UNCHANGED <<clock, lockFree, session, thread, stopEvent, halted, shown, loop, history>>

\* Mutant : stop() leaves the publisher as it is.
StopHalt_GateOnly(c) ==
  /\ At(c, "halt") /\ Goto(c, "event")
  /\ UNCHANGED <<clock, lockFree, session, thread, gates, shown, loop, history>>

StopHalt(c) ==
  /\ At(c, "halt") /\ Goto(c, "event")
  /\ halted' = TRUE
  /\ UNCHANGED <<clock, lockFree, session, thread, stopEvent, sendGate, shown, loop, history>>

StopSetEvent(c) ==
  /\ At(c, "event") /\ Goto(c, "look")
  /\ stopEvent' = TRUE
  /\ UNCHANGED <<clock, lockFree, session, thread, sendGate, halted, shown, loop, history>>

StopLook(c) ==
  /\ At(c, "look")
  /\ call' = [call EXCEPT ![c].at = "join", ![c].of = thread]
  /\ UNCHANGED <<clock, lockFree, session, thread, gates, shown, loop, history>>

\* Mutant : stop() does not wait for the loop.
StopJoin_NoWait(c) ==
  /\ At(c, "join") /\ Goto(c, "settle")
  /\ UNCHANGED <<clock, lockFree, session, thread, gates, shown, loop, history>>

\* Mutant : the join has no timeout.
StopJoin_Forever(c) ==
  /\ At(c, "join") /\ Goto(c, "settle")
  /\ \A g \in Gens : g = call[c].of => loop[g] \in {"unborn", "done"}
  /\ UNCHANGED <<clock, lockFree, session, thread, gates, shown, loop, history>>

\* No thread, one not started yet or finished, or a join that times out : on a
\* network wait, or because a concurrent start() has cleared the event again.
StopJoin(c) ==
  /\ At(c, "join") /\ Goto(c, "settle")
  /\ \A g \in Gens : g = call[c].of =>
       loop[g] \in {"unborn", "done"} \cup Blocking \/ IsCurrent(g)
  /\ UNCHANGED <<clock, lockFree, session, thread, gates, shown, loop, history>>

\* The closing critical section, with the status() that follows it.
StopSettle(c) ==
  /\ At(c, "settle") /\ lockFree
  /\ state' = IF state # "ERROR" /\ (starting \/ state = "RUNNING") THEN "STOPPED" ELSE state
  /\ starting' = FALSE /\ thread' = 0 /\ connected' = FALSE
  /\ revoked' = generation
  /\ CASE call[c].op = "reset"  -> Goto(c, "ttl")
       [] call[c].op = "switch" -> Goto(c, "swap")
       [] OTHER                 -> Return(c)
  /\ UNCHANGED <<clock, lockFree, generation, gates, shown, loop, late>>

-----------------------------------------------------------------------------
(* the rest of reset() *)

\* The 0.3 s sleep, then request_reset(), then monitor.invalidate().
ResetRequest(c) ==
  /\ At(c, "ttl")
  /\ Goto(c, "restore") \/ Goto(c, "lose")
  /\ UNCHANGED <<clock, lockFree, session, thread, gates, shown, loop, history>>

\* The closing critical section; "lose" is a refused or unanswered request.
ResetSettle(c) ==
  /\ call[c].at \in {"restore", "lose"} /\ lockFree /\ Return(c)
  /\ generation' = generation + 1
  /\ shown' = [frame |-> 0, action |-> 0]
  /\ state' = IF At(c, "lose") THEN "ERROR" ELSE "IDLE"
  /\ starting' = FALSE
  /\ UNCHANGED <<clock, lockFree, connected, thread, gates, loop, history>>

-----------------------------------------------------------------------------
(* the rest of CheckpointController.switch() : adopt_policy() or mark_error() *)

SwitchServe(c) ==
  /\ At(c, "swap")
  /\ Goto(c, "adopt") \/ Goto(c, "reject")
  /\ UNCHANGED <<clock, lockFree, session, thread, gates, shown, loop, history>>

AdoptPolicy(c) ==
  /\ At(c, "adopt") /\ lockFree /\ Return(c)
  /\ starting' = FALSE
  /\ state' = IF state = "RUNNING" THEN state ELSE "IDLE"
  /\ UNCHANGED <<clock, lockFree, generation, connected, thread, gates, shown, loop, history>>

MarkError(c) ==
  /\ At(c, "reject") /\ lockFree /\ Goto(c, "errgate")
  /\ state' = "ERROR" /\ starting' = FALSE /\ connected' = FALSE
  /\ UNCHANGED <<clock, lockFree, generation, thread, gates, shown, loop, history>>

\* mark_error()'s three assignments after the lock is released, in order.
MarkErrorClose(c) ==
  /\ \/ /\ At(c, "errgate") /\ Goto(c, "errhalt")
        /\ sendGate' = FALSE /\ UNCHANGED <<halted, stopEvent>>
     \/ /\ At(c, "errhalt") /\ Goto(c, "errevent")
        /\ halted' = TRUE /\ UNCHANGED <<sendGate, stopEvent>>
     \/ /\ At(c, "errevent") /\ Return(c)
        /\ stopEvent' = TRUE /\ UNCHANGED <<sendGate, halted>>
  /\ UNCHANGED <<clock, lockFree, session, thread, shown, loop, history>>

-----------------------------------------------------------------------------
(* the loop thread of generation g : _run() *)

\* refresh_info() : the GET, and the critical section that stores the result.
LoopFetch(g) ==
  /\ loop[g] = "fetch"
  /\ \/ lockFree /\ LoopGoto(g, "ready")
     \/ LoopGoto(g, "fail")
  /\ UNCHANGED <<clock, lockFree, session, thread, gates, shown, call, history>>

\* Mutant : _wait_ready() has no deadline.
LoopReady_NoDeadline(g) ==
  /\ loop[g] = "ready" /\ lockFree
  /\ ~IsCurrent(g) /\ LoopGoto(g, "done")
  /\ UNCHANGED <<clock, lockFree, session, thread, gates, shown, call, history>>

\* _wait_ready() : a fresh sample, no longer current, or the ten-second deadline.
LoopReady(g) ==
  /\ loop[g] = "ready" /\ lockFree
  /\ \/ IsCurrent(g) /\ LoopGoto(g, "connect")
     \/ ~IsCurrent(g) /\ LoopGoto(g, "done")
     \/ LoopGoto(g, "fail")
  /\ UNCHANGED <<clock, lockFree, session, thread, gates, shown, call, history>>

LoopConnect(g) ==
  /\ loop[g] = "connect"
  /\ LoopGoto(g, "check") \/ LoopGoto(g, "fail")
  /\ UNCHANGED <<clock, lockFree, session, thread, gates, shown, call, history>>

LoopCheck(g) ==
  /\ loop[g] = "check" /\ lockFree
  /\ LoopGoto(g, IF IsCurrent(g) THEN "enter" ELSE "close")
  /\ UNCHANGED <<clock, lockFree, session, thread, gates, shown, call, history>>

\* The critical section that makes the session RUNNING compares generations only.
LoopEnter(g) ==
  /\ loop[g] = "enter" /\ lockFree
  /\ IF g # generation
     THEN LoopGoto(g, "close") /\ UNCHANGED session
     ELSE /\ LoopGoto(g, "top")
          /\ state' = "RUNNING" /\ connected' = TRUE /\ starting' = FALSE
          /\ UNCHANGED generation
  /\ UNCHANGED <<clock, lockFree, thread, gates, shown, call, history>>

(* _stream() and _stream_simulation() *)

\* The head of the while loop.  Without a fresh observation it sleeps and retries.
LoopObserve(g) ==
  /\ clock = "wall" /\ loop[g] = "top" /\ lockFree /\ IsCurrent(g)
  /\ LoopGoto(g, "observe")
  /\ UNCHANGED <<clock, lockFree, session, thread, gates, shown, call, history>>

\* send_observations(), while the receiver waits : a tick of the simulation clock is due
\* and there is a fresh observation ; otherwise it waits for the next tick.
LoopTick(g) ==
  /\ clock = "simulation" /\ loop[g] = "await" /\ lockFree /\ IsCurrent(g)
  /\ LoopGoto(g, "observe")
  /\ UNCHANGED <<clock, lockFree, session, thread, gates, shown, call, history>>

\* receive_actions() comes round to its while.
LoopReceive(g) ==
  /\ clock = "simulation" /\ loop[g] = "top" /\ lockFree /\ IsCurrent(g)
  /\ LoopGoto(g, "await")
  /\ UNCHANGED <<clock, lockFree, session, thread, gates, shown, call, history>>

\* send_observations() returns from its wait ; the first coroutine that ends takes the
\* other with it.
LoopQuit(g) ==
  /\ clock = "simulation" /\ loop[g] = "await" /\ lockFree /\ ~IsCurrent(g)
  /\ LoopGoto(g, "leave")
  /\ UNCHANGED <<clock, lockFree, session, thread, gates, shown, call, history>>

LoopExit(g) ==
  /\ loop[g] = "top" /\ lockFree /\ ~IsCurrent(g)
  /\ LoopGoto(g, "leave")
  /\ UNCHANGED <<clock, lockFree, session, thread, gates, shown, call, history>>

\* _record_observation() : its check, then its critical section.
LoopKeep(g) ==
  /\ loop[g] = "observe" /\ lockFree
  /\ LoopGoto(g, IF IsCurrent(g) THEN "frame" ELSE AfterObservation)
  /\ UNCHANGED <<clock, lockFree, session, thread, gates, shown, call, history>>

LoopFrame(g) ==
  /\ loop[g] = "frame" /\ lockFree /\ LoopGoto(g, AfterObservation)
  /\ shown' = [shown EXCEPT !.frame = g]
  /\ UNCHANGED <<clock, lockFree, session, thread, gates, call, history>>

\* _flush_stale() and the check after it; a broken connection raises.
LoopFlush(g) ==
  /\ loop[g] = "flush" /\ lockFree
  /\ LoopGoto(g, IF IsCurrent(g) THEN "send" ELSE "leave") \/ LoopGoto(g, "unwind")
  /\ UNCHANGED <<clock, lockFree, session, thread, gates, shown, call, history>>

LoopSend(g) ==
  /\ loop[g] = "send"
  /\ LoopGoto(g, "await") \/ LoopGoto(g, "unwind")
  /\ UNCHANGED <<clock, lockFree, session, thread, gates, shown, call, history>>

\* _wait_action() : a newer reply, a stop request, or a deadline / decode error ; on the
\* simulation clock also what the sender raises, when the clock was reset or stands.
LoopAwait(g) ==
  /\ loop[g] = "await"
  /\ \/ LoopGoto(g, "reply")
     \/ (stopEvent \/ ~sendGate) /\ LoopGoto(g, "leave")
     \/ LoopGoto(g, "unwind")
  /\ UNCHANGED <<clock, lockFree, session, thread, gates, shown, call, history>>

\* The check after the reply, which receive_actions() does not make, and
\* adapter.pack(), which raises on a bad action.
LoopReply(g) ==
  /\ loop[g] = "reply" /\ lockFree
  /\ IF clock = "simulation" \/ IsCurrent(g)
     THEN LoopGoto(g, "gate") \/ LoopGoto(g, "unwind")
     ELSE LoopGoto(g, "leave")
  /\ UNCHANGED <<clock, lockFree, session, thread, gates, shown, call, history>>

LoopGate(g) ==
  /\ loop[g] = "gate"
  /\ LoopGoto(g, IF sendGate THEN "confirm" ELSE "top")
  /\ UNCHANGED <<clock, lockFree, session, thread, gates, shown, call, history>>

LoopConfirm(g) ==
  /\ loop[g] = "confirm" /\ lockFree
  /\ LoopGoto(g, IF IsCurrent(g) THEN "publish" ELSE "top")
  /\ UNCHANGED <<clock, lockFree, session, thread, gates, shown, call, history>>

\* PosePublisher.publish() : the test of _halted ...
LoopPublish(g) ==
  /\ loop[g] = "publish"
  /\ LoopGoto(g, IF halted THEN "top" ELSE "put")
  /\ UNCHANGED <<clock, lockFree, session, thread, gates, shown, call, history>>

\* ... and the send.
LoopPut(g) ==
  /\ loop[g] = "put" /\ LoopGoto(g, "record")
  /\ late' = [late EXCEPT ![g] = IF g = generation THEN @ ELSE @ + 1]
  /\ UNCHANGED <<clock, lockFree, session, thread, gates, shown, call, revoked>>

\* _record_action() : its check, then its critical section.
LoopRecord(g) ==
  /\ loop[g] = "record" /\ lockFree
  /\ LoopGoto(g, IF IsCurrent(g) THEN "note" ELSE "top")
  /\ UNCHANGED <<clock, lockFree, session, thread, gates, shown, call, history>>

LoopNote(g) ==
  /\ loop[g] = "note" /\ lockFree /\ LoopGoto(g, "top")
  /\ shown' = [shown EXCEPT !.action = g]
  /\ UNCHANGED <<clock, lockFree, session, thread, gates, call, history>>

\* The finally clause around _stream(), after a return or an exception.
LoopLeave(g) ==
  /\ lockFree
  /\ \/ loop[g] = "leave"  /\ LoopGoto(g, "close")
     \/ loop[g] = "unwind" /\ LoopGoto(g, "unwound")
  /\ connected' = FALSE
  /\ UNCHANGED <<clock, lockFree, state, starting, generation, thread, gates, shown, call, history>>

\* The connection's __aexit__; an exception then reaches _fail().
LoopClose(g) ==
  /\ \/ loop[g] = "close"   /\ LoopGoto(g, "done")
     \/ loop[g] = "unwound" /\ LoopGoto(g, "fail")
  /\ UNCHANGED <<clock, lockFree, session, thread, gates, shown, call, history>>

\* Mutant : a failed loop closes the gates and forgets to say ERROR.
LoopFail_Unreported(g) ==
  /\ loop[g] = "fail" /\ lockFree
  /\ LoopGoto(g, IF g # generation THEN "done" ELSE "failgate")
  /\ UNCHANGED <<clock, lockFree, session, thread, gates, shown, call, history>>

\* _fail() : a superseded loop reports nothing.
LoopFail(g) ==
  /\ loop[g] = "fail" /\ lockFree
  /\ IF g # generation
     THEN LoopGoto(g, "done") /\ UNCHANGED session
     ELSE /\ LoopGoto(g, "failgate")
          /\ state' = "ERROR" /\ starting' = FALSE /\ connected' = FALSE
          /\ UNCHANGED generation
  /\ UNCHANGED <<clock, lockFree, thread, gates, shown, call, history>>

\* _fail()'s three assignments after the lock is released, in order.
LoopFailClose(g) ==
  /\ \/ /\ loop[g] = "failgate" /\ LoopGoto(g, "failhalt")
        /\ sendGate' = FALSE /\ UNCHANGED <<halted, stopEvent>>
     \/ /\ loop[g] = "failhalt" /\ LoopGoto(g, "failevent")
        /\ halted' = TRUE /\ UNCHANGED <<sendGate, stopEvent>>
     \/ /\ loop[g] = "failevent" /\ LoopGoto(g, "done")
        /\ stopEvent' = TRUE /\ UNCHANGED <<sendGate, halted>>
  /\ UNCHANGED <<clock, lockFree, session, thread, shown, call, history>>

-----------------------------------------------------------------------------

BeginCall(c) == StartReenter(c) \/ StartClaim(c) \/ \E op \in {"stop", "reset", "switch"} : StopGate(c, op)

CallStep(c) ==
  \/ StartUnstop(c) \/ StartOpenGate(c) \/ StartResume(c) \/ StartAssign(c)
  \/ StartSpawn(c) \/ StartReturn(c)
  \/ StopHalt(c) \/ StopSetEvent(c) \/ StopLook(c) \/ StopJoin(c) \/ StopSettle(c)
  \/ ResetRequest(c) \/ ResetSettle(c)
  \/ SwitchServe(c) \/ AdoptPolicy(c) \/ MarkError(c) \/ MarkErrorClose(c)

\* Every loop step but those that need a fresh observation.
LoopStep(g) ==
  \/ LoopFetch(g) \/ LoopReady(g) \/ LoopConnect(g) \/ LoopCheck(g) \/ LoopEnter(g)
  \/ LoopReceive(g) \/ LoopQuit(g) \/ LoopExit(g)
  \/ LoopKeep(g) \/ LoopFrame(g) \/ LoopFlush(g) \/ LoopSend(g) \/ LoopAwait(g)
  \/ LoopReply(g) \/ LoopGate(g) \/ LoopConfirm(g) \/ LoopPublish(g) \/ LoopPut(g)
  \/ LoopRecord(g) \/ LoopNote(g) \/ LoopLeave(g) \/ LoopClose(g)
  \/ LoopFail(g) \/ LoopFailClose(g)

Next ==
  \/ \E c \in Callers : BeginCall(c) \/ CallStep(c)
  \/ \E g \in Gens : LoopObserve(g) \/ LoopTick(g) \/ LoopStep(g)

\* A call under way and a loop keep running : every wait in them has a deadline.
\* Nobody has to make a call, and the camera and the robot may stay silent.
Fairness ==
  /\ \A c \in Callers : WF_vars(CallStep(c))
  /\ \A g \in Gens : WF_vars(LoopStep(g))

Spec == Init /\ [][Next]_vars
FairSpec == Spec /\ Fairness

-----------------------------------------------------------------------------
(* What holds for any number of concurrent callers *)

\* Once a later Start or Reset has taken the generation, the superseded loop can
\* complete the one publish it was in the middle of, and never begins another.
SupersededSendsOnce == \A g \in Gens : late[g] <= 1

\* A superseded loop always comes to an end, whatever it was waiting for; only
\* the lock that start() never gives back can keep it.
SupersededEnds ==
  \A g \in Gens :
    (loop[g] \notin {"unborn", "done"} /\ g # generation) ~> (loop[g] = "done" \/ ~lockFree)

\* Every call returns : stop() does not wait for ever for a loop, and start(),
\* reset() and a switch finish whatever the other callers do, while the lock works.
CallsReturn ==
  \A c \in Callers : call[c].at # "idle" ~> (call[c].at = "idle" \/ ~lockFree)

-----------------------------------------------------------------------------
(* What holds when calls come one at a time (Callers is a singleton) *)

NoCallUnderWay == \A c \in Callers : At(c, "idle")

\* Between calls a session that is neither running nor starting is mute : both
\* gates are shut and no loop is past the tests that come before a send.
SilentUnlessRunning ==
  (NoCallUnderWay /\ state # "RUNNING" /\ ~starting /\ \A g \in Gens : loop[g] \notin FailTail)
    => /\ ~sendGate /\ halted
       /\ \A g \in Gens : loop[g] \notin {"gate", "confirm", "publish", "put"}

\* Between calls RUNNING means that the current loop is alive.
RunningHasLoop ==
  (NoCallUnderWay /\ state = "RUNNING")
    => loop[generation] \in Streaming \cup Unwinding \cup {"fail"}

\* mark_error() and a failed stream leave a session that only a Reset, or a
\* switch that adopts a policy, takes out of ERROR, and to IDLE.
ErrorNeedsReset ==
  [][state = "ERROR" /\ state' # "ERROR" =>
       state' = "IDLE" /\ \E c \in Callers : call[c].at \in {"restore", "adopt"}]_vars

\* A generation that a stop() has settled never puts another action on the wire.
StoppedStaysSilent ==
  [][\A g \in Gens : loop[g] = "put" /\ loop'[g] = "record" => g > revoked]_vars

\* status() and the preview never show anew what a loop of an earlier generation saw.
ReportsCurrentLoop ==
  [][/\ shown'.frame  \in {shown.frame, 0, generation}
     /\ shown'.action \in {shown.action, 0, generation}]_vars

\* A Start resolves : the session does not stay in STARTING.
StartResolves == starting ~> (~starting \/ ~lockFree)

-----------------------------------------------------------------------------
(* What the source says and the code does not keep *)

\* start() : "refuses unless the session is idle/stopped and ready" (a refusal returns).
StartReturns == \A c \in Callers : call[c].op = "start" ~> call[c].op # "start"

\* adopt_policy() : "ERROR clears and the session becomes ready (IDLE) again".
\* The session does not leave IDLE for ERROR without a Start or a call that says so.
AdoptedStaysReady ==
  [][state = "IDLE" /\ state' = "ERROR" => starting \/ ~NoCallUnderWay]_vars
=============================================================================
