----------------------------- MODULE WarmStart -----------------------------
(***************************************************************************)
(* The streams that own the settle after a Reset : WarmStartStream of      *)
(* psi0_bridge/warmstart.py, which the initial-pose handshake uses too.    *)
(* The controller's handlers arm and halt it from their own threads ; each *)
(* arming makes a thread that publishes one token per period, paced by the *)
(* wall or by the simulation clock in a file Isaac rewrites.               *)
(*                                                                         *)
(* Threads and stop events are numbered : arming n makes event n and       *)
(* thread n, but a thread always looks at the event the stream holds now.  *)
(* Time is the clock's : its file holds a second, an epoch (history : how  *)
(* often the simulation was reset) and a revision.  Left out : the tokens, *)
(* the hold of the last one, the router behind publish, events and logs.   *)
(***************************************************************************)
EXTENDS Integers

CONSTANTS
  Callers,  \* threads that serve the operator's requests
  Modes,    \* "wall", "simulation" : the clocks a session may be given
  Delay,    \* seconds after the start before the first token
  Small,    \* a baseline up to this second is taken for a fresh clock (0.1 s)
  MaxArms, MaxSim, MaxIndex  \* bounds : armings, seconds of an epoch, tokens

ASSUME WarmAssumption ==
  /\ Modes \subseteq {"wall", "simulation"} /\ Modes # {}
  /\ {Delay, Small, MaxArms, MaxSim, MaxIndex} \subseteq Nat

Threads == 1 .. MaxArms

VARIABLES
  mode,      \* with or without a simulation clock, fixed at start-up
  stopped,   \* per event, TRUE once set ; event 0 is the constructor's
  event,     \* _stop : the event the stream holds
  thread,    \* _thread : the thread of the last arming, 0 for None
  baseline,  \* _clock_baseline
  worker,    \* per thread, where it is and what it remembers
  loaded,    \* the packer's module is imported
  file,      \* the clock file
  sim,       \* the simulation's second
  caller,    \* per caller, where its call is
  outlived   \* history : a join has timed out

vars == <<mode, stopped, event, thread, baseline, worker, loaded, file, sim, caller,
          outlived>>

NoSample == [at |-> -1, epoch |-> -1, rev |-> -1]
Idle     == [pc |-> "idle", goal |-> "halt", target |-> 0, sample |-> NoSample]
Unborn   == [pc |-> "unborn", index |-> 0, base |-> NoSample, origin |-> NoSample, last |-> 0]

Init ==
  /\ mode \in Modes
  /\ stopped = [e \in 0 .. MaxArms |-> FALSE] /\ event = 0 /\ thread = 0
  /\ baseline = NoSample /\ worker = [n \in Threads |-> Unborn] /\ loaded = FALSE
  /\ file = [at |-> 0, epoch |-> 0, rev |-> 0] /\ sim = 0
  /\ caller = [c \in Callers |-> Idle]
  /\ outlived = FALSE

Live(n) == worker[n].pc \notin {"unborn", "done"}

-----------------------------------------------------------------------------
(* Isaac's clock. *)

\* The file is rewritten as the simulation goes on.
ClockWrite ==
  /\ mode = "simulation"
  /\ sim < MaxSim /\ sim' = sim + 1
  /\ file' = [at |-> sim + 1, rev |-> file.rev + 1,
              epoch |-> IF sim = 0 THEN file.epoch + 1 ELSE file.epoch]
  /\ UNCHANGED <<mode, stopped, event, thread, baseline, worker, loaded, caller,
                 outlived>>

\* FileSimulationClock.read : a file being replaced, or none, reads as None.
Reads == {file, NoSample}

-----------------------------------------------------------------------------
(* halt() and arm(), one step per look at the shared fields. *)

Step(c, r, was) == caller[c].pc = was /\ caller' = [caller EXCEPT ![c] = r]

\* Stop and Start halt.
CallHalt(c) ==
  /\ Step(c, [Idle EXCEPT !.pc = "look"], "idle")
  /\ UNCHANGED <<mode, stopped, event, thread, baseline, worker, loaded, file, sim, outlived>>

\* Reset takes a clock sample, halts, resets the simulation and arms.
CallReset(c) ==
  /\ event < MaxArms
  /\ \E s \in (IF mode = "wall" THEN {NoSample} ELSE Reads) :
       Step(c, [Idle EXCEPT !.pc = "look", !.goal = "reset", !.sample = s], "idle")
  /\ UNCHANGED <<mode, stopped, event, thread, baseline, worker, loaded, file, sim, outlived>>

\* What follows a halt : nothing, the reset, or the rest of arm().
After(r) == CASE r.goal = "halt"  -> Idle
              [] r.goal = "reset" -> [r EXCEPT !.pc = "reset"]
              [] r.goal = "arm"   -> [r EXCEPT !.pc = "event"]

\* Mutant : arm() does not halt what runs.
LookAtThread_ArmKeeps(c) ==
  /\ Step(c, IF thread = 0 \/ caller[c].goal # "halt" THEN After(caller[c])
             ELSE [caller[c] EXCEPT !.pc = "set", !.target = thread], "look")
  /\ UNCHANGED <<mode, stopped, event, thread, baseline, worker, loaded, file, sim,
                 outlived>>

\* halt() returns at once when there is no thread.
LookAtThread(c) ==
  /\ Step(c, IF thread = 0 THEN After(caller[c])
             ELSE [caller[c] EXCEPT !.pc = "set", !.target = thread], "look")
  /\ UNCHANGED <<mode, stopped, event, thread, baseline, worker, loaded, file, sim,
                 outlived>>

SetStop(c) ==
  /\ Step(c, [caller[c] EXCEPT !.pc = "join"], "set")
  /\ stopped' = [stopped EXCEPT ![event] = TRUE]
  /\ UNCHANGED <<mode, event, thread, baseline, worker, loaded, file, sim, outlived>>

\* The join ends with the thread, or after two seconds ; only the import that packs
\* the first token takes longer.
Join(c) ==
  LET n == caller[c].target IN
  /\ Step(c, [caller[c] EXCEPT !.pc = "clear"], "join")
  /\ ~Live(n) \/ (worker[n].pc = "pack" /\ ~loaded)
  /\ outlived' = (outlived \/ Live(n))
  /\ UNCHANGED <<mode, stopped, event, thread, baseline, worker, loaded, file, sim>>

ClearThread(c) ==
  /\ Step(c, After(caller[c]), "clear")
  /\ thread' = 0
  /\ UNCHANGED <<mode, stopped, event, baseline, worker, loaded, file, sim, outlived>>

\* request_reset_applied has returned : the simulation began anew, the clock file is
\* what it was.
ResetApplied(c) ==
  /\ Step(c, [caller[c] EXCEPT !.pc = "look", !.goal = "arm"], "reset")
  /\ sim' = 0
  /\ UNCHANGED <<mode, stopped, event, thread, baseline, worker, loaded, file, outlived>>

\* arm() : a new event and the baseline, then the thread.
NewEvent(c) ==
  /\ Step(c, [caller[c] EXCEPT !.pc = "spawn"], "event")
  /\ event < MaxArms /\ event' = event + 1
  /\ baseline' = caller[c].sample
  /\ UNCHANGED <<mode, stopped, thread, worker, loaded, file, sim, outlived>>

\* The next thread takes the number after those that were started.
Spawn(c) ==
  /\ Step(c, Idle, "spawn")
  /\ \E n \in Threads :
       /\ \A k \in Threads : worker[k].pc = "unborn" <=> k >= n
       /\ thread' = n
       /\ worker' = [worker EXCEPT ![n].pc = IF mode = "wall" THEN "delay" ELSE "base"]
  /\ UNCHANGED <<mode, stopped, event, baseline, loaded, file, sim, outlived>>

Call(c) == LookAtThread(c) \/ SetStop(c) \/ Join(c) \/ ClearThread(c) \/ ResetApplied(c)
             \/ NewEvent(c) \/ Spawn(c)
-----------------------------------------------------------------------------
(* The publishing thread n ; Halted is what it sees of the stop event. *)

Halted == stopped[event]

Work(n, r) ==
  /\ worker' = [worker EXCEPT ![n] = r]
  /\ UNCHANGED <<mode, stopped, event, thread, baseline, file, sim, caller, outlived>>

\* _serve_wall : the wait for the delay ends, or the stop ends it.
EndDelay(n) ==
  /\ worker[n].pc = "delay"
  /\ Work(n, [worker[n] EXCEPT !.pc = IF Halted THEN "done" ELSE "turn"])
  /\ UNCHANGED loaded

\* _serve_simulation_clock begins with the baseline, read now if there was none.
TakeBaseline(n) ==
  /\ worker[n].pc = "base"
  /\ \E s \in (IF baseline = NoSample THEN Reads ELSE {baseline}) :
       Work(n, [worker[n] EXCEPT !.pc = "fresh", !.base = s])
  /\ UNCHANGED loaded

\* Mutant : any new revision of the file starts the stream.
FreshSample_AnyRevision(n) ==
  LET w == worker[n] IN
  /\ w.pc = "fresh" /\ ~Halted
  /\ file.rev # w.base.rev
  /\ Work(n, [w EXCEPT !.pc = "turn", !.origin = file, !.last = file.at])
  /\ UNCHANGED loaded

\* A revised sample starts the stream if the clock began anew since the baseline.
FreshSample(n) ==
  LET w == worker[n] IN
  /\ w.pc = "fresh" /\ ~Halted
  /\ file.rev # w.base.rev
  /\ w.base.at <= Small \/ file.at < w.base.at
  /\ Work(n, [w EXCEPT !.pc = "turn", !.origin = file, !.last = file.at])
  /\ UNCHANGED loaded

\* The stop, or no fresh sample in time.
GiveUp(n) ==
  /\ worker[n].pc = "fresh"
  /\ Work(n, [worker[n] EXCEPT !.pc = "done"])
  /\ UNCHANGED loaded

\* Seconds of the stream that are due : all of them by the wall clock.
Due(w, s) == mode = "wall" \/ w.index <= s.at - w.origin.at - Delay

\* Mutant : the loop looks at the stop only when it waits for the clock.
Turn_NoStop(n) ==
  LET w == worker[n] IN
  /\ w.pc = "turn" /\ UNCHANGED loaded
  /\ \/ Due(w, file) /\ file.at >= w.last
        /\ Work(n, [w EXCEPT !.pc = "pack", !.last = file.at])
     \/ Halted /\ mode = "simulation" /\ Work(n, [w EXCEPT !.pc = "done"])
     \/ mode = "simulation" /\ file.at < w.last /\ Work(n, [w EXCEPT !.pc = "done"])

\* A turn of either loop : stop, a clock that went backwards, or the next token due.
Turn(n) ==
  LET w == worker[n] IN
  /\ w.pc = "turn" /\ UNCHANGED loaded
  /\ \/ Halted /\ Work(n, [w EXCEPT !.pc = "done"])
     \/ ~Halted /\ mode = "simulation" /\ file.at < w.last
        /\ Work(n, [w EXCEPT !.pc = "done"])
     \/ ~Halted /\ (mode = "simulation" => file.at >= w.last) /\ Due(w, file)
        /\ Work(n, [w EXCEPT !.pc = "pack", !.last = file.at])

\* _clock_error : the clock stands still, or cannot be read, for the timeout.
ClockStops(n) ==
  /\ worker[n].pc = "turn" /\ mode = "simulation"
  /\ Work(n, [worker[n] EXCEPT !.pc = "done"])
  /\ UNCHANGED loaded

\* _publish_index : packing the first token imports the packer's module.
Publish(n) ==
  /\ worker[n].pc = "pack"
  /\ loaded' = TRUE
  /\ Work(n, [worker[n] EXCEPT !.pc = "turn",
                               !.index = IF @ < MaxIndex THEN @ + 1 ELSE @])

\* The import fails : the exception ends the thread.
ImportFails(n) ==
  /\ worker[n].pc = "pack" /\ ~loaded /\ UNCHANGED loaded
  /\ Work(n, [worker[n] EXCEPT !.pc = "done"])

Serve(n) == EndDelay(n) \/ TakeBaseline(n) \/ FreshSample(n) \/ GiveUp(n) \/ Turn(n)
              \/ ClockStops(n) \/ Publish(n) \/ ImportFails(n)

Next ==
  \/ ClockWrite
  \/ \E c \in Callers : CallHalt(c) \/ CallReset(c) \/ Call(c)
  \/ \E n \in Threads : Serve(n)

Spec == Init /\ [][Next]_vars

\* Calls go on, and threads do what they can ; people need not press anything.
FairSpec ==
  /\ Spec
  /\ \A c \in Callers : WF_vars(Call(c))
  /\ \A n \in Threads : WF_vars(Serve(n))
-----------------------------------------------------------------------------
(* Properties. *)

Streaming == {n \in Threads : worker[n].pc \in {"turn", "pack"}}

TypeOK ==
  /\ mode \in Modes /\ event \in 0 .. MaxArms /\ thread \in 0 .. MaxArms
  /\ stopped \in [0 .. MaxArms -> BOOLEAN]
  /\ \A n \in Threads :
       /\ worker[n].pc \in {"unborn", "delay", "base", "fresh", "turn", "pack", "done"}
       /\ worker[n].index \in 0 .. MaxIndex
       /\ mode = "simulation" /\ n \in Streaming => worker[n].origin.rev > worker[n].base.rev
  /\ \A c \in Callers :
       /\ caller[c].pc \in {"idle", "look", "set", "join", "clear", "reset", "event", "spawn"}
       /\ caller[c].goal \in {"halt", "reset", "arm"} /\ caller[c].target \in 0 .. MaxArms
  /\ {loaded, outlived} \subseteq BOOLEAN /\ sim \in 0 .. MaxSim

\* An arming replaces the stream that runs : two threads publish only if a join timed
\* out on the first import, because the one that outlived it obeys the new event.
OneStream == outlived \/ \A m, n \in Streaming : m = n

\* Once halt() has returned no token is on its way, so a policy that takes the port
\* is not followed by the settle, unless the join timed out.
SilentAfterHalt ==
  thread = 0 /\ (\A c \in Callers : caller[c].pc = "idle") =>
    outlived \/ \A n \in Threads : ~Live(n)

\* The types, and that arming and halting leave one stream and none.
WarmInv == TypeOK /\ OneStream /\ SilentAfterHalt

\* A stream paced by the simulation counts from a second after the reset it was armed
\* for, however late the file was rewritten, if the baseline was past Small.
OriginAfterReset ==
  mode = "simulation" => \A n \in Streaming :
    worker[n].base.at > Small => worker[n].origin.epoch > worker[n].base.epoch

\* After a halt every thread comes to an end, the one that outlived its join too,
\* unless a request arms the stream again.
HaltEnds ==
  (thread = 0 /\ \A c \in Callers : caller[c].pc = "idle") ~>
    (\A n \in Threads : ~Live(n)) \/ (\E c \in Callers : caller[c].pc # "idle")

\* What the docstring of the class says of halt : it stops the stream, on every
\* transition of a session.  A stream that runs while no request is served is the one
\* halt() would stop.
HaltCanStop ==
  (\A c \in Callers : caller[c].pc = "idle") => outlived \/ Streaming \subseteq {thread}
=============================================================================
