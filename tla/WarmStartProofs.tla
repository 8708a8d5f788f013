-------------------------- MODULE WarmStartProofs --------------------------
(***************************************************************************)
(* Theorems about WarmStart for any delays and any number of armings.  For *)
(* any callers : type correctness, and that a stream paced by the          *)
(* simulation counts from a second after the reset it was armed for.  For  *)
(* one caller at a time (OneCaller, an operator who waits for each         *)
(* answer) : one stream, and silence after a halt, unless a join has timed *)
(* out.                                                                    *)
(*                                                                         *)
(* The first rests on what the clock file has gone through since a sample  *)
(* was taken, the second on the field _thread : whatever lives is what it  *)
(* names, and it is cleared only for a thread that has ended.              *)
(***************************************************************************)
EXTENDS WarmStart, TLAPS

OneCaller == \A c, d \in Callers : c = d

USE DEF Threads

-----------------------------------------------------------------------------
Samples == [at : Int, epoch : Int, rev : Int]

Workers == [pc : {"unborn", "delay", "base", "fresh", "turn", "pack", "done"},
            index : 0 .. MaxIndex, base : Samples, origin : Samples, last : Int]

Calls == [pc : {"idle", "look", "set", "join", "clear", "reset", "event", "spawn"},
          goal : {"halt", "reset", "arm"}, target : 0 .. MaxArms, sample : Samples]

Types ==
  /\ mode \in Modes /\ event \in 0 .. MaxArms /\ thread \in 0 .. MaxArms
  /\ stopped \in [0 .. MaxArms -> BOOLEAN] /\ loaded \in BOOLEAN /\ outlived \in BOOLEAN
  /\ sim \in 0 .. MaxSim /\ file \in [at : Nat, epoch : Nat, rev : Nat]
  /\ baseline \in Samples
  /\ worker \in [Threads -> Workers] /\ caller \in [Callers -> Calls]

\* The file has not gone back since s was read : within an epoch its second grows.
Past(s, f) ==
  /\ s.epoch <= f.epoch /\ s.rev <= f.rev
  /\ s.epoch = f.epoch => s.at <= f.at

\* What a stream paced by the simulation counts from, beside the sample it was armed with.
OriginInv(w) ==
  /\ w.pc # "delay"
  /\ w.pc \in {"turn", "pack"} =>
       /\ w.origin.rev > w.base.rev
       /\ w.base.at > Small => w.origin.epoch > w.base.epoch

\* Every sample that is kept anywhere was read from the file as it went on.
ClockInv ==
  /\ Types
  /\ sim > 0 => file.at = sim
  /\ Past(baseline, file)
  /\ \A c \in Callers : Past(caller[c].sample, file)
  /\ \A n \in Threads : Past(worker[n].base, file)
  /\ mode = "simulation" => \A n \in Threads : OriginInv(worker[n])

-----------------------------------------------------------------------------
\* _thread names the thread that lives, and a call that clears it has seen it end.
StreamInv ==
  /\ \A n \in Threads : Live(n) => n = thread \/ outlived
  /\ \A c \in Callers :
       /\ caller[c].pc \in {"set", "join", "clear"} => caller[c].target = thread /\ thread # 0
       /\ caller[c].pc = "clear" => ~Live(thread) \/ outlived
       /\ caller[c].pc \in {"reset", "event", "spawn"} => thread = 0

ArmInv == ClockInv /\ StreamInv

-----------------------------------------------------------------------------
(* Samples, workers and calls *)

LEMMA Constants ==
  /\ Delay \in Nat /\ Small \in Nat /\ MaxArms \in Nat /\ MaxSim \in Nat /\ MaxIndex \in Nat
  /\ \A m \in Modes : m \in {"wall", "simulation"}
  BY WarmAssumption

LEMMA SampleTyped ==
  /\ NoSample \in Samples
  /\ \A f \in [at : Nat, epoch : Nat, rev : Nat] : f \in Samples /\ Past(f, f) /\ Past(NoSample, f)
  BY DEF Samples, NoSample, Past

\* A rewrite of the file leaves every sample past : in the epoch it begins there is none.
LEMMA RewriteKeepsPast ==
  ASSUME Types, ClockWrite, sim > 0 => file.at = sim, NEW s \in Samples, Past(s, file)
  PROVE  Past(s, file')
  BY DEF Types, ClockWrite, Samples, Past

Places == {"idle", "look", "set", "join", "clear", "reset", "event", "spawn"}

\* What a call remembers stays typed at its next step, and its sample stays the same.
LEMMA CallTyped ==
  ASSUME NEW r \in Calls, NEW pc \in Places
  PROVE  [r EXCEPT !.pc = pc] \in Calls /\ [r EXCEPT !.pc = pc].sample = r.sample
  BY DEF Calls, Places

LEMMA IdleTyped == Idle \in Calls /\ Idle.sample = NoSample
  BY Constants, SampleTyped DEF Calls, Idle

LEMMA AfterTyped ==
  ASSUME NEW r \in Calls
  PROVE  After(r) \in Calls /\ After(r).sample \in {r.sample, NoSample}
<1>1. r.goal \in {"halt", "reset", "arm"} BY DEF Calls
<1>2. CASE r.goal = "halt" BY <1>2, IdleTyped DEF After
<1>3. CASE r.goal = "reset" BY <1>3, CallTyped DEF After, Places
<1>4. CASE r.goal = "arm" BY <1>4, CallTyped DEF After, Places
<1> QED BY <1>1, <1>2, <1>3, <1>4

-----------------------------------------------------------------------------
(* The clock *)

LEMMA ClockInit == Init => ClockInv
<1> SUFFICES ASSUME Init PROVE ClockInv OBVIOUS
<1>1. file \in [at : Nat, epoch : Nat, rev : Nat] BY DEF Init
<1>2. Unborn \in Workers BY Constants, SampleTyped DEF Unborn, Workers
<1>3. Idle \in Calls BY Constants, SampleTyped DEF Idle, Calls
<1>4. 0 \in 0 .. MaxArms /\ 0 \in 0 .. MaxSim BY Constants
<1>5. Types BY <1>1, <1>2, <1>3, <1>4, SampleTyped DEF Init, Types
<1>6. /\ Past(baseline, file) /\ \A c \in Callers : Past(caller[c].sample, file)
      /\ \A n \in Threads : Past(worker[n].base, file) /\ OriginInv(worker[n])
  BY <1>1, SampleTyped DEF Init, Idle, Unborn, OriginInv
<1> QED BY <1>5, <1>6 DEF ClockInv, Init

\* A call goes on to r.
LEMMA CallStep ==
  ASSUME ClockInv, NEW c \in Callers, NEW r \in Calls, NEW was, Step(c, r, was)
  PROVE  /\ caller' \in [Callers -> Calls] /\ caller'[c] = r /\ caller[c].pc = was
         /\ caller[c] \in Calls
         /\ \A d \in Callers \ {c} : caller'[d] = caller[d]
  BY DEF ClockInv, Types, Step

\* Every step of a call of c goes on to some r.
LEMMA CallsTyped ==
  ASSUME ClockInv, NEW c \in Callers, CallHalt(c) \/ CallReset(c) \/ Call(c)
  PROVE  \E r \in Calls : \E was :
           Step(c, r, was) /\ Past(r.sample, file)
<1>0. /\ caller[c] \in Calls /\ Past(caller[c].sample, file) /\ thread \in 0 .. MaxArms
      /\ file \in [at : Nat, epoch : Nat, rev : Nat]
  BY DEF ClockInv, Types
<1>1. /\ \A s \in Reads \union {NoSample} : s \in Samples /\ Past(s, file)
      /\ Past(NoSample, file)
  BY <1>0, SampleTyped DEF Reads
<1>2. After(caller[c]) \in Calls /\ Past(After(caller[c]).sample, file)
  BY <1>0, <1>1, AfterTyped
<1>3. CASE CallHalt(c)
  <2>1. [Idle EXCEPT !.pc = "look"] \in Calls /\ [Idle EXCEPT !.pc = "look"].sample = NoSample
    BY IdleTyped, CallTyped DEF Places
  <2> QED BY <1>1, <1>3, <2>1 DEF CallHalt
<1>4. CASE CallReset(c)
  <2>1. PICK s \in Reads \union {NoSample} :
          Step(c, [Idle EXCEPT !.pc = "look", !.goal = "reset", !.sample = s], "idle")
    BY <1>4 DEF CallReset
  <2>2. s \in Samples /\ Past(s, file) /\ 0 \in 0 .. MaxArms BY <1>1, Constants
  <2>3. [Idle EXCEPT !.pc = "look", !.goal = "reset", !.sample = s] \in Calls
    BY <2>2 DEF Idle, Calls
  <2>4. [Idle EXCEPT !.pc = "look", !.goal = "reset", !.sample = s].sample = s BY DEF Idle
  <2> QED BY <2>1, <2>2, <2>3, <2>4
<1>5. CASE LookAtThread(c)
  <2>1. [caller[c] EXCEPT !.pc = "set", !.target = thread] \in Calls
    BY <1>0 DEF Calls
  <2>2. [caller[c] EXCEPT !.pc = "set", !.target = thread].sample = caller[c].sample
    BY <1>0 DEF Calls
  <2> QED BY <1>0, <1>2, <1>5, <2>1, <2>2 DEF LookAtThread
<1>6. CASE ResetApplied(c)
  <2>1. [caller[c] EXCEPT !.pc = "look", !.goal = "arm"] \in Calls
    BY <1>0 DEF Calls
  <2>2. [caller[c] EXCEPT !.pc = "look", !.goal = "arm"].sample = caller[c].sample
    BY <1>0 DEF Calls
  <2> QED BY <1>0, <1>6, <2>1, <2>2 DEF ResetApplied
<1>7. CASE SetStop(c) \/ Join(c) \/ NewEvent(c)
  <2>1. PICK pc \in Places : Step(c, [caller[c] EXCEPT !.pc = pc], caller[c].pc)
    BY <1>7 DEF SetStop, Join, NewEvent, Places, Step
  <2> QED BY <1>0, <2>1, CallTyped
<1>8. CASE ClearThread(c)
  BY <1>2, <1>8 DEF ClearThread
<1>9. CASE Spawn(c)
  BY <1>1, <1>9, IdleTyped DEF Spawn
<1> QED BY <1>3, <1>4, <1>5, <1>6, <1>7, <1>8, <1>9 DEF Call

LEMMA CallKeepsClock ==
  ASSUME ClockInv, NEW c \in Callers, CallHalt(c) \/ CallReset(c) \/ Call(c)
  PROVE  ClockInv'
<1> USE DEF CallHalt, CallReset, Call, LookAtThread, SetStop, Join, ClearThread, ResetApplied, NewEvent
<1>0. Types /\ caller[c] \in Calls /\ Past(caller[c].sample, file) BY DEF ClockInv, Types
<1>1. PICK r \in Calls : (\E was : Step(c, r, was)) /\ Past(r.sample, file) BY CallsTyped
<1>2. /\ caller' \in [Callers -> Calls]
      /\ \A d \in Callers : Past(caller'[d].sample, file)
  BY <1>1, CallStep DEF ClockInv
<1>3. UNCHANGED <<mode, file>> BY DEF Spawn
<1>4. CASE Spawn(c)
  <2> DEFINE pc == IF mode = "wall" THEN "delay" ELSE "base"
  <2>1. PICK n \in Threads : worker' = [worker EXCEPT ![n] = [worker[n] EXCEPT !.pc = pc]] /\ thread' = n
    BY <1>0, <1>4 DEF Spawn, Types
  <2>2. [worker[n] EXCEPT !.pc = pc] \in Workers /\ [worker[n] EXCEPT !.pc = pc].base = worker[n].base
        /\ [worker[n] EXCEPT !.pc = pc].pc = pc
    BY <1>0 DEF Types, Workers
  <2>3. worker' \in [Threads -> Workers] /\ worker'[n].base = worker[n].base /\ worker'[n].pc = pc
        /\ \A m \in Threads \ {n} : worker'[m] = worker[m]
    BY <1>0, <2>1, <2>2 DEF Types
  <2>4. mode = "simulation" => \A m \in Threads : OriginInv(worker'[m])
    BY <2>3 DEF ClockInv, OriginInv
  <2>5. \A m \in Threads : Past(worker'[m].base, file) BY <2>3 DEF ClockInv
  <2>6. thread' \in 0 .. MaxArms
    <3>1. n \in 0 .. MaxArms BY ONLY Constants, n \in Threads DEF Threads
    <3> QED BY <2>1, <3>1
  <2>7. Types' BY <1>0, <1>2, <1>3, <1>4, <2>3, <2>6 DEF Spawn, Types
  <2> QED BY <1>2, <1>3, <1>4, <2>4, <2>5, <2>7 DEF Spawn, ClockInv
<1>5. CASE ~Spawn(c)
  <2>1. UNCHANGED <<worker, loaded>> BY <1>5
  <2>2. (event \in 0 .. MaxArms)' /\ (thread \in 0 .. MaxArms)' /\ (sim \in 0 .. MaxSim)'
    <3>1. thread' = thread \/ thread' = 0 BY <1>5
    <3>2. sim' = sim \/ sim' = 0 BY <1>5
    <3>3. event' = event \/ (event < MaxArms /\ event' = event + 1) BY <1>5
    <3>4. 0 \in 0 .. MaxArms /\ 0 \in 0 .. MaxSim BY ONLY Constants
    <3> QED BY ONLY <1>0, <3>1, <3>2, <3>3, <3>4, Constants DEF Types
  <2>3. (stopped \in [0 .. MaxArms -> BOOLEAN])' BY <1>0, <1>5 DEF Types
  <2>4. (outlived \in BOOLEAN)' BY <1>0, <1>5 DEF Types, Live
  <2>5. baseline' \in Samples /\ Past(baseline', file)
    BY <1>0, <1>5 DEF ClockInv, Types, Calls
  <2>6. Types' BY <1>0, <1>2, <1>3, <2>1, <2>2, <2>3, <2>4, <2>5 DEF Types
  <2>7. (sim > 0 => file.at = sim)'
    <3>1. sim' = sim \/ sim' = 0 BY <1>5
    <3>2. sim > 0 => file.at = sim BY DEF ClockInv
    <3> QED BY ONLY <1>3, <3>1, <3>2
  <2> QED BY <1>2, <1>3, <2>1, <2>5, <2>6, <2>7 DEF ClockInv, OriginInv
<1> QED BY <1>4, <1>5

\* Every step of a thread n, in the terms of what it remembers.
LEMMA ServeStep ==
  ASSUME ClockInv, NEW n \in Threads, Serve(n)
  PROVE  /\ \E r \in Workers :
              /\ worker' = [worker EXCEPT ![n] = r] /\ Past(r.base, file)
              /\ r.pc \in {"fresh", "turn", "pack", "done"}
              /\ mode = "simulation" => OriginInv(r)
         /\ Live(n) /\ loaded' \in BOOLEAN
         /\ UNCHANGED <<mode, stopped, event, thread, baseline, file, sim, caller, outlived>>
<1> USE DEF Work
<1>0. /\ Types /\ worker[n] \in Workers /\ Past(worker[n].base, file) /\ file \in Samples
      /\ worker[n].pc \in {"unborn", "delay", "base", "fresh", "turn", "pack", "done"}
      /\ mode = "simulation" => OriginInv(worker[n])
  BY SampleTyped DEF ClockInv, Types, Workers
<1>1. loaded' \in BOOLEAN
  BY <1>0 DEF Serve, EndDelay, TakeBaseline, FreshSample, GiveUp, Turn, ClockStops, Publish, ImportFails, Types
<1>2. CASE EndDelay(n)
  <2>1. PICK pc \in {"done", "turn"} : worker' = [worker EXCEPT ![n] = [worker[n] EXCEPT !.pc = pc]]
    BY <1>2 DEF EndDelay
  <2>2. [worker[n] EXCEPT !.pc = pc] \in Workers /\ [worker[n] EXCEPT !.pc = pc].base = worker[n].base
        /\ [worker[n] EXCEPT !.pc = pc].pc = pc
    BY <1>0 DEF Workers
  <2>3. mode # "simulation" BY <1>0, <1>2 DEF EndDelay, OriginInv
  <2> QED BY <1>0, <1>1, <1>2, <2>1, <2>2, <2>3 DEF EndDelay, Live
<1>3. CASE TakeBaseline(n)
  <2>1. PICK s \in Reads \union {baseline} :
          worker' = [worker EXCEPT ![n] = [worker[n] EXCEPT !.pc = "fresh", !.base = s]]
    BY <1>3 DEF TakeBaseline
  <2>2. s \in Samples /\ Past(s, file)
    BY <1>0, SampleTyped DEF Reads, ClockInv, Types
  <2> DEFINE r == [worker[n] EXCEPT !.pc = "fresh", !.base = s]
  <2>3. r \in Workers /\ r.pc = "fresh" /\ r.base = s BY <1>0, <2>2 DEF Workers
  <2>4. OriginInv(r) BY <2>3 DEF OriginInv
  <2> QED BY <1>0, <1>1, <1>3, <2>1, <2>2, <2>3, <2>4 DEF TakeBaseline, Live
<1>4. CASE FreshSample(n)
  <2> DEFINE r == [worker[n] EXCEPT !.pc = "turn", !.origin = file, !.last = file.at]
  <2>1. worker' = [worker EXCEPT ![n] = r] BY <1>4 DEF FreshSample
  <2>2. /\ r \in Workers /\ r.pc = "turn" /\ r.base = worker[n].base /\ r.origin = file
        /\ r.base \in Samples
    BY <1>0 DEF Workers, Samples
  <2>3. OriginInv(r)
    BY <1>0, <1>4, <2>2, Constants DEF FreshSample, OriginInv, Past, Samples
  <2> QED BY <1>0, <1>1, <1>4, <2>1, <2>2, <2>3 DEF FreshSample, Live
<1>5. CASE GiveUp(n) \/ ClockStops(n) \/ ImportFails(n)
  <2> DEFINE r == [worker[n] EXCEPT !.pc = "done"]
  <2>1. worker' = [worker EXCEPT ![n] = r] BY <1>5 DEF GiveUp, ClockStops, ImportFails
  <2>2. r \in Workers /\ r.pc = "done" /\ r.base = worker[n].base BY <1>0 DEF Workers
  <2>3. OriginInv(r) BY <2>2 DEF OriginInv
  <2> QED BY <1>0, <1>1, <1>5, <2>1, <2>2, <2>3 DEF GiveUp, ClockStops, ImportFails, Live
<1>6. CASE Turn(n)
  <2>1. PICK pc \in {"done", "pack"}, at \in {worker[n].last, file.at} :
          worker' = [worker EXCEPT ![n] = [worker[n] EXCEPT !.pc = pc, !.last = at]]
    <3>1. [worker[n] EXCEPT !.pc = "done"] = [worker[n] EXCEPT !.pc = "done", !.last = worker[n].last]
      BY <1>0 DEF Workers
    <3> QED BY <1>6, <3>1 DEF Turn
  <2> DEFINE r == [worker[n] EXCEPT !.pc = pc, !.last = at]
  <2>2. r \in Workers /\ r.pc = pc /\ r.base = worker[n].base /\ r.origin = worker[n].origin
    BY <1>0 DEF Workers, Samples
  <2>3. mode = "simulation" => OriginInv(r) BY <1>0, <1>6, <2>2 DEF Turn, OriginInv
  <2> QED BY <1>0, <1>1, <1>6, <2>1, <2>2, <2>3 DEF Turn, Live
<1>7. CASE Publish(n)
  <2>1. PICK i \in 0 .. MaxIndex :
          worker' = [worker EXCEPT ![n] = [worker[n] EXCEPT !.pc = "turn", !.index = i]]
    <3>1. worker[n].index \in 0 .. MaxIndex BY <1>0 DEF Workers
    <3>2. (IF worker[n].index < MaxIndex THEN worker[n].index + 1 ELSE worker[n].index) \in 0 .. MaxIndex
      BY <3>1, Constants
    <3> QED BY <1>0, <1>7, <3>2 DEF Publish, Workers
  <2> DEFINE r == [worker[n] EXCEPT !.pc = "turn", !.index = i]
  <2>2. r \in Workers /\ r.pc = "turn" /\ r.base = worker[n].base /\ r.origin = worker[n].origin
    BY <1>0 DEF Workers
  <2>3. mode = "simulation" => OriginInv(r) BY <1>0, <1>7, <2>2 DEF Publish, OriginInv
  <2> QED BY <1>0, <1>1, <1>7, <2>1, <2>2, <2>3 DEF Publish, Live
<1> QED BY <1>2, <1>3, <1>4, <1>5, <1>6, <1>7 DEF Serve

LEMMA ClockStep == ClockInv /\ [Next]_vars => ClockInv'
<1> SUFFICES ASSUME ClockInv, [Next]_vars PROVE ClockInv' OBVIOUS
<1>1. CASE UNCHANGED vars BY <1>1 DEF vars, ClockInv, Types
<1>2. CASE ClockWrite
  <2>1. file' \in [at : Nat, epoch : Nat, rev : Nat] /\ (sim' > 0 => file'.at = sim')
        /\ sim' \in 0 .. MaxSim
    BY <1>2, Constants DEF ClockWrite, ClockInv, Types
  <2>2. Types' BY <1>2, <2>1 DEF ClockWrite, ClockInv, Types
  <2>3. /\ Past(baseline, file') /\ \A c \in Callers : Past(caller[c].sample, file')
        /\ \A n \in Threads : Past(worker[n].base, file')
    <3>1. /\ \A c \in Callers : caller[c].sample \in Samples
          /\ \A n \in Threads : worker[n].base \in Samples
      BY DEF ClockInv, Types, Calls, Workers
    <3> QED BY <1>2, <3>1, RewriteKeepsPast DEF ClockInv, Types
  <2> QED BY <1>2, <2>1, <2>2, <2>3 DEF ClockWrite, ClockInv, OriginInv
<1>3. ASSUME NEW n \in Threads, Serve(n) PROVE ClockInv'
  <2>1. /\ loaded' \in BOOLEAN
        /\ UNCHANGED <<mode, stopped, event, thread, baseline, file, sim, caller, outlived>>
    BY <1>3, ServeStep
  <2>2. PICK r \in Workers :
          /\ worker' = [worker EXCEPT ![n] = r] /\ Past(r.base, file)
          /\ mode = "simulation" => OriginInv(r)
    BY <1>3, ServeStep
  <2>3. worker' \in [Threads -> Workers] /\ worker'[n] = r
        /\ \A m \in Threads \ {n} : worker'[m] = worker[m]
    BY <2>2 DEF ClockInv, Types
  <2>4. Types' BY <2>1, <2>3 DEF ClockInv, Types
  <2>5. \A m \in Threads : Past(worker'[m].base, file) BY <2>2, <2>3 DEF ClockInv
  <2>6. mode = "simulation" => \A m \in Threads : OriginInv(worker'[m]) BY <2>2, <2>3 DEF ClockInv
  <2> QED BY <2>1, <2>4, <2>5, <2>6 DEF ClockInv
<1> QED BY <1>1, <1>2, <1>3, CallKeepsClock DEF Next

-----------------------------------------------------------------------------
(* One caller at a time *)

LEMMA StreamInit == Init => StreamInv
  BY DEF Init, StreamInv, Live, Unborn, Idle

LEMMA StepTo ==
  ASSUME ClockInv, NEW c \in Callers, NEW r, NEW was, Step(c, r, was)
  PROVE  caller'[c] = r /\ caller[c].pc = was
  BY DEF ClockInv, Types, Step

LEMMA AfterPlace ==
  ASSUME NEW r \in Calls
  PROVE  After(r).pc \in {"idle", "reset", "event"}
<1>1. r.goal \in {"halt", "reset", "arm"} BY DEF Calls
<1>2. CASE r.goal = "halt" BY <1>2 DEF After, Idle
<1>3. CASE r.goal = "reset" BY <1>3 DEF After, Calls
<1>4. CASE r.goal = "arm" BY <1>4 DEF After, Calls
<1> QED BY <1>1, <1>2, <1>3, <1>4

\* What the place r of a call says of the thread n that the stream names.
Held(r, n, live, out) ==
  /\ r.pc \in {"set", "join", "clear"} => r.target = n /\ n # 0
  /\ r.pc = "clear" => ~live \/ out
  /\ r.pc \in {"reset", "event", "spawn"} => n = 0

\* For the only caller its own place is all there is.
LEMMA OwnPlace ==
  ASSUME OneCaller, NEW c \in Callers,
         Held(caller'[c], thread', Live(thread)', outlived'),
         \A n \in Threads : Live(n)' => n = thread' \/ outlived'
  PROVE  StreamInv'
  BY DEF OneCaller, StreamInv, Held

LEMMA CallKeepsStream ==
  ASSUME OneCaller, ArmInv, NEW c \in Callers, CallHalt(c) \/ CallReset(c) \/ Call(c)
  PROVE  StreamInv'
<1> DEFINE Lives == \A n \in Threads : Live(n) => n = thread \/ outlived
<1>0. /\ ClockInv /\ caller[c] \in Calls /\ thread \in 0 .. MaxArms /\ outlived \in BOOLEAN
      /\ Held(caller[c], thread, Live(thread), outlived) /\ Lives
  BY DEF ArmInv, ClockInv, Types, StreamInv, Held
<1>1. CASE CallHalt(c) \/ CallReset(c)
  <2>1. caller'[c].pc = "look"
    <3>1. CASE CallHalt(c)
      <4>1. caller'[c] = [Idle EXCEPT !.pc = "look"] BY <1>0, <3>1, StepTo DEF CallHalt
      <4> QED BY <4>1 DEF Idle
    <3>2. CASE CallReset(c)
      <4>1. PICK s : Step(c, [Idle EXCEPT !.pc = "look", !.goal = "reset", !.sample = s], "idle")
        BY <3>2 DEF CallReset
      <4>2. caller'[c] = [Idle EXCEPT !.pc = "look", !.goal = "reset", !.sample = s]
        BY <1>0, <4>1, StepTo
      <4> QED BY <4>2 DEF Idle
    <3> QED BY <1>1, <3>1, <3>2
  <2>2. Held(caller'[c], thread', Live(thread)', outlived') BY <2>1 DEF Held
  <2> QED BY <1>0, <1>1, <2>2, OwnPlace DEF CallHalt, CallReset, Live
<1>2. CASE LookAtThread(c)
  <2>1. Held(caller'[c], thread', Live(thread)', outlived')
    <3>1. UNCHANGED thread BY <1>2 DEF LookAtThread
    <3>2. CASE thread = 0
      <4>1. caller'[c] = After(caller[c]) BY <1>0, <1>2, <3>2, StepTo DEF LookAtThread
      <4> QED BY <1>0, <3>1, <3>2, <4>1, AfterPlace DEF Held
    <3>3. CASE thread # 0
      <4>1. caller'[c] = [caller[c] EXCEPT !.pc = "set", !.target = thread]
        BY <1>0, <1>2, <3>3, StepTo DEF LookAtThread
      <4>2. caller'[c].pc = "set" /\ caller'[c].target = thread BY <1>0, <4>1 DEF Calls
      <4> QED BY <3>1, <3>3, <4>2 DEF Held
    <3> QED BY <3>2, <3>3
  <2> QED BY <1>0, <1>2, <2>1, OwnPlace DEF LookAtThread, Live
<1>3. CASE SetStop(c)
  <2>1. caller'[c] = [caller[c] EXCEPT !.pc = "join"] /\ caller[c].pc = "set"
    BY <1>0, <1>3, StepTo DEF SetStop
  <2>2. caller'[c].pc = "join" /\ caller'[c].target = caller[c].target BY <1>0, <2>1 DEF Calls
  <2>3. Held(caller'[c], thread', Live(thread)', outlived') BY <1>0, <1>3, <2>1, <2>2 DEF SetStop, Held
  <2> QED BY <1>0, <1>3, <2>3, OwnPlace DEF SetStop, Live
<1>4. CASE Join(c)
  <2>1. caller'[c] = [caller[c] EXCEPT !.pc = "clear"] /\ caller[c].pc = "join"
    BY <1>0, <1>4, StepTo DEF Join
  <2>2. caller'[c].pc = "clear" /\ caller'[c].target = caller[c].target BY <1>0, <2>1 DEF Calls
  <2>3. caller[c].target = thread /\ thread # 0 BY <1>0, <2>1 DEF Held
  <2>4. outlived' = (outlived \/ Live(thread)) BY <1>4, <2>3 DEF Join
  <2>5. UNCHANGED <<thread, worker>> BY <1>4 DEF Join
  <2>6. Held(caller'[c], thread', Live(thread)', outlived')
    BY <2>2, <2>3, <2>4, <2>5 DEF Held, Live
  <2>7. \A n \in Threads : Live(n)' => n = thread' \/ outlived' BY <1>0, <2>4, <2>5 DEF Live
  <2> QED BY <2>6, <2>7, OwnPlace
<1>5. CASE ClearThread(c)
  <2>1. caller'[c] = After(caller[c]) /\ caller[c].pc = "clear"
    BY <1>0, <1>5, StepTo DEF ClearThread
  <2>2. Held(caller'[c], thread', Live(thread)', outlived')
    BY <1>0, <1>5, <2>1, AfterPlace DEF ClearThread, Held
  <2>3. ~Live(thread) \/ outlived BY <1>0, <2>1 DEF Held
  <2>4. \A n \in Threads : Live(n)' => n = thread' \/ outlived'
    BY <1>0, <1>5, <2>3 DEF ClearThread, Live
  <2> QED BY <2>2, <2>4, OwnPlace
<1>6. CASE ResetApplied(c)
  <2>1. caller'[c] = [caller[c] EXCEPT !.pc = "look", !.goal = "arm"]
    BY <1>0, <1>6, StepTo DEF ResetApplied
  <2>2. caller'[c].pc = "look" BY <1>0, <2>1 DEF Calls
  <2>3. Held(caller'[c], thread', Live(thread)', outlived') BY <2>2 DEF Held
  <2> QED BY <1>0, <1>6, <2>3, OwnPlace DEF ResetApplied, Live
<1>7. CASE NewEvent(c)
  <2>1. caller'[c] = [caller[c] EXCEPT !.pc = "spawn"] /\ caller[c].pc = "event"
    BY <1>0, <1>7, StepTo DEF NewEvent
  <2>2. caller'[c].pc = "spawn" BY <1>0, <2>1 DEF Calls
  <2>3. Held(caller'[c], thread', Live(thread)', outlived') BY <1>0, <1>7, <2>1, <2>2 DEF NewEvent, Held
  <2> QED BY <1>0, <1>7, <2>3, OwnPlace DEF NewEvent, Live
<1>8. CASE Spawn(c)
  <2>1. caller'[c] = Idle /\ caller[c].pc = "spawn" BY <1>0, <1>8, StepTo DEF Spawn
  <2>2. Held(caller'[c], thread', Live(thread)', outlived') BY <2>1 DEF Held, Idle
  <2>3. PICK n \in Threads :
          thread' = n /\ \A m \in Threads : m # n => worker'[m] = worker[m]
    BY <1>0, <1>8 DEF Spawn, ClockInv, Types
  <2>4. thread = 0 /\ UNCHANGED outlived BY <1>0, <1>8, <2>1 DEF Held, Spawn
  <2>5. \A m \in Threads : m # 0 BY Constants
  <2>6. \A m \in Threads : Live(m)' => m = thread' \/ outlived'
    BY <1>0, <2>3, <2>4, <2>5 DEF Live
  <2> QED BY <2>2, <2>6, OwnPlace
<1> QED BY <1>1, <1>2, <1>3, <1>4, <1>5, <1>6, <1>7, <1>8 DEF Call

LEMMA ArmStep == ASSUME OneCaller, ArmInv, [Next]_vars PROVE ArmInv'
<1>0. ClockInv /\ ClockInv' /\ StreamInv BY ClockStep DEF ArmInv
<1>1. CASE UNCHANGED vars BY <1>0, <1>1 DEF vars, ArmInv, StreamInv, Live
<1>2. CASE ClockWrite BY <1>0, <1>2 DEF ClockWrite, ArmInv, StreamInv, Live
<1>3. ASSUME NEW n \in Threads, Serve(n) PROVE ArmInv'
  <2>1. Live(n) /\ UNCHANGED <<thread, caller, outlived>> BY <1>0, <1>3, ServeStep
  <2>2. \A m \in Threads : m # n => worker'[m] = worker[m]
    <3>1. PICK r \in Workers : worker' = [worker EXCEPT ![n] = r] BY <1>0, <1>3, ServeStep
    <3> QED BY <1>0, <3>1 DEF ClockInv, Types
  <2>3. \A m \in Threads : Live(m)' => m = thread' \/ outlived'
    BY <1>0, <2>1, <2>2 DEF StreamInv, Live
  <2>4. \A c \in Callers : caller'[c].pc = "clear" => ~Live(thread)' \/ outlived'
    <3> SUFFICES ASSUME NEW c \in Callers, caller[c].pc = "clear"
                 PROVE  ~Live(thread)' \/ outlived
      BY <2>1
    <3>1. (~Live(thread) \/ outlived) /\ thread # 0 BY <1>0 DEF StreamInv
    <3>2. thread \in Threads BY <1>0, <3>1, Constants DEF ClockInv, Types
    <3> QED BY <2>1, <2>2, <3>1, <3>2 DEF Live
  <2> QED BY <1>0, <2>1, <2>3, <2>4 DEF ArmInv, StreamInv
<1> QED BY <1>0, <1>1, <1>2, <1>3, CallKeepsStream DEF Next, ArmInv

-----------------------------------------------------------------------------
(* Theorems *)

\* Whoever calls halt() and arm() and in whatever order : the fields keep their types,
\* every sample a stream remembers was read from the clock file as it went on, and what
\* a stream counts from is newer than what it was armed with.
THEOREM ClockCorrect == Spec => []ClockInv
<1>1. ClockInv /\ [Next]_vars => ClockInv' BY ClockStep
<1> QED BY <1>1, ClockInit, PTL DEF Spec

\* _serve_simulation_clock of any stream, armed by any number of callers : it counts
\* from a second after the reset it was armed for, if the baseline was past Small.
THEOREM OriginIsFresh == Spec => []OriginAfterReset
<1>1. ClockInv => OriginAfterReset BY DEF ClockInv, OriginInv, OriginAfterReset, Streaming
<1> QED BY <1>1, ClockCorrect, PTL

\* One operator at a time : whatever publishes is the thread _thread names, unless a
\* join has timed out.
THEOREM StreamInvariant == ASSUME OneCaller PROVE Spec => []ArmInv
<1>1. Init => ArmInv BY ClockInit, StreamInit DEF ArmInv
<1>2. ArmInv /\ [Next]_vars => ArmInv' BY ArmStep
<1> QED BY <1>1, <1>2, PTL DEF Spec

\* One operator at a time : arm() leaves one stream and halt() none, unless the join of
\* halt() has timed out on the first import.
THEOREM WarmCorrect == ASSUME OneCaller PROVE Spec => []WarmInv
<1>1. ArmInv => TypeOK
  BY DEF ArmInv, ClockInv, OriginInv, Types, TypeOK, Workers, Calls, Streaming
<1>2. ArmInv => OneStream BY DEF ArmInv, StreamInv, OneStream, Streaming, Live
<1>3. ArmInv => SilentAfterHalt BY Constants DEF ArmInv, StreamInv, SilentAfterHalt
<1>4. ArmInv => WarmInv BY <1>1, <1>2, <1>3 DEF WarmInv
<1> QED BY <1>4, StreamInvariant, PTL
=============================================================================
