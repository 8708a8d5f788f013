---------------------------- MODULE ActionRouter ----------------------------
(***************************************************************************)
(* ActionRouter (psi0_bridge/action_router.py) : the one thread that owns  *)
(* SONIC's action socket, the queues through which the bridge's own        *)
(* sources reach it, and the calls that switch between the sources.        *)
(*                                                                         *)
(* A producer is a thread that submits to one of the queues (the psi loop, *)
(* the warm start, the initial pose); an operator is a thread that calls   *)
(* select, resume, halt, send_control or close.  A queued message is its   *)
(* generation tag.  Messages of the VLA client (groot) come from a socket  *)
(* and carry no tag; the tag the router's hand holds for one is history :  *)
(* the generation in which _accept() took it.                              *)
(*                                                                         *)
(* One action per critical section of _lock and per operation on a queue.  *)
(* Left out : the payloads, status(), and what _record() counts.           *)
(***************************************************************************)
EXTENDS Naturals, Sequences

CONSTANTS
  Producers,  \* submitting threads, as pairs <<queue, number>>
  Operators,  \* calling threads
  Depth,      \* maxsize of the three queues (2)
  CtlDepth,   \* maxsize of the control queue (4)
  MaxGen      \* bound : generations handed out by select() and halt()

Queued  == {"psi", "warmstart", "initial_pose"}
Sources == Queued \cup {"groot"}
Gens    == 0 .. MaxGen

ASSUME RouterAssumption ==
  /\ Producers \subseteq Queued \X Nat
  /\ Depth \in Nat \ {0} /\ CtlDepth \in Nat \ {0} /\ MaxGen \in Nat

VARIABLES
  source, gate, generation, closed,  \* _source, _gate, _generation, _closed
  stop,      \* the _stop event
  queue,     \* _psi, _warmstart, _initial_pose
  control,   \* number of messages in _control
  producer,  \* progress of a submit : where it is, and the generation it read
  operator,  \* progress of an operator's call : where it is, and the queue it drains
  router,    \* the router thread : where it is, and the message in its hand
  late,      \* history : messages of a generation sent after that generation
  refused    \* history : producers whose put raised queue.Full

vars == <<source, gate, generation, closed, stop, queue, control, producer,
          operator, router, late, refused>>

\* The queue that the router and the drains look at after this one.
Following == [psi |-> "warmstart", warmstart |-> "initial_pose", initial_pose |-> "end"]

ProducerType == [at : {"idle", "put", "evict", "retry"}, gen : Gens]
OperatorType == [at : {"idle", "drain", "evict", "retry", "shut", "join"}, on : Queued]
RouterType   == [at : {"poll", "accept", "control", "send", "done"}, on : Sources, gen : Gens]
                \cup [at : {"take", "check"}, on : Queued, gen : Gens]

TypeOK ==
  /\ source \in Sources /\ gate \in BOOLEAN /\ generation \in Gens
  /\ closed \in BOOLEAN /\ stop \in BOOLEAN
  /\ queue \in [Queued -> Seq(Gens)]
  /\ control \in 0 .. CtlDepth
  /\ producer \in [Producers -> ProducerType]
  /\ operator \in [Operators -> OperatorType]
  /\ router \in RouterType
  /\ late \in [Gens -> Nat]
  /\ refused \subseteq Producers

Init ==
  /\ source = "psi" /\ gate = FALSE /\ generation = 0 /\ closed = FALSE
  /\ stop = FALSE
  /\ queue = [q \in Queued |-> <<>>]
  /\ control = 0
  /\ producer = [p \in Producers |-> [at |-> "idle", gen |-> 0]]
  /\ operator = [o \in Operators |-> [at |-> "idle", on |-> "psi"]]
  /\ router = [at |-> "poll", on |-> "groot", gen |-> 0]
  /\ late = [g \in Gens |-> 0]
  /\ refused = {}

switch == <<source, gate, generation, closed>>
queues == <<queue, control>>
others == <<late, refused>>

-----------------------------------------------------------------------------
(* _submit() *)

\* The critical section; a submit that is not accepted returns and changes nothing.
SubmitAccept(p) ==
  /\ producer[p].at = "idle"
  /\ gate /\ source = p[1] /\ ~closed
  /\ producer' = [producer EXCEPT ![p] = [at |-> "put", gen |-> generation]]
  /\ UNCHANGED <<switch, stop, queues, operator, router, others>>

\* put_nowait().
SubmitPut(p) ==
  /\ producer[p].at = "put"
  /\ IF Len(queue[p[1]]) < Depth
     THEN /\ queue' = [queue EXCEPT ![p[1]] = Append(@, producer[p].gen)]
          /\ producer' = [producer EXCEPT ![p].at = "idle"]
     ELSE producer' = [producer EXCEPT ![p].at = "evict"] /\ UNCHANGED queue
  /\ UNCHANGED <<switch, stop, control, operator, router, others>>

\* Mutant : the eviction is forgotten.
SubmitEvict_Keep(p) ==
  /\ producer[p].at = "evict"
  /\ producer' = [producer EXCEPT ![p].at = "retry"]
  /\ UNCHANGED <<switch, stop, queues, operator, router, others>>

\* get_nowait() of the oldest message, if the router has left one.
SubmitEvict(p) ==
  /\ producer[p].at = "evict"
  /\ producer' = [producer EXCEPT ![p].at = "retry"]
  /\ queue' = [queue EXCEPT ![p[1]] = IF @ = <<>> THEN @ ELSE Tail(@)]
  /\ UNCHANGED <<switch, stop, control, operator, router, others>>

\* The second put_nowait(); nothing catches its queue.Full.
SubmitRetry(p) ==
  /\ producer[p].at = "retry"
  /\ producer' = [producer EXCEPT ![p].at = "idle"]
  /\ IF Len(queue[p[1]]) < Depth
     THEN queue' = [queue EXCEPT ![p[1]] = Append(@, producer[p].gen)] /\ UNCHANGED refused
     ELSE refused' = refused \cup {p} /\ UNCHANGED queue
  /\ UNCHANGED <<switch, stop, control, operator, router, late>>

-----------------------------------------------------------------------------
(* select(), halt(), resume(), send_control(), close() *)

Calls(o) == operator[o].at = "idle"
Drains(o) == operator' = [operator EXCEPT ![o] = [at |-> "drain", on |-> "psi"]]

\* Mutant : select() shuts the gate and starts no new generation.
Select_SameGeneration(o, s) ==
  /\ Calls(o) /\ generation < MaxGen
  /\ source' = s /\ gate' = FALSE
  /\ Drains(o)
  /\ UNCHANGED <<generation, closed, stop, queues, producer, router, others>>

Select(o, s) ==
  /\ Calls(o) /\ generation < MaxGen
  /\ source' = s /\ gate' = FALSE /\ generation' = generation + 1
  /\ Drains(o)
  /\ UNCHANGED <<closed, stop, queues, producer, router, others>>

Halt(o) ==
  /\ Calls(o) /\ generation < MaxGen
  /\ gate' = FALSE /\ generation' = generation + 1
  /\ Drains(o)
  /\ UNCHANGED <<source, closed, stop, queues, producer, router, others>>

\* One get_nowait() of _drain_psi(), _drain_warmstart() or _drain_initial_pose().
Drain(o) ==
  /\ operator[o].at = "drain"
  /\ LET q == operator[o].on IN
     IF queue[q] # <<>>
     THEN queue' = [queue EXCEPT ![q] = Tail(@)] /\ UNCHANGED operator
     ELSE /\ operator' = IF Following[q] = "end" THEN [operator EXCEPT ![o].at = "idle"]
                         ELSE [operator EXCEPT ![o].on = Following[q]]
          /\ UNCHANGED queue
  /\ UNCHANGED <<switch, stop, control, producer, router, others>>

Resume(o) ==
  /\ Calls(o) /\ ~closed
  /\ gate' = TRUE
  /\ UNCHANGED <<source, generation, closed, stop, queues, producer, operator, router, others>>

\* put_nowait() of a command.
SendControl(o) ==
  /\ Calls(o)
  /\ IF control < CtlDepth
     THEN control' = control + 1 /\ UNCHANGED operator
     ELSE operator' = [operator EXCEPT ![o].at = "evict"] /\ UNCHANGED control
  /\ UNCHANGED <<switch, stop, queue, producer, router, others>>

\* get_nowait() of the oldest command; its queue.Empty ends the call, uncaught.
ControlEvict(o) ==
  /\ operator[o].at = "evict"
  /\ control' = IF control > 0 THEN control - 1 ELSE 0
  /\ operator' = [operator EXCEPT ![o].at = IF control > 0 THEN "retry" ELSE "idle"]
  /\ UNCHANGED <<switch, stop, queue, producer, router, others>>

\* The second put_nowait(); its queue.Full ends the call, uncaught.
ControlRetry(o) ==
  /\ operator[o].at = "retry"
  /\ operator' = [operator EXCEPT ![o].at = "idle"]
  /\ control' = IF control < CtlDepth THEN control + 1 ELSE control
  /\ UNCHANGED <<switch, stop, queue, producer, router, others>>

\* The critical section; a second close() returns here.
Close(o) ==
  /\ Calls(o) /\ ~closed
  /\ closed' = TRUE /\ gate' = FALSE
  /\ operator' = [operator EXCEPT ![o].at = "shut"]
  /\ UNCHANGED <<source, generation, stop, queues, producer, router, others>>

CloseStop(o) ==
  /\ operator[o].at = "shut"
  /\ stop' = TRUE
  /\ operator' = [operator EXCEPT ![o].at = "join"]
  /\ UNCHANGED <<switch, queues, producer, router, others>>

\* The join; the router's steps are short against its three seconds.
CloseJoin(o) ==
  /\ operator[o].at = "join" /\ router.at = "done"
  /\ operator' = [operator EXCEPT ![o].at = "idle"]
  /\ UNCHANGED <<switch, stop, queues, producer, router, others>>

-----------------------------------------------------------------------------
(* _serve() *)

RouterGoto(step) == router' = [router EXCEPT !.at = step]

\* The loop's head and poll() : the VLA client has sent a message, or it has not.
RouterPoll ==
  /\ router.at = "poll"
  /\ IF stop THEN RouterGoto("done") ELSE RouterGoto("accept") \/ RouterGoto("control")
  /\ UNCHANGED <<switch, stop, queues, producer, operator, others>>

\* Mutant : a message of the VLA client is not held back by the gate.
RouterAccept_Ungated ==
  /\ router.at = "accept"
  /\ IF source = "groot" /\ ~closed
     THEN router' = [at |-> "send", on |-> "groot", gen |-> generation]
     ELSE RouterGoto("control")
  /\ UNCHANGED <<switch, stop, queues, producer, operator, others>>

\* _accept("groot").
RouterAccept ==
  /\ router.at = "accept"
  /\ IF gate /\ source = "groot" /\ ~closed
     THEN router' = [at |-> "send", on |-> "groot", gen |-> generation]
     ELSE RouterGoto("control")
  /\ UNCHANGED <<switch, stop, queues, producer, operator, others>>

\* Mutant : commands wait for the gate like everything else.
RouterControl_Gated ==
  /\ router.at = "control"
  /\ IF control > 0 /\ gate
     THEN control' = control - 1 /\ UNCHANGED router
     ELSE router' = [router EXCEPT !.at = "take", !.on = "psi"] /\ UNCHANGED control
  /\ UNCHANGED <<switch, stop, queue, producer, operator, others>>

\* One round of _forward_control(), which no gate holds back.
RouterControl ==
  /\ router.at = "control"
  /\ IF control > 0
     THEN control' = control - 1 /\ UNCHANGED router
     ELSE router' = [router EXCEPT !.at = "take", !.on = "psi"] /\ UNCHANGED control
  /\ UNCHANGED <<switch, stop, queue, producer, operator, others>>

\* get_nowait() of _forward_psi(), _forward_warmstart() or _forward_initial_pose().
RouterTake ==
  /\ router.at = "take"
  /\ LET q == router.on IN
     IF queue[q] # <<>>
     THEN /\ router' = [router EXCEPT !.at = "check", !.gen = Head(queue[q])]
          /\ queue' = [queue EXCEPT ![q] = Tail(@)]
     ELSE /\ IF Following[q] = "end" THEN RouterGoto("poll")
             ELSE router' = [router EXCEPT !.on = Following[q]]
          /\ UNCHANGED queue
  /\ UNCHANGED <<switch, stop, control, producer, operator, others>>

\* Mutant : the tag of the message is not compared.
RouterCheck_NoTag ==
  /\ router.at = "check"
  /\ RouterGoto(IF gate /\ source = router.on THEN "send" ELSE "take")
  /\ UNCHANGED <<switch, stop, queues, producer, operator, others>>

\* The critical section that accepts or drops the message in hand.
RouterCheck ==
  /\ router.at = "check"
  /\ RouterGoto(IF gate /\ source = router.on /\ router.gen = generation THEN "send" ELSE "take")
  /\ UNCHANGED <<switch, stop, queues, producer, operator, others>>

\* output.send(), after the lock is released, and _record().
RouterSend ==
  /\ router.at = "send"
  /\ RouterGoto(IF router.on = "groot" THEN "control" ELSE "take")
  /\ late' = [late EXCEPT ![router.gen] = IF router.gen = generation THEN @ ELSE @ + 1]
  /\ UNCHANGED <<switch, stop, queues, producer, operator, refused>>

-----------------------------------------------------------------------------

ProducerStep(p) == SubmitPut(p) \/ SubmitEvict(p) \/ SubmitRetry(p)
OperatorStep(o) == Drain(o) \/ ControlEvict(o) \/ ControlRetry(o) \/ CloseStop(o) \/ CloseJoin(o)
RouterStep == RouterPoll \/ RouterAccept \/ RouterControl \/ RouterTake \/ RouterCheck \/ RouterSend

OperatorCall(o) ==
  \/ \E s \in Sources : Select(o, s)
  \/ Halt(o) \/ Resume(o) \/ SendControl(o) \/ Close(o)

Next ==
  \/ \E p \in Producers : SubmitAccept(p) \/ ProducerStep(p)
  \/ \E o \in Operators : OperatorCall(o) \/ OperatorStep(o)
  \/ RouterStep

\* The router thread and a call or a submit under way keep running; nobody has
\* to make a call or to submit a message.
Fairness ==
  /\ \A p \in Producers : WF_vars(ProducerStep(p))
  /\ \A o \in Operators : WF_vars(OperatorStep(o))
  /\ WF_vars(RouterStep)

Spec == Init /\ [][Next]_vars
FairSpec == Spec /\ Fairness

-----------------------------------------------------------------------------
(* Properties *)

\* The router's promise : its output is the output of a port with one switch
\* and room for one message.
Hand == IF router.at = "send" THEN [from |-> router.on, epoch |-> router.gen]
        ELSE [from |-> "nobody", epoch |-> 0]

Port == INSTANCE ActionPort WITH epoch <- generation, slot <- Hand
IsPort == Port!PortSpec

\* A select() or a halt() cannot call back the message that the router has
\* accepted and not sent yet; of each generation that one message is all that
\* can leave afterwards, whatever is still queued or being submitted.
LateSendsOnce == \A g \in Gens : late[g] <= 1

\* While its generation lasts, a message leaves only from the selected source
\* and through the open gate (or in the middle of close()).
LeavesSelected ==
  [][router.at = "send" /\ router'.at # "send" /\ router.gen = generation
       => router.on = source /\ (gate \/ closed)]_vars

\* A queue with one producer always has room for the second put_nowait() :
\* submit_psi() does not raise queue.Full into the control loop.
PutNeverRaises == refused = {}

\* A SONIC manager command leaves even if the gate stays shut.
ControlLeaves == (control > 0 /\ []~gate) ~> (control = 0 \/ stop)

-----------------------------------------------------------------------------
(* What the source says and the code does not keep *)

\* ModelController.start() : select() "is the atomic generation change that hands the
\* SONIC action port to the policy, so no settle token can follow it".
NothingFollowsSelect ==
  [][router.at = "send" /\ router'.at # "send" => router.gen = generation]_vars
=============================================================================
