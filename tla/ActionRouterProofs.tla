------------------------- MODULE ActionRouterProofs -------------------------
(***************************************************************************)
(* Theorems about ActionRouter for any producers, any operators, any depth *)
(* of the queues and any number of generations : type correctness, that    *)
(* the router implements ActionPort, that at most one message of a         *)
(* generation leaves after it, that what leaves in time leaves from the    *)
(* selected source, and that with one producer to a queue the put after an *)
(* eviction always succeeds.                                               *)
(*                                                                         *)
(* The queues play no part in the arguments about what leaves : the tag    *)
(* test of RouterCheck is what the safety of a hand-off rests on, and the  *)
(* drains of select() and halt() only save the router work.                *)
(***************************************************************************)
EXTENDS ActionRouter, SequenceTheorems, TLAPS

USE RouterAssumption DEF Gens, Queued, Sources

-----------------------------------------------------------------------------
(* Type correctness *)

LEMMA TailTyped ==
  ASSUME NEW s \in Seq(Gens), s # <<>>
  PROVE  /\ Tail(s) \in Seq(Gens) /\ Head(s) \in Gens
         /\ Len(s) \in Nat \ {0} /\ Len(Tail(s)) = Len(s) - 1
  BY HeadTailProperties, EmptySeq

LEMMA FollowingTyped == \A q \in Queued : Following[q] \in Queued \cup {"end"}
  BY DEF Following

\* A queue that is replaced by a sequence of generations leaves the queues typed.
LEMMA QueueTyped ==
  ASSUME TypeOK, NEW q \in Queued, NEW s \in Seq(Gens), queue' = [queue EXCEPT ![q] = s]
  PROVE  queue' \in [Queued -> Seq(Gens)]
  BY DEF TypeOK

LEMMA TypeInit == Init => TypeOK
<1> SUFFICES ASSUME Init PROVE TypeOK OBVIOUS
<1>1. queue \in [Queued -> Seq(Gens)] BY DEF Init
<1>2. producer \in [Producers -> ProducerType] BY DEF Init, ProducerType
<1>3. operator \in [Operators -> OperatorType] BY DEF Init, OperatorType
<1>4. router \in RouterType BY DEF Init, RouterType
<1>5. late \in [Gens -> Nat] BY DEF Init
<1>6. control \in 0 .. CtlDepth /\ generation \in Gens /\ source \in Sources BY DEF Init
<1>7. gate \in BOOLEAN /\ closed \in BOOLEAN /\ stop \in BOOLEAN /\ refused \subseteq Producers
  BY DEF Init
<1> QED BY <1>1, <1>2, <1>3, <1>4, <1>5, <1>6, <1>7 DEF TypeOK

LEMMA TypeStep == TypeOK /\ [Next]_vars => TypeOK'
<1> SUFFICES ASSUME TypeOK, Next PROVE TypeOK'
  BY DEF TypeOK, vars
<1> USE DEF TypeOK, switch, queues, others
<1>1. ASSUME NEW p \in Producers, SubmitAccept(p) \/ ProducerStep(p) PROVE TypeOK'
  <2> USE DEF ProducerType
  <2>0. p[1] \in Queued BY RouterAssumption
  <2>1. CASE SubmitAccept(p) BY <2>1 DEF SubmitAccept
  <2>2. CASE SubmitPut(p)
    <3>1. queue' \in [Queued -> Seq(Gens)]
      <4>1. CASE UNCHANGED queue BY <4>1
      <4>2. CASE queue' = [queue EXCEPT ![p[1]] = Append(@, producer[p].gen)]
        <5>1. Append(queue[p[1]], producer[p].gen) \in Seq(Gens) BY <2>0
        <5> QED BY <2>0, <4>2, <5>1, QueueTyped
      <4> QED BY <2>2, <4>1, <4>2 DEF SubmitPut
    <3>2. producer' \in [Producers -> ProducerType]
      <4>1. PICK step \in {"idle", "evict"} : producer' = [producer EXCEPT ![p].at = step]
        BY <2>2 DEF SubmitPut
      <4>2. producer \in [Producers -> ProducerType] OBVIOUS
      <4>3. producer[p] \in ProducerType BY ONLY <4>2, p \in Producers
      <4>4. [producer[p] EXCEPT !.at = step] \in ProducerType
        BY ONLY <4>3, step \in {"idle", "evict"} DEF ProducerType
      <4> QED BY ONLY <4>1, <4>2, <4>4, p \in Producers
    <3> HIDE DEF ProducerType
    <3> QED BY <2>2, <3>1, <3>2 DEF SubmitPut
  <2>3. CASE SubmitEvict(p) BY <2>0, <2>3, TailTyped DEF SubmitEvict
  <2>4. CASE SubmitRetry(p)
    <3>1. queue' \in [Queued -> Seq(Gens)]
      <4>1. CASE UNCHANGED queue BY <4>1
      <4>2. CASE queue' = [queue EXCEPT ![p[1]] = Append(@, producer[p].gen)]
        <5>1. Append(queue[p[1]], producer[p].gen) \in Seq(Gens) BY <2>0
        <5> QED BY <2>0, <4>2, <5>1, QueueTyped
      <4> QED BY <2>4, <4>1, <4>2 DEF SubmitRetry
    <3>2. producer' \in [Producers -> ProducerType] BY <2>4 DEF SubmitRetry
    <3>3. refused' \subseteq Producers BY <2>4 DEF SubmitRetry
    <3> HIDE DEF ProducerType
    <3> QED BY <2>4, <3>1, <3>2, <3>3 DEF SubmitRetry
  <2> QED BY <1>1, <2>1, <2>2, <2>3, <2>4 DEF ProducerStep
<1>2. ASSUME NEW o \in Operators, OperatorCall(o) PROVE TypeOK'
  <2> USE DEF OperatorType, Drains
  <2>1. ASSUME NEW s \in Sources, Select(o, s) PROVE TypeOK'
    <3>1. operator' \in [Operators -> OperatorType] BY <2>1 DEF Select
    <3>2. generation' \in Gens BY <2>1 DEF Select
    <3> HIDE DEF OperatorType, Drains
    <3> QED BY <2>1, <3>1, <3>2 DEF Select
  <2>2. CASE Halt(o)
    <3>1. operator' \in [Operators -> OperatorType] BY <2>2 DEF Halt
    <3>2. generation' \in Gens BY <2>2 DEF Halt
    <3> HIDE DEF OperatorType, Drains
    <3> QED BY <2>2, <3>1, <3>2 DEF Halt
  <2>3. CASE Resume(o) BY <2>3 DEF Resume
  <2>4. CASE SendControl(o)
    <3>1. operator' \in [Operators -> OperatorType]
      <4>1. operator' = operator \/ operator' = [operator EXCEPT ![o].at = "evict"]
        BY ONLY <2>4 DEF SendControl
      <4>2. operator \in [Operators -> OperatorType] /\ operator[o] \in OperatorType OBVIOUS
      <4>3. [operator[o] EXCEPT !.at = "evict"] \in OperatorType BY ONLY <4>2 DEF OperatorType
      <4> QED BY ONLY <4>1, <4>2, <4>3, o \in Operators
    <3>2. control' \in 0 .. CtlDepth BY <2>4, RouterAssumption DEF SendControl
    <3> HIDE DEF OperatorType, Drains
    <3> QED BY <2>4, <3>1, <3>2 DEF SendControl
  <2>5. CASE Close(o) BY <2>5 DEF Close
  <2> QED BY <1>2, <2>1, <2>2, <2>3, <2>4, <2>5 DEF OperatorCall
<1>3. ASSUME NEW o \in Operators, OperatorStep(o) PROVE TypeOK'
  <2> USE DEF OperatorType
  <2>1. CASE Drain(o)
    <3> DEFINE q == operator[o].on
    <3>0. q \in Queued OBVIOUS
    <3>1. CASE queue[q] # <<>>
      <4>1. Tail(queue[q]) \in Seq(Gens) BY <3>0, <3>1, TailTyped
      <4>2. queue' = [queue EXCEPT ![q] = Tail(queue[q])] BY <2>1, <3>1 DEF Drain
      <4>3. queue' \in [Queued -> Seq(Gens)] BY <3>0, <4>1, <4>2, QueueTyped
      <4> QED BY <2>1, <3>1, <4>3 DEF Drain
    <3>2. CASE queue[q] = <<>>
      <4>1. \/ operator' = [operator EXCEPT ![o].at = "idle"]
            \/ Following[q] # "end" /\ operator' = [operator EXCEPT ![o].on = Following[q]]
        BY <2>1, <3>2 DEF Drain
      <4>2. operator \in [Operators -> OperatorType] /\ operator[o] \in OperatorType OBVIOUS
      <4>3. [operator[o] EXCEPT !.at = "idle"] \in OperatorType BY ONLY <4>2 DEF OperatorType
      <4>4. Following[q] # "end" => [operator[o] EXCEPT !.on = Following[q]] \in OperatorType
        BY ONLY <3>0, <4>2, FollowingTyped DEF OperatorType
      <4>5. operator' \in [Operators -> OperatorType] BY ONLY <4>1, <4>2, <4>3, <4>4, o \in Operators
      <4> HIDE DEF OperatorType
      <4> QED BY <2>1, <3>2, <4>5 DEF Drain
    <3> QED BY <3>1, <3>2
  <2>2. CASE CloseStop(o) BY <2>2 DEF CloseStop
  <2>3. CASE CloseJoin(o) BY <2>3 DEF CloseJoin
  <2>4. CASE ControlEvict(o)
    <3>1. operator' \in [Operators -> OperatorType] BY <2>4 DEF ControlEvict
    <3>2. control' \in 0 .. CtlDepth BY <2>4, RouterAssumption DEF ControlEvict
    <3> HIDE DEF OperatorType
    <3> QED BY <2>4, <3>1, <3>2 DEF ControlEvict
  <2>5. CASE ControlRetry(o)
    <3>1. operator' \in [Operators -> OperatorType] BY <2>5 DEF ControlRetry
    <3>2. control' \in 0 .. CtlDepth BY <2>5, RouterAssumption DEF ControlRetry
    <3> HIDE DEF OperatorType
    <3> QED BY <2>5, <3>1, <3>2 DEF ControlRetry
  <2> QED BY <1>3, <2>1, <2>2, <2>3, <2>4, <2>5 DEF OperatorStep
<1>4. CASE RouterStep
  <2> USE DEF RouterType, RouterGoto
  <2>1. CASE RouterPoll BY <2>1 DEF RouterPoll
  <2>2. CASE RouterAccept
    <3>1. router' \in RouterType
      <4>1. \/ router' = [at |-> "send", on |-> "groot", gen |-> generation]
            \/ router' = [router EXCEPT !.at = "control"]
        BY <2>2 DEF RouterAccept
      <4>2. generation \in Gens /\ router \in RouterType OBVIOUS
      <4> HIDE DEF TypeOK
      <4> QED BY <4>1, <4>2
    <3> HIDE DEF RouterType
    <3> QED BY <2>2, <3>1 DEF RouterAccept
  <2>3. CASE RouterControl
    <3>1. control' \in 0 .. CtlDepth BY <2>3 DEF RouterControl
    <3>2. router' \in RouterType BY <2>3 DEF RouterControl
    <3> HIDE DEF RouterType
    <3> QED BY <2>3, <3>1, <3>2 DEF RouterControl
  <2>4. CASE RouterTake
    <3> DEFINE q == router.on
    <3>0. q \in Queued BY <2>4 DEF RouterTake
    <3>1. CASE queue[q] # <<>>
      <4>1. Tail(queue[q]) \in Seq(Gens) /\ Head(queue[q]) \in Gens BY <3>0, <3>1, TailTyped
      <4>2. queue' = [queue EXCEPT ![q] = Tail(queue[q])] BY <2>4, <3>1 DEF RouterTake
      <4>3. queue' \in [Queued -> Seq(Gens)] BY <3>0, <4>1, <4>2, QueueTyped
      <4>4. router' = [router EXCEPT !.at = "check", !.gen = Head(queue[q])] BY <2>4, <3>1 DEF RouterTake
      <4>5. router' \in RouterType BY <2>4, <3>0, <4>1, <4>4 DEF RouterTake
      <4> HIDE DEF RouterType
      <4> QED BY <2>4, <4>3, <4>5 DEF RouterTake
    <3>2. CASE queue[q] = <<>>
      <4>1. \/ router' = [router EXCEPT !.at = "poll"]
            \/ Following[q] # "end" /\ router' = [router EXCEPT !.on = Following[q]]
        BY <2>4, <3>2 DEF RouterTake
      <4>2. router.at = "take" BY <2>4 DEF RouterTake
      <4>3. router' \in RouterType BY <3>0, <4>1, <4>2, FollowingTyped
      <4>4. UNCHANGED queue BY <2>4, <3>2 DEF RouterTake
      <4> HIDE DEF RouterType
      <4> QED BY <2>4, <4>3, <4>4 DEF RouterTake
    <3> QED BY <3>1, <3>2
  <2>5. CASE RouterCheck BY <2>5 DEF RouterCheck
  <2>6. CASE RouterSend
    <3>1. router' \in RouterType BY <2>6 DEF RouterSend
    <3>2. late' \in [Gens -> Nat] BY <2>6 DEF RouterSend
    <3> HIDE DEF RouterType
    <3> QED BY <2>6, <3>1, <3>2 DEF RouterSend
  <2> QED BY <1>4, <2>1, <2>2, <2>3, <2>4, <2>5, <2>6 DEF RouterStep
<1> QED BY <1>1, <1>2, <1>3, <1>4 DEF Next

\* Every variable keeps its type.
THEOREM TypeCorrect == Spec => []TypeOK
<1>1. Init => TypeOK BY TypeInit
<1>2. TypeOK /\ [Next]_vars => TypeOK' BY TypeStep
<1> QED BY <1>1, <1>2, PTL DEF Spec

-----------------------------------------------------------------------------
(* What leaves the router *)

\* The message the router has accepted belongs to a generation that has been
\* handed out; while that generation lasts, it comes from the selected source
\* and the gate has stayed open, unless close() shut it.
InHand ==
  router.at = "send" =>
    /\ router.gen <= generation
    /\ router.gen = generation => router.on = source /\ (gate \/ closed)

\* A generation that has sent a message late is over, and the router no longer
\* holds a message of it.
Counted ==
  \A g \in Gens : late[g] # 0 =>
    late[g] = 1 /\ g < generation /\ ~(router.at = "send" /\ router.gen = g)

RouterInv == TypeOK /\ InHand /\ Counted

LEMMA RouterInit == Init => RouterInv
  BY TypeInit DEF Init, RouterInv, InHand, Counted

\* Taking a generation makes whatever is in the router's hand late.
LEMMA RouterBump ==
  ASSUME RouterInv, TypeOK', UNCHANGED <<router, late, closed>>, generation' = generation + 1
  PROVE  RouterInv'
<1>1. router.gen \in Nat /\ generation \in Nat BY DEF RouterInv, TypeOK, RouterType
<1>2. router.at = "send" => router.gen < generation + 1 BY <1>1 DEF RouterInv, InHand
<1>3. InHand' BY <1>1, <1>2 DEF InHand
<1>4. Counted' BY <1>1 DEF RouterInv, Counted
<1> QED BY <1>3, <1>4 DEF RouterInv

\* Only the router's own steps and the steps on the switch disturb RouterInv.
LEMMA RouterFrame ==
  ASSUME RouterInv, TypeOK', UNCHANGED <<router, late, source, gate, generation, closed>>
  PROVE  RouterInv'
  BY DEF RouterInv, InHand, Counted

\* A router step that puts nothing new into the hand and sends nothing.
LEMMA RouterEmpty ==
  ASSUME RouterInv, TypeOK', UNCHANGED <<late, source, gate, generation, closed>>,
         router'.at # "send"
  PROVE  RouterInv'
  BY DEF RouterInv, InHand, Counted

LEMMA RouterKeeps == RouterInv /\ [Next]_vars => RouterInv'
<1> SUFFICES ASSUME RouterInv, [Next]_vars PROVE RouterInv'
  OBVIOUS
<1>0. TypeOK /\ TypeOK' BY TypeStep DEF RouterInv
<1> USE <1>0
<1>1. CASE UNCHANGED vars BY <1>1, RouterFrame DEF vars
<1>2. ASSUME NEW p \in Producers, SubmitAccept(p) \/ ProducerStep(p) PROVE RouterInv'
  BY <1>2, RouterFrame
     DEF SubmitAccept, ProducerStep, SubmitPut, SubmitEvict, SubmitRetry, switch, others
<1>3. ASSUME NEW o \in Operators, OperatorCall(o) PROVE RouterInv'
  <2>1. ASSUME NEW s \in Sources, Select(o, s) PROVE RouterInv'
    BY <2>1, RouterBump DEF Select, others
  <2>2. CASE Halt(o) BY <2>2, RouterBump DEF Halt, others
  <2>3. CASE Resume(o) BY <2>3 DEF Resume, RouterInv, InHand, Counted, others
  <2>4. CASE SendControl(o) BY <2>4, RouterFrame DEF SendControl, switch, others
  <2>5. CASE Close(o) BY <2>5 DEF Close, RouterInv, InHand, Counted, others
  <2> QED BY <1>3, <2>1, <2>2, <2>3, <2>4, <2>5 DEF OperatorCall
<1>4. ASSUME NEW o \in Operators, OperatorStep(o) PROVE RouterInv'
  BY <1>4, RouterFrame DEF OperatorStep, Drain, ControlEvict, ControlRetry, CloseStop, CloseJoin, switch, others
<1>5. CASE RouterStep
  <2> USE DEF RouterGoto, switch, others
  <2>1. CASE RouterPoll BY <2>1, RouterEmpty DEF RouterPoll, TypeOK, RouterType
  <2>2. CASE RouterAccept
    <3>1. CASE router'.at # "send" BY <2>2, <3>1, RouterEmpty DEF RouterAccept
    <3>2. CASE router' = [at |-> "send", on |-> "groot", gen |-> generation] /\ gate /\ source = "groot"
      BY <2>2, <3>2 DEF RouterAccept, RouterInv, InHand, Counted, TypeOK
    <3> QED BY <2>2, <3>1, <3>2 DEF RouterAccept, TypeOK, RouterType
  <2>3. CASE RouterControl BY <2>3, RouterEmpty DEF RouterControl, TypeOK, RouterType
  <2>4. CASE RouterTake BY <2>4, RouterEmpty DEF RouterTake, TypeOK, RouterType
  <2>5. CASE RouterCheck
    <3>1. CASE router'.at # "send" BY <2>5, <3>1, RouterEmpty DEF RouterCheck
    <3>2. CASE router' = [router EXCEPT !.at = "send"] /\ gate /\ source = router.on /\ router.gen = generation
      <4>1. UNCHANGED <<late, source, gate, generation, closed>> BY <2>5 DEF RouterCheck
      <4>2. router'.at = "send" /\ router'.on = source /\ router'.gen = generation
        BY ONLY <1>0, <3>2 DEF TypeOK, RouterType
      <4>3. generation \in Nat BY DEF TypeOK
      <4>4. InHand' BY ONLY <3>2, <4>1, <4>2, <4>3 DEF InHand
      <4>5. \A g \in Gens : late[g] # 0 => late[g] = 1 /\ g < generation BY DEF RouterInv, Counted
      <4>6. Counted' BY ONLY <4>1, <4>2, <4>3, <4>5 DEF Counted
      <4> QED BY <4>4, <4>6 DEF RouterInv
    <3> QED BY <2>5, <3>1, <3>2 DEF RouterCheck, TypeOK, RouterType
  <2>6. CASE RouterSend
    <3>1. router'.at # "send" /\ router.gen \in Gens BY <2>6 DEF RouterSend, TypeOK, RouterType
    <3>2. \A g \in Gens : late'[g] = IF g = router.gen /\ router.gen # generation THEN late[g] + 1 ELSE late[g]
      BY <2>6, <3>1 DEF RouterSend, TypeOK
    <3>3. router.at = "send" /\ router.gen <= generation /\ generation' = generation
      BY <2>6 DEF RouterSend, RouterInv, InHand
    <3>4. generation \in Nat BY DEF TypeOK
    <3>5. ASSUME NEW g \in Gens, late'[g] # 0 PROVE late'[g] = 1 /\ g < generation
      <4>1. late[g] \in Nat BY DEF TypeOK
      <4>2. CASE g = router.gen /\ router.gen # generation
        <5>1. late[g] = 0 BY <3>3, <4>2 DEF RouterInv, Counted
        <5> QED BY ONLY <3>1, <3>2, <3>3, <3>4, <4>2, <5>1
      <4>3. CASE ~(g = router.gen /\ router.gen # generation)
        BY <3>2, <3>5, <4>3 DEF RouterInv, Counted
      <4> QED BY <4>2, <4>3
    <3>6. InHand' BY <3>1 DEF InHand
    <3>7. Counted' BY <3>1, <3>3, <3>5 DEF Counted
    <3> QED BY <3>6, <3>7 DEF RouterInv
  <2> QED BY <1>5, <2>1, <2>2, <2>3, <2>4, <2>5, <2>6 DEF RouterStep
<1> QED BY <1>1, <1>2, <1>3, <1>4, <1>5 DEF Next

\* select() and halt() can be overtaken by one message of the generation they
\* end, and by no more (RouterCheck and RouterSend against the bump of _generation).
THEOREM LateOnce == Spec => []LateSendsOnce
<1>1. Init => RouterInv BY RouterInit
<1>2. RouterInv /\ [Next]_vars => RouterInv' BY RouterKeeps
<1>3. ASSUME RouterInv PROVE LateSendsOnce
  <2>1. \A g \in Gens : late[g] \in Nat BY <1>3 DEF RouterInv, TypeOK
  <2>2. \A g \in Gens : late[g] # 0 => late[g] = 1 BY <1>3 DEF RouterInv, Counted
  <2> QED BY ONLY <2>1, <2>2 DEF LateSendsOnce
<1> QED BY <1>1, <1>2, <1>3, PTL DEF Spec

\* While no select() or halt() intervenes, what _serve() sends comes from the
\* selected source and found the gate open.
THEOREM SelectedOnly == Spec => LeavesSelected
<1>1. Init => RouterInv BY RouterInit
<1>2. RouterInv /\ [Next]_vars => RouterInv' BY RouterKeeps
<1>3. RouterInv => (router.at = "send" /\ router'.at # "send" /\ router.gen = generation
                     => router.on = source /\ (gate \/ closed))
  BY DEF RouterInv, InHand
<1> QED BY <1>1, <1>2, <1>3, PTL DEF Spec, LeavesSelected

-----------------------------------------------------------------------------
(* The router implements the port *)

LEMMA PortStep == TypeOK /\ [Next]_vars => [Port!PortNext]_Port!portVars
<1> SUFFICES ASSUME TypeOK, [Next]_vars PROVE [Port!PortNext]_Port!portVars
  OBVIOUS
<1> USE DEF Port!portVars, Hand
<1>1. CASE UNCHANGED vars BY <1>1 DEF vars
<1>2. ASSUME NEW p \in Producers, SubmitAccept(p) \/ ProducerStep(p) PROVE UNCHANGED Port!portVars
  BY <1>2 DEF SubmitAccept, ProducerStep, SubmitPut, SubmitEvict, SubmitRetry, switch, others
<1>3. ASSUME NEW o \in Operators, OperatorCall(o) PROVE [Port!PortNext]_Port!portVars
  <2> USE DEF switch, others
  <2>1. ASSUME NEW s \in Sources, Select(o, s) PROVE Port!Select(s)
    BY <2>1 DEF Select, Port!Select
  <2>2. CASE Halt(o) BY <2>2 DEF Halt, Port!PortNext, Port!Halt
  <2>3. CASE Resume(o) BY <2>3 DEF Resume, Port!PortNext, Port!Resume
  <2>4. CASE SendControl(o) BY <2>4 DEF SendControl
  <2>5. CASE Close(o) BY <2>5 DEF Close, Port!PortNext, Port!Shut
  <2> QED BY <1>3, <2>1, <2>2, <2>3, <2>4, <2>5 DEF OperatorCall, Port!PortNext
<1>4. ASSUME NEW o \in Operators, OperatorStep(o) PROVE UNCHANGED Port!portVars
  BY <1>4 DEF OperatorStep, Drain, ControlEvict, ControlRetry, CloseStop, CloseJoin, switch, others
<1>5. CASE RouterStep
  <2> USE DEF RouterGoto, switch, others, Port!Empty
  <2>1. CASE RouterPoll BY <2>1 DEF RouterPoll, TypeOK, RouterType
  <2>2. CASE RouterAccept
    <3>1. CASE router' = [at |-> "send", on |-> "groot", gen |-> generation] /\ gate /\ source = "groot"
      BY <2>2, <3>1 DEF RouterAccept, Port!PortNext, Port!Take
    <3>2. CASE router' = [router EXCEPT !.at = "control"]
      BY <2>2, <3>2 DEF RouterAccept, TypeOK, RouterType
    <3> QED BY <2>2, <3>1, <3>2 DEF RouterAccept
  <2>3. CASE RouterControl BY <2>3 DEF RouterControl, TypeOK, RouterType
  <2>4. CASE RouterTake BY <2>4 DEF RouterTake, TypeOK, RouterType
  <2>5. CASE RouterCheck BY <2>5 DEF RouterCheck, TypeOK, RouterType, Port!PortNext, Port!Take
  <2>6. CASE RouterSend BY <2>6 DEF RouterSend, TypeOK, RouterType, Port!PortNext, Port!Emit
  <2> QED BY <1>5, <2>1, <2>2, <2>3, <2>4, <2>5, <2>6 DEF RouterStep
<1> QED BY <1>1, <1>2, <1>3, <1>4, <1>5 DEF Next

\* The socket's output is that of a port with one switch and room for one message.
THEOREM Implements == Spec => IsPort
<1>1. Init => Port!PortInit BY DEF Init, Port!PortInit, Port!Empty, Hand
<1>2. TypeOK /\ [Next]_vars => [Port!PortNext]_Port!portVars BY PortStep
<1> QED BY <1>1, <1>2, TypeCorrect, PTL DEF Spec, IsPort, Port!PortSpec

-----------------------------------------------------------------------------
(* One producer to a queue *)

OnePerQueue == \A p, r \in Producers : p[1] = r[1] => p = r

\* A producer that has evicted the oldest message finds room : only the producer
\* itself makes its queue longer.
Room ==
  /\ \A q \in Queued : Len(queue[q]) <= Depth
  /\ \A p \in Producers : producer[p].at = "retry" => Len(queue[p[1]]) < Depth

RoomInv == TypeOK /\ Room /\ refused = {}

\* A queue that only gets shorter keeps Room.
LEMMA RoomFrame ==
  ASSUME RoomInv, TypeOK', UNCHANGED <<producer, refused>>,
         \A q \in Queued : Len(queue'[q]) <= Len(queue[q])
  PROVE  RoomInv'
<1>1. \A q \in Queued : Len(queue'[q]) \in Nat /\ Len(queue[q]) \in Nat BY DEF RoomInv, TypeOK
<1>2. \A p \in Producers : p[1] \in Queued BY RouterAssumption
<1>3. \A q \in Queued : Len(queue[q]) <= Depth BY DEF RoomInv, Room
<1>4. \A q \in Queued : Len(queue'[q]) <= Depth BY <1>1, <1>3, RouterAssumption
<1>5. \A p \in Producers : producer'[p].at = "retry" => Len(queue[p[1]]) < Depth
  BY DEF RoomInv, Room
<1>6. \A p \in Producers : producer'[p].at = "retry" => Len(queue'[p[1]]) < Depth
  BY <1>1, <1>2, <1>5, RouterAssumption
<1> QED BY <1>4, <1>6 DEF RoomInv, Room

LEMMA RoomInit == Init => RoomInv
  BY TypeInit, RouterAssumption DEF Init, RoomInv, Room

LEMMA Grown ==
  ASSUME TypeOK, NEW g \in Gens, NEW q \in Queued, queue' = [queue EXCEPT ![q] = Append(@, g)]
  PROVE  \A r \in Queued : Len(queue'[r]) = IF r = q THEN Len(queue[r]) + 1 ELSE Len(queue[r])
<1>1. queue \in [Queued -> Seq(Gens)] BY DEF TypeOK
<1>2. \A s \in Seq(Gens) : Len(Append(s, g)) = Len(s) + 1 OBVIOUS
<1>3. \A r \in Queued : queue'[r] = IF r = q THEN Append(queue[r], g) ELSE queue[r] BY <1>1
<1> QED BY <1>1, <1>2, <1>3

LEMMA Shrunk ==
  ASSUME TypeOK, NEW q \in Queued, queue[q] # <<>>, queue' = [queue EXCEPT ![q] = Tail(@)]
  PROVE  \A r \in Queued : Len(queue'[r]) = IF r = q THEN Len(queue[r]) - 1 ELSE Len(queue[r])
<1>1. queue \in [Queued -> Seq(Gens)] BY DEF TypeOK
<1>2. Len(Tail(queue[q])) = Len(queue[q]) - 1 BY <1>1, TailTyped
<1>3. ASSUME NEW r \in Queued PROVE queue'[r] = IF r = q THEN Tail(queue[q]) ELSE queue[r]
  BY <1>1
<1>4. ASSUME NEW r \in Queued
      PROVE  Len(queue'[r]) = IF r = q THEN Len(queue[r]) - 1 ELSE Len(queue[r])
  <2>1. CASE r = q BY <1>2, <1>3, <2>1
  <2>2. CASE r # q BY <1>3, <2>2
  <2> QED BY <2>1, <2>2
<1> QED BY <1>4

LEMMA Lengths ==
  ASSUME TypeOK
  PROVE  /\ \A q \in Queued : Len(queue[q]) \in Nat
         /\ \A p \in Producers : p[1] \in Queued /\ producer[p] \in ProducerType
<1>1. \A p \in Producers : p[1] \in Queued BY RouterAssumption
<1> QED BY <1>1 DEF TypeOK

\* What a put, an eviction and a retry do to the queues' lengths.
LEMMA RoomSubmit ==
  ASSUME RoomInv, TypeOK', OnePerQueue, NEW p \in Producers, SubmitAccept(p) \/ ProducerStep(p)
  PROVE  RoomInv'
<1> DEFINE q == p[1]
<1>1. TypeOK /\ Room /\ refused = {} BY DEF RoomInv
<1>2. q \in Queued /\ producer[p].gen \in Gens BY <1>1, Lengths DEF ProducerType
<1>3. producer \in [Producers -> ProducerType] BY <1>1 DEF TypeOK
<1>4. CASE SubmitAccept(p)
  <2>1. \A r \in Producers : producer'[r].at = "retry" => producer[r].at = "retry"
    BY <1>3, <1>4 DEF SubmitAccept
  <2> QED BY <1>1, <1>4, <2>1 DEF SubmitAccept, RoomInv, Room, queues, others
<1>5. CASE SubmitPut(p) /\ Len(queue[q]) < Depth
  <2>1. \A r \in Queued : Len(queue'[r]) = IF r = q THEN Len(queue[r]) + 1 ELSE Len(queue[r])
    BY <1>1, <1>2, <1>5, Grown DEF SubmitPut
  <2>6. producer' = [producer EXCEPT ![p].at = "idle"] BY <1>5 DEF SubmitPut
  <2>2. \A r \in Producers : producer'[r].at = "retry" => r # p /\ producer[r].at = "retry"
    BY <1>3, <2>6 DEF ProducerType
  <2>3. \A r \in Producers : r # p => r[1] # q /\ r[1] \in Queued BY <1>1, Lengths DEF OnePerQueue
  <2>4. \A r \in Queued : Len(queue'[r]) <= Depth
    BY <1>1, <1>2, <1>5, <2>1, Lengths, RouterAssumption DEF Room
  <2>5. \A r \in Producers : producer'[r].at = "retry" => Len(queue'[r[1]]) < Depth
    BY <1>1, <2>1, <2>2, <2>3 DEF Room
  <2> QED BY <1>1, <1>5, <2>4, <2>5 DEF SubmitPut, RoomInv, Room, others
<1>6. CASE SubmitPut(p) /\ ~(Len(queue[q]) < Depth)
  <2>6. producer' = [producer EXCEPT ![p].at = "evict"] BY <1>6 DEF SubmitPut
  <2>1. \A r \in Producers : producer'[r].at = "retry" => producer[r].at = "retry"
    BY <1>3, <2>6 DEF ProducerType
  <2> QED BY <1>1, <1>6, <2>1 DEF SubmitPut, RoomInv, Room, others
<1>7. CASE SubmitEvict(p)
  <2>1. /\ Len(queue'[q]) < Depth
        /\ \A r \in Queued : r # q => queue'[r] = queue[r]
    <3>1. CASE queue[q] = <<>>
      <4>1. queue' = queue BY <1>1, <1>2, <1>7, <3>1 DEF SubmitEvict, TypeOK
      <4>2. Len(queue[q]) = 0 BY <3>1
      <4> QED BY <4>1, <4>2, RouterAssumption
    <3>2. CASE queue[q] # <<>>
      <4>1. queue' = [queue EXCEPT ![q] = Tail(@)] BY <1>7, <3>2 DEF SubmitEvict
      <4>2. Len(queue'[q]) = Len(queue[q]) - 1 BY <1>1, <1>2, <3>2, <4>1, Shrunk
      <4>3. Len(queue[q]) \in Nat /\ Len(queue[q]) <= Depth BY <1>1, <1>2, Lengths DEF Room
      <4>4. Len(queue'[q]) < Depth BY <4>2, <4>3, RouterAssumption
      <4>5. \A r \in Queued : r # q => queue'[r] = queue[r] BY <1>1, <4>1 DEF TypeOK
      <4> QED BY <4>4, <4>5
    <3> QED BY <3>1, <3>2
  <2>2. \A r \in Producers : r # p => producer'[r] = producer[r] /\ r[1] # q /\ r[1] \in Queued
    BY <1>1, <1>3, <1>7, Lengths DEF SubmitEvict, OnePerQueue
  <2>3. Len(queue'[q]) \in Nat BY <1>2 DEF TypeOK
  <2>4. Room' BY <1>1, <2>1, <2>2, <2>3, RouterAssumption DEF Room
  <2> QED BY <1>1, <1>7, <2>4 DEF SubmitEvict, RoomInv, others
<1>8. CASE SubmitRetry(p)
  <2>1. producer[p].at = "retry" /\ Len(queue[q]) < Depth BY <1>1, <1>8 DEF SubmitRetry, Room
  <2>2. \A r \in Queued : Len(queue'[r]) = IF r = q THEN Len(queue[r]) + 1 ELSE Len(queue[r])
    BY <1>1, <1>2, <1>8, <2>1, Grown DEF SubmitRetry
  <2>3. \A r \in Producers : producer'[r].at = "retry" => r # p /\ producer[r].at = "retry"
    BY <1>3, <1>8 DEF SubmitRetry
  <2>4. \A r \in Producers : r # p => r[1] # q /\ r[1] \in Queued BY <1>1, Lengths DEF OnePerQueue
  <2>5. \A r \in Queued : Len(queue'[r]) <= Depth
    BY <1>1, <1>2, <2>1, <2>2, Lengths, RouterAssumption DEF Room
  <2>7. \A r \in Producers : producer'[r].at = "retry" => Len(queue'[r[1]]) < Depth
    BY <1>1, <2>2, <2>3, <2>4 DEF Room
  <2>6. UNCHANGED refused BY <1>8, <2>1 DEF SubmitRetry
  <2> QED BY <1>1, <2>5, <2>6, <2>7 DEF RoomInv, Room
<1> QED BY <1>4, <1>5, <1>6, <1>7, <1>8 DEF ProducerStep

LEMMA RoomKeeps == OnePerQueue /\ RoomInv /\ [Next]_vars => RoomInv'
<1> SUFFICES ASSUME OnePerQueue, RoomInv, [Next]_vars PROVE RoomInv'
  OBVIOUS
<1>0. TypeOK /\ TypeOK' BY TypeStep DEF RoomInv
<1>1. CASE UNCHANGED vars BY <1>0, <1>1, RoomFrame DEF vars, TypeOK
<1>2. ASSUME NEW p \in Producers, SubmitAccept(p) \/ ProducerStep(p) PROVE RoomInv'
  BY <1>0, <1>2, RoomSubmit
<1>3. ASSUME NEW o \in Operators, OperatorCall(o) PROVE RoomInv'
  <2>1. UNCHANGED <<queue, producer, refused>>
    BY <1>3 DEF OperatorCall, Select, Halt, Resume, SendControl, Close, queues, others
  <2>2. \A q \in Queued : Len(queue[q]) \in Nat BY <1>0, Lengths
  <2> QED BY ONLY RoomInv, <1>0, <2>1, <2>2, RoomFrame
<1>4. ASSUME NEW o \in Operators, OperatorStep(o) PROVE RoomInv'
  <2>1. CASE UNCHANGED queue
    BY <1>0, <1>4, <2>1, RoomFrame DEF OperatorStep, Drain, ControlEvict, ControlRetry, CloseStop, CloseJoin, others, TypeOK
  <2>2. ASSUME NEW q \in Queued, queue[q] # <<>>, queue' = [queue EXCEPT ![q] = Tail(@)] PROVE RoomInv'
    <3>1. \A r \in Queued : Len(queue'[r]) <= Len(queue[r]) BY <1>0, <2>2, TailTyped DEF TypeOK
    <3> QED BY <1>0, <1>4, <3>1, RoomFrame DEF OperatorStep, Drain, ControlEvict, ControlRetry, CloseStop, CloseJoin, others
  <2> QED BY <1>0, <1>4, <2>1, <2>2
       DEF OperatorStep, Drain, ControlEvict, ControlRetry, CloseStop, CloseJoin, queues, TypeOK, OperatorType
<1>5. CASE RouterStep
  <2>1. CASE UNCHANGED queue
    BY <1>0, <1>5, <2>1, RoomFrame
       DEF RouterStep, RouterPoll, RouterAccept, RouterControl, RouterTake, RouterCheck, RouterSend, others, TypeOK
  <2>2. CASE RouterTake /\ queue[router.on] # <<>>
    <3>1. router.on \in Queued BY <1>0, <2>2 DEF RouterTake, TypeOK, RouterType
    <3>2. queue' = [queue EXCEPT ![router.on] = Tail(@)] BY <2>2 DEF RouterTake
    <3>3. \A r \in Queued : Len(queue'[r]) <= Len(queue[r])
      BY <1>0, <2>2, <3>1, <3>2, Shrunk, Lengths
    <3> QED BY <1>0, <2>2, <3>3, RoomFrame DEF RouterTake, others
  <2> QED BY <1>5, <2>1, <2>2
       DEF RouterStep, RouterPoll, RouterAccept, RouterControl, RouterTake, RouterCheck, RouterSend, queues
<1> QED BY <1>1, <1>2, <1>3, <1>4, <1>5 DEF Next

\* With one producer to a queue, submit_psi() and its siblings never raise
\* queue.Full : the second put_nowait() of _submit() finds the room it made.
THEOREM SubmitSucceeds ==
  ASSUME OnePerQueue
  PROVE  Spec => []PutNeverRaises
<1>1. Init => RoomInv BY RoomInit
<1>2. RoomInv /\ [Next]_vars => RoomInv' BY RoomKeeps
<1>3. RoomInv => PutNeverRaises BY DEF RoomInv, PutNeverRaises
<1> QED BY <1>1, <1>2, <1>3, PTL DEF Spec
=============================================================================
