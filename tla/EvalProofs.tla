----------------------------- MODULE EvalProofs -----------------------------
(***************************************************************************)
(* Theorems about the two components an evaluation is made with.           *)
(*                                                                         *)
(* EvalRuns, the service, for any runs, any capacity, any number of chunks *)
(* and of deaths of the process : type correctness, that the capacity is   *)
(* kept and every active run is somebody's, that the two models never      *)
(* share the GPU, and that the manifests on disk implement RunLifecycle.   *)
(* The inductive invariant follows a run from the request that creates it  *)
(* through the queue to the worker : its manifest in memory and on disk at *)
(* each of these places, and its mark in CANCELLED.                        *)
(*                                                                         *)
(* EvalStack and EvalRollout, the processes of a session and its driver :  *)
(* what a launcher that has cleaned up may leave behind, that a driver     *)
(* which leaves leaves no launcher, and no wrapper stops a job of a        *)
(* session at work.  The inductive invariant ties a live job to a wrapper  *)
(* at work and to no pidfile, because the pidfile comes later ; it says    *)
(* how far each step of the cleanup has brought a job it has not missed,   *)
(* and that docker is no longer about to start such a job.                 *)
(***************************************************************************)
EXTENDS EvalRuns, EvalRollout, FiniteSetTheorems, SequenceTheorems, TLAPS

-----------------------------------------------------------------------------
(* The evaluation service *)

USE EvalAssumption

-----------------------------------------------------------------------------
InQueue(r) == \E i \in 1 .. Len(queue) : queue[i] = r
InHand(r)  == worker.pc # "idle" /\ Job = r

\* What the request that creates run r has done to its manifest.
RequestInv(r) ==
  /\ request[r] \in {"new", "snapshot"} => memory[r] = Absent /\ disk[r] = Absent
  /\ request[r] = "inserted" => memory[r].status = "queued" /\ disk[r].status = "queued"
  /\ request[r] = "leaked" => memory[r].status = "queued" /\ disk[r].status \in {"none", "queued"}
  /\ InQueue(r) \/ InHand(r) => request[r] = "submitted"
  /\ InQueue(r) => /\ ~InHand(r)
                   /\ memory[r].status = "queued" /\ disk[r].status = "queued"

\* A mark in CANCELLED and the request to cancel in the manifest go together ; what the
\* disk has of it, the memory has.
MarkInv(r) ==
  /\ r \in cancelled => memory[r].asked
  /\ memory[r].status \in Active /\ memory[r].asked => r \in cancelled
  /\ Serving /\ disk[r].asked => memory[r].asked

OwnerInv(r) == Serving /\ memory[r].status \in Active =>
  request[r] \in {"inserted", "leaked"} \/ InQueue(r) \/ InHand(r)

\* The manifest of the job in hand, in memory and on disk.
JobInv ==
  worker.pc # "idle" =>
    /\ disk[Job].status \in Active
    /\ worker.pc \in {"check", "begin"} =>
         memory[Job].status = "queued" /\ disk[Job].status = "queued"
    /\ worker.pc \in {"unload", "reconstruct", "drop", "load", "chunk", "finish"} =>
         memory[Job].status = "running" /\ disk[Job].status = "running"
    /\ worker.pc = "close" =>
         \/ memory[Job].status = "cancelled" /\ memory[Job].asked
         \/ memory[Job].status = "completed" /\ ~memory[Job].asked /\ disk[Job].status = "running"
    /\ worker.pc = "failed" => memory[Job].status \in {"running", "completed", "cancelled"}
    /\ worker.pc = "report" => memory[Job].status = "failed"

QueueInv == \A i, j \in 1 .. Len(queue) : queue[i] = queue[j] => i = j

\* Which model may be on the GPU where the worker is.
GpuInv ==
  /\ GpuExclusive
  /\ worker.pc = "reconstruct" => policy # "loaded"
  /\ worker.pc = "load" => ~vae

\* A process that does not serve has nothing in hand, and takes what it has from the disk.
DownInv ==
  ~Serving =>
    /\ cancelled = {} /\ queue = <<>> /\ worker = Resting /\ vae = FALSE /\ policy = "none"
    /\ \A r \in Runs : /\ request[r] \in {"new", "refused"}
                       /\ memory[r] \in {Absent, disk[r]} /\ memory[r].status \notin Active

RunsInv ==
  /\ TypeOK /\ CapacityHolds /\ JobInv /\ QueueInv /\ GpuInv /\ DownInv
  /\ \A r \in Runs : RequestInv(r) /\ MarkInv(r) /\ OwnerInv(r)

-----------------------------------------------------------------------------
(* Manifests, and the runs that count as active *)

LEMMA ManifestTyped ==
  /\ Absent \in Manifests /\ Absent.status = "none" /\ ~Absent.asked
  /\ \A m \in Manifests :
       /\ m.status \in Active \union Ended \union {"none"} /\ m.asked \in BOOLEAN
       /\ m = [status |-> m.status, asked |-> m.asked]
       /\ \A s \in Active \union Ended : [m EXCEPT !.status = s] \in Manifests
       /\ \A a \in BOOLEAN : [m EXCEPT !.asked = a] \in Manifests
  BY DEF Manifests, Absent, Active, Ended

\* The runs that count as active are finitely many, and a step that makes none active
\* keeps the capacity.
LEMMA CapacityFrame ==
  ASSUME CapacityHolds,
         \A r \in Runs : memory'[r].status \in Active => memory[r].status \in Active
  PROVE  CapacityHolds'
<1>1. IsFiniteSet(ActiveRuns) /\ IsFiniteSet(ActiveRuns')
  BY FS_Subset DEF ActiveRuns
<1>2. ActiveRuns' \subseteq ActiveRuns BY DEF ActiveRuns
<1>3. Cardinality(ActiveRuns') <= Cardinality(ActiveRuns) BY <1>1, <1>2, FS_Subset
<1>4. Cardinality(ActiveRuns) \in Nat /\ Cardinality(ActiveRuns') \in Nat
  BY <1>1, FS_CardinalityType
<1> QED BY <1>3, <1>4 DEF CapacityHolds

\* A run that is entered below the capacity does not exceed it.
LEMMA CapacityGrows ==
  ASSUME NEW r \in Runs, ~Full,
         \A q \in Runs \ {r} : memory'[q].status \in Active => memory[q].status \in Active
  PROVE  CapacityHolds'
<1>1. IsFiniteSet(ActiveRuns) /\ IsFiniteSet(ActiveRuns') /\ IsFiniteSet(ActiveRuns \union {r})
  BY FS_Subset, FS_AddElement DEF ActiveRuns
<1>2. ActiveRuns' \subseteq ActiveRuns \union {r} BY DEF ActiveRuns
<1>3. Cardinality(ActiveRuns') <= Cardinality(ActiveRuns \union {r})
  BY <1>1, <1>2, FS_Subset
<1>4. Cardinality(ActiveRuns \union {r}) <= Cardinality(ActiveRuns) + 1
  BY <1>1, FS_AddElement, FS_CardinalityType
<1>5. /\ Cardinality(ActiveRuns) \in Nat /\ Cardinality(ActiveRuns') \in Nat
      /\ Cardinality(ActiveRuns \union {r}) \in Nat
  BY <1>1, FS_CardinalityType
<1> QED BY <1>3, <1>4, <1>5 DEF Full, CapacityHolds

-----------------------------------------------------------------------------
LEMMA RunsInit == Init => RunsInv
<1> SUFFICES ASSUME Init PROVE RunsInv OBVIOUS
<1>1. TypeOK
  <2>1. memory \in [Runs -> Manifests] /\ disk \in [Runs -> Manifests]
    BY ManifestTyped DEF Init
  <2>2. worker \in [run : Runs \union {"none"}, pc : Places, chunk : 0 .. Chunks]
    BY DEF Init, Resting, Places
  <2>3. queue \in Seq(Runs) /\ cancelled \subseteq PolicyRuns BY EmptySeq DEF Init
  <2>4. 0 \in 0 .. MaxCrashes BY SMT
  <2> QED BY <2>1, <2>2, <2>3, <2>4 DEF Init, TypeOK, Resting
<1>2. CapacityHolds
  <2>1. ActiveRuns = {} BY DEF Init, ActiveRuns, Absent, Active
  <2> QED BY <2>1, FS_EmptySet DEF CapacityHolds
<1>3. JobInv /\ QueueInv /\ GpuInv /\ DownInv
  BY DEF Init, JobInv, QueueInv, GpuInv, GpuExclusive, DownInv, Resting, Serving
<1>4. \A r \in Runs : RequestInv(r) /\ MarkInv(r) /\ OwnerInv(r)
  BY DEF Init, RequestInv, MarkInv, OwnerInv, InQueue, InHand, Resting, Absent, Active
<1> QED BY <1>1, <1>2, <1>3, <1>4 DEF RunsInv

\* What a step leaves of the invariant for a run it does not touch.
LEMMA RunFrame ==
  ASSUME NEW r \in Runs, RequestInv(r), MarkInv(r), OwnerInv(r),
         memory'[r] = memory[r], disk'[r] = disk[r], request'[r] = request[r], server' = server,
         (r \in cancelled)' <=> r \in cancelled,
         InQueue(r)' <=> InQueue(r), InHand(r)' <=> InHand(r)
  PROVE  RequestInv(r)' /\ MarkInv(r)' /\ OwnerInv(r)'
  BY DEF RequestInv, MarkInv, OwnerInv, Serving

-----------------------------------------------------------------------------
(* A step of the worker on its job *)

\* The manifest of the job becomes m in memory, and perhaps on disk ; the job stays in
\* hand, or it has ended and is let go with its mark.
JobStep(m) ==
  /\ Serving /\ worker.pc # "idle" /\ UNCHANGED <<server, request, queue, crashes>>
  /\ m \in Manifests /\ m.asked = memory[Job].asked /\ m.status # "none"
  /\ m.status \in Active => memory[Job].status \in Active
  /\ memory' = [memory EXCEPT ![Job] = m]
  /\ disk' = disk \/ disk' = [disk EXCEPT ![Job] = m]
  /\ \/ /\ worker'.run = Job /\ worker'.pc \in Places \ {"idle"} /\ worker'.chunk \in 0 .. Chunks
        /\ worker' = [run |-> worker'.run, pc |-> worker'.pc, chunk |-> worker'.chunk]
        /\ cancelled' = cancelled
     \/ worker' = Resting /\ m.status \in Ended /\ cancelled' = cancelled \ {Job}
  /\ vae' \in BOOLEAN /\ policy' \in {"none", "loaded", "emptied"}

LEMMA JobStepKeeps ==
  ASSUME RunsInv, NEW m, JobStep(m)
  PROVE  /\ TypeOK' /\ CapacityHolds' /\ QueueInv' /\ DownInv'
         /\ \A r \in Runs : RequestInv(r)' /\ MarkInv(r)' /\ OwnerInv(r)'
<1> USE DEF JobStep
<1>0. TypeOK /\ Job \in Runs /\ memory \in [Runs -> Manifests] /\ disk \in [Runs -> Manifests]
  BY DEF RunsInv, TypeOK
<1>1. /\ memory'[Job] = m /\ disk'[Job] \in {disk[Job], m}
      /\ \A r \in Runs : r # Job => memory'[r] = memory[r] /\ disk'[r] = disk[r]
  BY <1>0
<1>2. memory' \in [Runs -> Manifests] /\ disk' \in [Runs -> Manifests] BY <1>0
<1>3. Active \intersect Ended = {} BY DEF Active, Ended
<1>4. TypeOK'
  <2>1. worker' \in [run : Runs \union {"none"}, pc : Places, chunk : 0 .. Chunks]
    BY <1>0 DEF Resting, Places
  <2>2. worker'.pc # "idle" => Job' \in Runs /\ memory'[Job'].status # "none"
    BY <1>0, <1>1 DEF Resting, Job
  <2> QED BY <1>0, <1>2, <2>1, <2>2 DEF TypeOK
<1>5. CapacityHolds'
  BY <1>1, CapacityFrame DEF RunsInv
<1>6. QueueInv' /\ DownInv' BY DEF RunsInv, QueueInv, DownInv, Serving
<1>7. ASSUME NEW r \in Runs PROVE RequestInv(r)' /\ MarkInv(r)' /\ OwnerInv(r)'
  <2>0. RequestInv(r) /\ MarkInv(r) /\ OwnerInv(r) BY DEF RunsInv
  <2>1. InQueue(r)' <=> InQueue(r) BY DEF InQueue
  <2>2. CASE r # Job
    <3>1. InHand(r)' <=> InHand(r) BY <2>2 DEF InHand, Resting, Job
    <3>2. (r \in cancelled)' <=> r \in cancelled BY <2>2
    <3> QED BY <1>1, <2>0, <2>1, <2>2, <3>1, <3>2, RunFrame
  <2>3. CASE r = Job
    <3>1. InHand(r) /\ ~InQueue(r) /\ request[r] = "submitted"
      BY <2>0, <2>3 DEF InHand, RequestInv
    <3>2. RequestInv(r)' BY <2>1, <3>1 DEF RequestInv
    <3>3. MarkInv(r)' BY <1>1, <1>3, <2>0, <2>3 DEF MarkInv, Serving
    <3>4. OwnerInv(r)' BY <1>1, <1>3, <2>3 DEF OwnerInv, InHand, Job
    <3> QED BY <3>2, <3>3, <3>4
  <2> QED BY <2>2, <2>3
<1> QED BY <1>4, <1>5, <1>6, <1>7

\* The steps of the worker that leave the job in hand, one by one.
LEMMA LogThenStep ==
  ASSUME RunsInv, NEW place \in Places \ {"idle"}, LogThen(place),
         Serving, worker.pc # "idle", UNCHANGED <<server, request, memory, cancelled, queue, crashes>>,
         vae' \in BOOLEAN, policy' \in {"none", "loaded", "emptied"}
  PROVE  /\ JobStep(memory[Job])
         /\ worker'.run = Job /\ worker'.pc \in {place, "failed"}
         /\ disk'[Job] \in {disk[Job], memory[Job]}
<1>0. TypeOK /\ Job \in Runs /\ memory[Job] \in Manifests /\ memory[Job].status # "none"
  BY DEF RunsInv, TypeOK
<1>1. worker \in [run : Runs \union {"none"}, pc : Places, chunk : 0 .. Chunks]
  BY <1>0 DEF TypeOK
<1>2. PICK ok \in BOOLEAN : SaveRun(Job, memory[Job], ok) /\ Goto(IF ok THEN place ELSE "failed")
  BY DEF LogThen
<1>3. /\ worker'.run = Job /\ worker'.pc \in {place, "failed"} /\ worker'.chunk \in 0 .. Chunks
      /\ worker' = [run |-> worker'.run, pc |-> worker'.pc, chunk |-> worker'.chunk]
  BY <1>1, <1>2 DEF Goto, Job
<1>4. disk' = disk \/ disk' = [disk EXCEPT ![Job] = memory[Job]] BY <1>2 DEF SaveRun
<1>5. disk'[Job] \in {disk[Job], memory[Job]} BY <1>0, <1>4 DEF TypeOK
<1>6. memory' = [memory EXCEPT ![Job] = memory[Job]] BY <1>0 DEF TypeOK
<1> QED BY <1>0, <1>3, <1>4, <1>5, <1>6 DEF JobStep, Places

LEMMA GotoStep ==
  ASSUME RunsInv, NEW place \in Places \ {"idle"}, Goto(place), Serving, worker.pc # "idle",
         NEW m \in Manifests, m.asked = memory[Job].asked, m.status # "none",
         m.status \in Active => memory[Job].status \in Active,
         memory' = [memory EXCEPT ![Job] = m],
         UNCHANGED <<server, request, disk, cancelled, queue, crashes>>,
         vae' \in BOOLEAN, policy' \in {"none", "loaded", "emptied"}
  PROVE  JobStep(m) /\ worker'.run = Job /\ worker'.pc = place /\ memory'[Job] = m
<1>0. TypeOK /\ Job \in Runs BY DEF RunsInv, TypeOK
<1>1. worker \in [run : Runs \union {"none"}, pc : Places, chunk : 0 .. Chunks]
  BY <1>0 DEF TypeOK
<1>2. /\ worker'.run = Job /\ worker'.pc = place /\ worker'.chunk \in 0 .. Chunks
      /\ worker' = [run |-> worker'.run, pc |-> worker'.pc, chunk |-> worker'.chunk]
  BY <1>1 DEF Goto, Job
<1>3. memory'[Job] = m BY <1>0 DEF TypeOK
<1> QED BY <1>2, <1>3 DEF JobStep

LEMMA WorkerKeeps ==
  ASSUME RunsInv, WorkerStep, ~TakeJob
  PROVE  (\E m : JobStep(m)) /\ JobInv' /\ GpuInv'
<1>0. /\ TypeOK /\ JobInv /\ GpuInv /\ vae \in BOOLEAN /\ policy \in {"none", "loaded", "emptied"}
      /\ memory \in [Runs -> Manifests] /\ disk \in [Runs -> Manifests]
  BY DEF RunsInv, TypeOK
<1>1. worker.pc # "idle" => /\ Job \in Runs /\ memory[Job] \in Manifests
                            /\ memory[Job].status # "none" /\ MarkInv(Job)
                            /\ memory' = memory => memory' = [memory EXCEPT ![Job] = memory[Job]]
  BY DEF RunsInv, TypeOK
<1> USE DEF At, Places
<1>2. CASE Check
  <2>1. CASE Job \in cancelled
    <3> DEFINE m == [memory[Job] EXCEPT !.status = "cancelled"]
    <3>1. m \in Manifests /\ m.status = "cancelled" /\ m.asked = memory[Job].asked /\ m.asked
      BY <1>1, <1>2, <2>1, ManifestTyped DEF Check, MarkInv, Ended, Manifests
    <3>2. memory' = [memory EXCEPT ![Job] = m] BY <1>2, <2>1 DEF Check
    <3>3. "cancelled" \notin Active /\ "cancelled" # "none" BY DEF Active
    <3> HIDE DEF m
    <3>4. JobStep(m) /\ worker'.run = Job /\ worker'.pc = "close" /\ memory'[Job] = m
      BY <1>0, <1>2, <2>1, <3>1, <3>2, <3>3, GotoStep DEF Check
    <3>5. JobInv' BY <1>0, <1>2, <3>1, <3>4 DEF JobInv, Job, Check
    <3> QED BY <1>0, <1>2, <3>4, <3>5 DEF GpuInv, GpuExclusive, Check
  <2>2. CASE Job \notin cancelled
    <3>1. JobStep(memory[Job]) /\ worker'.run = Job /\ worker'.pc = "begin"
      BY <1>0, <1>1, <1>2, <2>2, GotoStep DEF Check
    <3>2. JobInv' BY <1>0, <1>2, <2>2, <3>1 DEF JobInv, Job, Check
    <3> QED BY <1>0, <1>2, <3>1, <3>2 DEF GpuInv, GpuExclusive, Check
  <2> QED BY <2>1, <2>2
<1>3. CASE Begin
  <2> DEFINE m == [memory[Job] EXCEPT !.status = "running"]
  <2>1. PICK ok \in BOOLEAN :
          /\ Store(Job, m, ok)
          /\ Goto(IF ~ok THEN "failed" ELSE IF Job \in PolicyRuns THEN "drop" ELSE "unload")
    BY <1>3 DEF Begin
  <2>2. m \in Manifests /\ m.status = "running" /\ m.asked = memory[Job].asked
    BY <1>1, <1>3, ManifestTyped DEF Begin, Active, Manifests
  <2>3. memory[Job].status \in Active /\ "running" \in Active BY <1>0, <1>3 DEF Begin, JobInv, Active
  <2> HIDE DEF m
  <2>4. worker \in [run : Runs \union {"none"}, pc : Places, chunk : 0 .. Chunks]
    BY <1>0 DEF TypeOK
  <2>5. /\ worker'.run = Job /\ worker'.chunk \in 0 .. Chunks
        /\ worker'.pc = IF ~ok THEN "failed" ELSE IF Job \in PolicyRuns THEN "drop" ELSE "unload"
        /\ worker' = [run |-> worker'.run, pc |-> worker'.pc, chunk |-> worker'.chunk]
    BY <2>1, <2>4 DEF Goto, Job
  <2>6. memory'[Job] = m /\ disk'[Job] = IF ok THEN m ELSE disk[Job]
    BY <1>0, <1>1, <1>3, <2>1 DEF Store, SaveRun, Begin
  <2>7. JobStep(m) BY <1>0, <1>3, <2>1, <2>2, <2>3, <2>5 DEF JobStep, Begin, Store, SaveRun
  <2>8. JobInv' BY <1>0, <1>3, <2>2, <2>3, <2>5, <2>6 DEF JobInv, Job, Begin
  <2> QED BY <1>0, <1>3, <2>5, <2>7, <2>8 DEF GpuInv, GpuExclusive, Begin
<1>4. CASE UnloadPolicy
  <2>1. CASE policy' = "none" /\ LogThen("reconstruct")
    <3>1. /\ JobStep(memory[Job]) /\ worker'.run = Job /\ worker'.pc \in {"reconstruct", "failed"}
          /\ disk'[Job] \in {disk[Job], memory[Job]}
      BY <1>0, <1>4, <2>1, LogThenStep DEF UnloadPolicy
    <3>2. JobInv' BY <1>0, <1>4, <3>1 DEF JobInv, Job, UnloadPolicy, Active
    <3> QED BY <1>4, <2>1, <3>1, <3>2 DEF GpuInv, GpuExclusive, UnloadPolicy
  <2>2. CASE policy' = "emptied" /\ Goto("failed") /\ UNCHANGED disk
    <3>1. JobStep(memory[Job]) /\ worker'.run = Job /\ worker'.pc = "failed"
      BY <1>0, <1>1, <1>4, <2>2, GotoStep DEF UnloadPolicy
    <3>2. JobInv' BY <1>0, <1>4, <2>2, <3>1 DEF JobInv, Job, UnloadPolicy, Active
    <3> QED BY <1>4, <2>2, <3>1, <3>2 DEF GpuInv, GpuExclusive, UnloadPolicy
  <2> QED BY <1>4, <2>1, <2>2 DEF UnloadPolicy, Unload
<1>5. CASE Reconstruct
  <2>0. policy # "loaded" /\ vae' \in BOOLEAN BY <1>0, <1>5 DEF GpuInv, Reconstruct
  <2>1. CASE LogThen("finish")
    <3>1. /\ JobStep(memory[Job]) /\ worker'.run = Job /\ worker'.pc \in {"finish", "failed"}
          /\ disk'[Job] \in {disk[Job], memory[Job]}
      BY <1>0, <1>5, <2>0, <2>1, LogThenStep DEF Reconstruct
    <3>2. JobInv' BY <1>0, <1>5, <3>1 DEF JobInv, Job, Reconstruct, Active
    <3> QED BY <1>5, <2>0, <3>1, <3>2 DEF GpuInv, GpuExclusive, Reconstruct
  <2>2. CASE Goto("failed") /\ UNCHANGED disk
    <3>1. JobStep(memory[Job]) /\ worker'.run = Job /\ worker'.pc = "failed"
      BY <1>0, <1>1, <1>5, <2>0, <2>2, GotoStep DEF Reconstruct
    <3>2. JobInv' BY <1>0, <1>5, <2>2, <3>1 DEF JobInv, Job, Reconstruct, Active
    <3> QED BY <1>5, <2>0, <3>1, <3>2 DEF GpuInv, GpuExclusive, Reconstruct
  <2> QED BY <1>5, <2>1, <2>2 DEF Reconstruct
<1>6. CASE Finish
  <2> DEFINE s == IF Job \in cancelled THEN "cancelled" ELSE "completed"
  <2> DEFINE m == [memory[Job] EXCEPT !.status = s]
  <2>1. m \in Manifests /\ m.status = s /\ m.asked = memory[Job].asked
    BY <1>1, <1>6, ManifestTyped DEF Finish, Ended, Manifests
  <2>2. s \notin Active /\ s # "none" BY DEF Active
  <2>3. memory' = [memory EXCEPT ![Job] = m] BY <1>6 DEF Finish
  <2>4. m.asked <=> Job \in cancelled
    BY <1>0, <1>1, <1>6, <2>1 DEF Finish, MarkInv, JobInv, Active
  <2>5. s = IF Job \in cancelled THEN "cancelled" ELSE "completed" OBVIOUS
  <2> HIDE DEF m, s
  <2>6. JobStep(m) /\ worker'.run = Job /\ worker'.pc = "close" /\ memory'[Job] = m
    BY <1>0, <1>6, <2>1, <2>2, <2>3, GotoStep DEF Finish
  <2>7. JobInv' BY <1>0, <1>6, <2>1, <2>4, <2>5, <2>6 DEF JobInv, Job, Finish
  <2> QED BY <1>0, <1>6, <2>6, <2>7 DEF GpuInv, GpuExclusive, Finish
<1>7. CASE Close
  <2>1. CASE Goto("failed") /\ UNCHANGED <<disk, cancelled>>
    <3>1. JobStep(memory[Job]) /\ worker'.run = Job /\ worker'.pc = "failed"
      BY <1>0, <1>1, <1>7, <2>1, GotoStep DEF Close
    <3>2. JobInv' BY <1>0, <1>7, <2>1, <3>1 DEF JobInv, Job, Close
    <3> QED BY <1>0, <1>7, <3>1, <3>2 DEF GpuInv, GpuExclusive, Close
  <2>2. CASE /\ SaveRun(Job, memory[Job], TRUE) /\ worker' = Resting
             /\ cancelled' = cancelled \ {Job}
    <3>1. JobStep(memory[Job])
      BY <1>0, <1>1, <1>7, <2>2 DEF Close, JobStep, SaveRun, JobInv, Ended, Active
    <3>2. worker'.pc = "idle" BY <2>2 DEF Resting
    <3> QED BY <1>0, <1>7, <3>1, <3>2 DEF JobInv, GpuInv, GpuExclusive, Close
  <2> QED BY <1>7, <2>1, <2>2 DEF Close
<1>8. CASE DropBackends
  <2>1. /\ JobStep(memory[Job]) /\ worker'.run = Job /\ worker'.pc \in {"load", "failed"}
        /\ disk'[Job] \in {disk[Job], memory[Job]}
    BY <1>0, <1>8, LogThenStep DEF DropBackends
  <2>2. JobInv' BY <1>0, <1>8, <2>1 DEF JobInv, Job, DropBackends, Active
  <2> QED BY <1>8, <2>1, <2>2 DEF GpuInv, GpuExclusive, DropBackends
<1>9. CASE LoadPolicy
  <2>0. ~vae /\ ~vae' BY <1>0, <1>9 DEF GpuInv, LoadPolicy
  <2>1. CASE policy' = (IF policy = "none" THEN "loaded" ELSE policy) /\ LogThen("chunk")
    <3>1. /\ JobStep(memory[Job]) /\ worker'.run = Job /\ worker'.pc \in {"chunk", "failed"}
          /\ disk'[Job] \in {disk[Job], memory[Job]}
      BY <1>0, <1>9, <2>1, LogThenStep DEF LoadPolicy
    <3>2. JobInv' BY <1>0, <1>9, <3>1 DEF JobInv, Job, LoadPolicy, Active
    <3> QED BY <2>0, <3>1, <3>2 DEF GpuInv, GpuExclusive
  <2>2. CASE Goto("failed") /\ UNCHANGED <<policy, disk>>
    <3>1. JobStep(memory[Job]) /\ worker'.run = Job /\ worker'.pc = "failed"
      BY <1>0, <1>1, <1>9, <2>2, GotoStep DEF LoadPolicy
    <3>2. JobInv' BY <1>0, <1>9, <2>2, <3>1 DEF JobInv, Job, LoadPolicy, Active
    <3> QED BY <2>0, <3>1, <3>2 DEF GpuInv, GpuExclusive
  <2> QED BY <1>9, <2>1, <2>2 DEF LoadPolicy
<1>10. CASE Chunk
  <2>1. ASSUME NEW place \in {"finish", "failed"}, Goto(place), UNCHANGED disk
        PROVE  (\E m : JobStep(m)) /\ JobInv' /\ GpuInv'
    <3>1. JobStep(memory[Job]) /\ worker'.run = Job /\ worker'.pc = place
      BY <1>0, <1>1, <1>10, <2>1, GotoStep DEF Chunk
    <3>2. JobInv' BY <1>0, <1>10, <2>1, <3>1 DEF JobInv, Job, Chunk, Active
    <3> QED BY <1>0, <1>10, <3>1, <3>2 DEF GpuInv, GpuExclusive, Chunk
  <2>2. CASE /\ worker.chunk # Chunks /\ SaveRun(Job, memory[Job], TRUE)
             /\ worker' = [worker EXCEPT !.chunk = @ + 1]
    <3>1. worker \in [run : Runs \union {"none"}, pc : Places, chunk : 0 .. Chunks]
      BY <1>0 DEF TypeOK
    <3>2. /\ worker'.run = Job /\ worker'.pc = "chunk" /\ worker'.chunk \in 0 .. Chunks
          /\ worker' = [run |-> worker'.run, pc |-> worker'.pc, chunk |-> worker'.chunk]
      BY <1>10, <2>2, <3>1 DEF Chunk, Job
    <3>3. disk' = [disk EXCEPT ![Job] = memory[Job]] /\ disk'[Job] = memory[Job]
      BY <1>0, <1>1, <1>10, <2>2 DEF SaveRun, Chunk
    <3>4. JobStep(memory[Job])
      BY <1>0, <1>1, <1>10, <2>2, <3>2, <3>3 DEF JobStep, Chunk
    <3>5. JobInv' BY <1>0, <1>10, <3>2, <3>3 DEF JobInv, Job, Chunk, Active
    <3> QED BY <1>0, <1>10, <3>2, <3>4, <3>5 DEF GpuInv, GpuExclusive, Chunk
  <2> QED BY <1>10, <2>1, <2>2 DEF Chunk
<1>11. CASE Fail
  <2> DEFINE m == [memory[Job] EXCEPT !.status = "failed"]
  <2>1. m \in Manifests /\ m.status = "failed" /\ m.asked = memory[Job].asked
    BY <1>1, <1>11, ManifestTyped DEF Fail, Ended, Manifests
  <2>2. memory' = [memory EXCEPT ![Job] = m] BY <1>11 DEF Fail
  <2>3. "failed" \notin Active /\ "failed" # "none" BY DEF Active
  <2> HIDE DEF m
  <2>4. JobStep(m) /\ worker'.run = Job /\ worker'.pc = "report" /\ memory'[Job] = m
    BY <1>0, <1>11, <2>1, <2>2, <2>3, GotoStep DEF Fail
  <2>5. JobInv' BY <1>0, <1>11, <2>1, <2>4 DEF JobInv, Job, Fail
  <2> QED BY <1>0, <1>11, <2>4, <2>5 DEF GpuInv, GpuExclusive, Fail
<1>12. CASE Report
  <2>1. policy' \in {policy, "none", "emptied"} /\ vae' = vae
    BY <1>12 DEF Report, Unload
  <2>2. disk' = disk \/ disk' = [disk EXCEPT ![Job] = memory[Job]] BY <1>12 DEF Report, SaveRun
  <2>3. JobStep(memory[Job])
    BY <1>0, <1>1, <1>12, <2>1, <2>2 DEF Report, JobStep, JobInv, Ended, Active
  <2>4. worker'.pc = "idle" BY <1>12 DEF Report, Resting
  <2> QED BY <1>0, <2>1, <2>3, <2>4 DEF JobInv, GpuInv, GpuExclusive
<1> QED BY <1>2, <1>3, <1>4, <1>5, <1>6, <1>7, <1>8, <1>9, <1>10, <1>11, <1>12 DEF WorkerStep

-----------------------------------------------------------------------------
(* The requests, and the worker taking a job *)

\* What the handler of one run leaves of the invariant for the others and for the worker.
LEMMA HandlerFrame ==
  ASSUME RunsInv, Serving, NEW r \in Runs, UNCHANGED <<server, worker, vae, policy, crashes>>,
         \A q \in Runs \ {r} :
           /\ memory'[q] = memory[q] /\ disk'[q] = disk[q] /\ request'[q] = request[q]
           /\ (q \in cancelled)' <=> q \in cancelled
           /\ InQueue(q)' <=> InQueue(q)
  PROVE  /\ GpuInv' /\ DownInv'
         /\ \A q \in Runs \ {r} : RequestInv(q)' /\ MarkInv(q)' /\ OwnerInv(q)'
<1>1. GpuInv' BY DEF RunsInv, GpuInv, GpuExclusive
<1>2. DownInv' BY DEF DownInv, Serving
<1>3. ASSUME NEW q \in Runs \ {r} PROVE RequestInv(q)' /\ MarkInv(q)' /\ OwnerInv(q)'
  <2>1. InHand(q)' <=> InHand(q) BY DEF InHand, Job
  <2>2. RequestInv(q) /\ MarkInv(q) /\ OwnerInv(q) BY DEF RunsInv
  <2> QED BY <2>1, <2>2, RunFrame
<1> QED BY <1>1, <1>2, <1>3

\* The job in hand is not the run of a request that is still under way.
LEMMA JobElsewhere ==
  ASSUME RunsInv, NEW r \in Runs, request[r] \in {"new", "snapshot", "inserted"}
  PROVE  ~InHand(r) /\ ~InQueue(r) /\ (worker.pc # "idle" => Job # r)
<1>1. RequestInv(r) BY DEF RunsInv
<1> QED BY <1>1 DEF RequestInv, InHand

LEMMA InsertKeeps ==
  ASSUME RunsInv, Serving, NEW r \in Runs, request[r] \in {"new", "snapshot"},
         UNCHANGED <<server, cancelled, queue, worker, vae, policy, crashes>>,
         (~Full /\ Insert(r)) \/ Refuse(r)
  PROVE  RunsInv'
<1>0. /\ TypeOK /\ memory \in [Runs -> Manifests] /\ disk \in [Runs -> Manifests] /\ MarkInv(r)
      /\ request \in [Runs -> {"new", "snapshot", "inserted", "submitted", "leaked", "refused"}]
      /\ memory[r] = Absent /\ disk[r] = Absent /\ JobInv /\ RequestInv(r)
  BY DEF RunsInv, TypeOK, RequestInv
<1>1. ~InHand(r) /\ ~InQueue(r) /\ (worker.pc # "idle" => Job # r) BY JobElsewhere
<1>2. \A q \in Runs : (InQueue(q)' <=> InQueue(q)) /\ (InHand(q)' <=> InHand(q))
  BY DEF InQueue, InHand, Job
<1>3. QueueInv' BY DEF RunsInv, QueueInv
<1>4. CASE ~Full /\ Insert(r)
  <2> DEFINE m == [status |-> "queued", asked |-> FALSE]
  <2>0. m \in Manifests /\ m.status = "queued" /\ m.asked = FALSE BY DEF Manifests, Active
  <2> HIDE DEF m
  <2>1. PICK ok \in BOOLEAN :
          /\ Store(r, m, ok)
          /\ request' = [request EXCEPT ![r] = IF ok THEN "inserted" ELSE "leaked"]
    BY <1>4 DEF Insert, m
  <2>2. /\ memory' = [memory EXCEPT ![r] = m]
        /\ disk' = IF ok THEN [disk EXCEPT ![r] = m] ELSE disk
    BY <2>1 DEF Store, SaveRun
  <2>3. /\ memory'[r] = m /\ disk'[r] = (IF ok THEN m ELSE Absent)
        /\ request'[r] = IF ok THEN "inserted" ELSE "leaked"
    BY <1>0, <2>1, <2>2
  <2>4. \A q \in Runs \ {r} :
          memory'[q] = memory[q] /\ disk'[q] = disk[q] /\ request'[q] = request[q]
    BY <1>0, <2>1, <2>2
  <2>5. /\ memory' \in [Runs -> Manifests] /\ disk' \in [Runs -> Manifests]
        /\ request' \in [Runs -> {"new", "snapshot", "inserted", "submitted", "leaked", "refused"}]
    BY <1>0, <2>0, <2>1, <2>2
  <2>6. TypeOK' BY <1>0, <1>1, <2>4, <2>5 DEF TypeOK, Job
  <2>7. CapacityHolds' BY <1>4, <2>4, CapacityGrows
  <2>8. JobInv' BY <1>0, <1>1, <2>4, <2>6 DEF JobInv, Job, TypeOK
  <2>9. RequestInv(r)' BY <1>1, <1>2, <2>0, <2>3, ManifestTyped DEF RequestInv
  <2>10. MarkInv(r)' BY <1>0, <2>0, <2>3, ManifestTyped DEF MarkInv
  <2>11. OwnerInv(r)' BY <2>3 DEF OwnerInv
  <2>12. GpuInv' /\ DownInv' /\ \A q \in Runs \ {r} : RequestInv(q)' /\ MarkInv(q)' /\ OwnerInv(q)'
    BY <1>2, <2>4, HandlerFrame
  <2> QED BY <1>3, <2>6, <2>7, <2>8, <2>9, <2>10, <2>11, <2>12 DEF RunsInv
<1>5. CASE Refuse(r)
  <2>1. /\ request' = [request EXCEPT ![r] = "refused"] /\ memory' = memory /\ disk' = disk
    BY <1>5 DEF Refuse
  <2>2. request'[r] = "refused" /\ \A q \in Runs \ {r} : request'[q] = request[q]
    BY <1>0, <2>1
  <2>3. request' \in [Runs -> {"new", "snapshot", "inserted", "submitted", "leaked", "refused"}]
    BY <1>0, <2>1
  <2>4. TypeOK' BY <1>0, <2>1, <2>3 DEF TypeOK, Job
  <2>5. CapacityHolds' BY <2>1, CapacityFrame DEF RunsInv
  <2>6. JobInv' BY <1>0, <2>1 DEF JobInv, Job
  <2>7. RequestInv(r)' /\ MarkInv(r)' /\ OwnerInv(r)'
    BY <1>0, <1>1, <1>2, <2>1, <2>2 DEF RequestInv, MarkInv, OwnerInv, Serving, Absent, Active
  <2>8. GpuInv' /\ DownInv' /\ \A q \in Runs \ {r} : RequestInv(q)' /\ MarkInv(q)' /\ OwnerInv(q)'
    BY <1>2, <2>1, <2>2, HandlerFrame
  <2> QED BY <1>3, <2>4, <2>5, <2>6, <2>7, <2>8 DEF RunsInv
<1> QED BY <1>4, <1>5

LEMMA CheckKeeps ==
  ASSUME RunsInv, NEW r \in Runs, CheckPolicyRun(r)
  PROVE  RunsInv'
<1> USE DEF CheckPolicyRun
<1>0. /\ TypeOK /\ JobInv /\ RequestInv(r) /\ MarkInv(r)
      /\ request \in [Runs -> {"new", "snapshot", "inserted", "submitted", "leaked", "refused"}]
  BY DEF RunsInv, TypeOK
<1>1. ~InHand(r) /\ ~InQueue(r) /\ (worker.pc # "idle" => Job # r) BY JobElsewhere
<1>2. \A q \in Runs : (InQueue(q)' <=> InQueue(q)) /\ (InHand(q)' <=> InHand(q))
  BY DEF InQueue, InHand, Job
<1>3. request'[r] \in {"refused", "snapshot"} /\ \A q \in Runs \ {r} : request'[q] = request[q]
  BY <1>0
<1>4. request' \in [Runs -> {"new", "snapshot", "inserted", "submitted", "leaked", "refused"}]
  BY <1>0
<1>5. TypeOK' BY <1>0, <1>4 DEF TypeOK, Job
<1>6. CapacityHolds' BY CapacityFrame DEF RunsInv
<1>7. JobInv' /\ QueueInv' BY <1>0 DEF RunsInv, JobInv, Job, QueueInv
<1>8. RequestInv(r)' /\ MarkInv(r)' /\ OwnerInv(r)'
  <2>1. memory[r] = Absent /\ disk[r] = Absent /\ memory'[r] = Absent /\ disk'[r] = Absent
    BY <1>0 DEF RequestInv
  <2> QED BY <1>0, <1>1, <1>2, <1>3, <2>1 DEF RequestInv, MarkInv, OwnerInv, Serving, Absent, Active
<1>9. GpuInv' /\ DownInv' /\ \A q \in Runs \ {r} : RequestInv(q)' /\ MarkInv(q)' /\ OwnerInv(q)'
  BY <1>2, <1>3, HandlerFrame
<1> QED BY <1>5, <1>6, <1>7, <1>8, <1>9 DEF RunsInv

LEMMA SubmitKeeps ==
  ASSUME RunsInv, NEW r \in Runs, SubmitRun(r)
  PROVE  RunsInv'
<1> USE DEF SubmitRun
<1>0. /\ TypeOK /\ JobInv /\ RequestInv(r) /\ MarkInv(r) /\ QueueInv /\ queue \in Seq(Runs)
      /\ request \in [Runs -> {"new", "snapshot", "inserted", "submitted", "leaked", "refused"}]
  BY DEF RunsInv, TypeOK
<1>1. ~InHand(r) /\ ~InQueue(r) /\ (worker.pc # "idle" => Job # r) BY JobElsewhere
<1>2. /\ Len(queue) \in Nat /\ queue' \in Seq(Runs) /\ Len(queue') = Len(queue) + 1
      /\ queue'[Len(queue) + 1] = r /\ \A i \in 1 .. Len(queue) : queue'[i] = queue[i]
  BY <1>0
<1>3. /\ InQueue(r)' /\ \A q \in Runs \ {r} : InQueue(q)' <=> InQueue(q)
      /\ \A q \in Runs : InHand(q)' <=> InHand(q)
  BY <1>2 DEF InQueue, InHand, Job
<1>4. QueueInv'
  BY <1>0, <1>1, <1>2 DEF QueueInv, InQueue
<1>5. request'[r] = "submitted" /\ \A q \in Runs \ {r} : request'[q] = request[q] BY <1>0
<1>6. request' \in [Runs -> {"new", "snapshot", "inserted", "submitted", "leaked", "refused"}]
  BY <1>0
<1>7. TypeOK' BY <1>0, <1>2, <1>6 DEF TypeOK, Job
<1>8. CapacityHolds' BY CapacityFrame DEF RunsInv
<1>9. JobInv' BY <1>0 DEF JobInv, Job
<1>10. RequestInv(r)' /\ MarkInv(r)' /\ OwnerInv(r)'
  BY <1>0, <1>1, <1>3, <1>5 DEF RequestInv, MarkInv, OwnerInv, Serving
<1>11. GpuInv' /\ DownInv' /\ \A q \in Runs \ {r} : RequestInv(q)' /\ MarkInv(q)' /\ OwnerInv(q)'
  BY <1>3, <1>5, HandlerFrame
<1> QED BY <1>4, <1>7, <1>8, <1>9, <1>10, <1>11 DEF RunsInv

LEMMA CancelKeeps ==
  ASSUME RunsInv, NEW r \in Runs, CancelRun(r)
  PROVE  RunsInv'
<1> DEFINE m == [memory[r] EXCEPT !.asked = TRUE]
<1>0. /\ TypeOK /\ JobInv /\ RequestInv(r) /\ OwnerInv(r)
      /\ memory \in [Runs -> Manifests] /\ disk \in [Runs -> Manifests]
  BY DEF RunsInv, TypeOK
<1>1. PICK ok \in BOOLEAN : Store(r, m, ok) BY DEF CancelRun
<1>2. m \in Manifests /\ m.status = memory[r].status /\ m.asked BY <1>0 DEF Manifests
<1> HIDE DEF m
<1>3. /\ memory' = [memory EXCEPT ![r] = m]
      /\ disk' = IF ok THEN [disk EXCEPT ![r] = m] ELSE disk
  BY <1>1 DEF Store, SaveRun
<1>4. memory'[r] = m /\ disk'[r] = IF ok THEN m ELSE disk[r] BY <1>0, <1>3
<1>5. \A q \in Runs \ {r} : memory'[q] = memory[q] /\ disk'[q] = disk[q] BY <1>0, <1>3
<1>6. memory' \in [Runs -> Manifests] /\ disk' \in [Runs -> Manifests] BY <1>0, <1>2, <1>3
<1> USE DEF CancelRun
<1>7. \A q \in Runs : /\ InQueue(q)' <=> InQueue(q)
                      /\ InHand(q)' <=> InHand(q)
                      /\ memory'[q].status = memory[q].status
  BY <1>2, <1>4, <1>5 DEF InQueue, InHand, Job
<1>8. TypeOK' BY <1>0, <1>6, <1>7 DEF TypeOK, Job
<1>9. CapacityHolds' BY <1>7, CapacityFrame DEF RunsInv
<1>10. QueueInv' BY DEF RunsInv, QueueInv
<1>11. JobInv'
  <2>1. CASE worker.pc # "idle" /\ Job = r
    BY <1>0, <1>2, <1>4, <2>1 DEF JobInv, Job, Active
  <2>2. CASE worker.pc # "idle" /\ Job # r
    <3>1. Job \in Runs BY <1>0, <2>2 DEF TypeOK
    <3> QED BY <1>0, <1>5, <2>2, <3>1 DEF JobInv, Job
  <2> QED BY <2>1, <2>2 DEF JobInv
<1>12. RequestInv(r)' /\ MarkInv(r)' /\ OwnerInv(r)'
  <2>1. RequestInv(r)'
    BY <1>0, <1>2, <1>4, <1>7, ManifestTyped DEF RequestInv, Active, Absent
  <2>2. MarkInv(r)' BY <1>2, <1>4 DEF MarkInv
  <2>3. OwnerInv(r)' BY <1>0, <1>7 DEF OwnerInv, Serving
  <2> QED BY <2>1, <2>2, <2>3
<1>13. GpuInv' /\ DownInv' /\ \A q \in Runs \ {r} : RequestInv(q)' /\ MarkInv(q)' /\ OwnerInv(q)'
  BY <1>5, <1>7, HandlerFrame
<1> QED BY <1>8, <1>9, <1>10, <1>11, <1>12, <1>13 DEF RunsInv

LEMMA TakeKeeps ==
  ASSUME RunsInv, TakeJob
  PROVE  RunsInv'
<1> USE DEF TakeJob, At
<1>0. /\ TypeOK /\ QueueInv /\ queue \in Seq(Runs) /\ queue # <<>> /\ Serving
  BY DEF RunsInv, TypeOK
<1>j. PICK j \in Runs : j = Head(queue) /\ j = queue[1]
  BY <1>0, HeadTailProperties, EmptySeq
<1>1. /\ j \in Runs /\ j = queue[1] /\ Len(queue) \in Nat \ {0}
      /\ Tail(queue) \in Seq(Runs) /\ Len(Tail(queue)) = Len(queue) - 1
      /\ \A i \in 1 .. Len(queue) - 1 : Tail(queue)[i] = queue[i + 1]
  BY <1>0, <1>j, HeadTailProperties, EmptySeq
<1>2. /\ worker'.run = j /\ worker'.chunk = 0 /\ worker'.pc \in {"check", "begin"}
      /\ worker' \in [run : Runs \union {"none"}, pc : Places, chunk : 0 .. Chunks]
  BY <1>0, <1>1, <1>j DEF Places
<1>3. InQueue(j) /\ ~InQueue(j)' /\ InHand(j)'
  <2>1. 1 \in 1 .. Len(queue) BY <1>1
  <2>2. ~InQueue(j)'
    <3> SUFFICES ASSUME NEW i \in 1 .. Len(queue) - 1, queue[i + 1] = j PROVE FALSE
      BY <1>1 DEF InQueue
    <3>1. i + 1 \in 1 .. Len(queue) /\ i + 1 # 1 BY <1>1
    <3> QED BY <1>0, <1>1, <2>1, <3>1 DEF QueueInv
  <2> QED BY <1>1, <1>2, <2>1, <2>2 DEF InQueue, InHand, Job
<1>4. \A q \in Runs : InHand(q)' <=> q = j BY <1>2 DEF InHand, Job
<1>5. \A q \in Runs \ {j} : InQueue(q)' <=> InQueue(q)
  <2> SUFFICES ASSUME NEW q \in Runs \ {j} PROVE InQueue(q)' <=> InQueue(q) OBVIOUS
  <2>1. ASSUME NEW i \in 1 .. Len(queue), queue[i] = q PROVE InQueue(q)'
    <3>1. i # 1 BY <1>1, <2>1
    <3>2. i - 1 \in 1 .. Len(queue) - 1 /\ (i - 1) + 1 = i BY <1>1, <3>1
    <3>3. Tail(queue)[i - 1] = q BY <1>1, <2>1, <3>2
    <3> QED BY <1>1, <3>2, <3>3 DEF InQueue
  <2>2. ASSUME NEW i \in 1 .. Len(queue) - 1, queue[i + 1] = q PROVE InQueue(q)
    <3>1. i + 1 \in 1 .. Len(queue) BY <1>1
    <3> QED BY <2>2, <3>1 DEF InQueue
  <2> QED BY <1>1, <2>1, <2>2 DEF InQueue
<1>6. QueueInv'
  <2> SUFFICES ASSUME NEW i \in 1 .. Len(queue) - 1, NEW k \in 1 .. Len(queue) - 1,
                      queue[i + 1] = queue[k + 1]
               PROVE  i = k
    BY <1>1 DEF QueueInv
  <2>1. i + 1 \in 1 .. Len(queue) /\ k + 1 \in 1 .. Len(queue) BY <1>1
  <2>2. i + 1 = k + 1 BY <1>0, <2>1 DEF QueueInv
  <2> QED BY <2>2
<1>7. RequestInv(j) /\ MarkInv(j) BY <1>1 DEF RunsInv
<1>8. TypeOK'
  <2>1. Job' \in Runs /\ memory'[Job'].status # "none"
    BY <1>1, <1>2, <1>3, <1>7 DEF Job, RequestInv
  <2> QED BY <1>0, <1>1, <1>2, <2>1 DEF TypeOK
<1>9. JobInv' BY <1>2, <1>3, <1>7 DEF JobInv, Job, RequestInv, Active
<1>10. CapacityHolds' BY CapacityFrame DEF RunsInv
<1>11. GpuInv' BY <1>2 DEF RunsInv, GpuInv, GpuExclusive
<1>12. DownInv' BY DEF DownInv, Serving
<1>13. ASSUME NEW q \in Runs PROVE RequestInv(q)' /\ MarkInv(q)' /\ OwnerInv(q)'
  <2>0. RequestInv(q) /\ MarkInv(q) /\ OwnerInv(q) BY DEF RunsInv
  <2>1. CASE q = j
    BY <1>3, <2>0, <2>1 DEF RequestInv, MarkInv, OwnerInv, Serving
  <2>2. CASE q # j
    <3>1. ~InHand(q) BY DEF InHand
    <3>2. InHand(q)' <=> InHand(q) BY <1>4, <2>2, <3>1
    <3> QED BY <1>5, <2>0, <2>2, <3>2, RunFrame
  <2> QED BY <2>1, <2>2
<1> QED BY <1>6, <1>8, <1>9, <1>10, <1>11, <1>12, <1>13 DEF RunsInv

-----------------------------------------------------------------------------
(* The death of the process and its restart *)

LEMMA DieKeeps ==
  ASSUME RunsInv, Die, crashes' \in 0 .. MaxCrashes
  PROVE  RunsInv'
<1> USE DEF Die
<1>0. /\ TypeOK /\ disk \in [Runs -> Manifests]
      /\ request \in [Runs -> {"new", "snapshot", "inserted", "submitted", "leaked", "refused"}]
  BY DEF RunsInv, TypeOK
<1>1. /\ \A r \in Runs : memory'[r] = Absent /\ request'[r] \in {"new", "refused"}
      /\ \A r \in Runs : request'[r] = "new" => request[r] = "new"
  BY <1>0
<1>2. memory' \in [Runs -> Manifests] BY ManifestTyped
<1>3. Absent.status \notin Active /\ ~Absent.asked BY DEF Absent, Active
<1>4. TypeOK'
  <2>1. worker' \in [run : Runs \union {"none"}, pc : Places, chunk : 0 .. Chunks]
        /\ worker'.pc = "idle"
    BY DEF Resting, Places
  <2>2. request' \in [Runs -> {"new", "snapshot", "inserted", "submitted", "leaked", "refused"}]
    OBVIOUS
  <2>3. queue' \in Seq(Runs) /\ cancelled' \subseteq PolicyRuns BY EmptySeq
  <2> QED BY <1>0, <1>2, <2>1, <2>2, <2>3 DEF TypeOK
<1>5. CapacityHolds' BY <1>1, <1>3, CapacityFrame DEF RunsInv
<1>6. JobInv' /\ QueueInv' /\ GpuInv' BY DEF JobInv, QueueInv, GpuInv, GpuExclusive, Resting
<1>7. DownInv' BY <1>1, <1>3 DEF DownInv
<1>8. ASSUME NEW r \in Runs PROVE RequestInv(r)' /\ MarkInv(r)' /\ OwnerInv(r)'
  <2>1. RequestInv(r) BY DEF RunsInv
  <2>2. ~InQueue(r)' /\ ~InHand(r)' BY DEF InQueue, InHand, Resting
  <2>3. RequestInv(r)' BY <1>1, <2>1, <2>2 DEF RequestInv
  <2>4. MarkInv(r)' BY <1>1, <1>3 DEF MarkInv, Serving
  <2>5. OwnerInv(r)' BY DEF OwnerInv, Serving
  <2> QED BY <2>3, <2>4, <2>5
<1> QED BY <1>4, <1>5, <1>6, <1>7, <1>8 DEF RunsInv

\* What the import makes of a manifest has ended, or was never active.
LEMMA RecoveredTyped ==
  ASSUME NEW m \in Manifests
  PROVE  /\ Recovered(m) \in Manifests /\ Recovered(m).asked = m.asked
         /\ Recovered(m).status \notin Active
         /\ m.status \in Active => Recovered(m).status = IF m.asked THEN "cancelled" ELSE "failed"
         /\ m.status \notin Active => Recovered(m) = m
  BY DEF Manifests, Recovered, Active, Ended

LEMMA RecoverKeeps ==
  ASSUME RunsInv, server = "recovering", NEW r \in Runs, disk[r] # Absent, memory[r] = Absent,
         Store(r, Recovered(disk[r]), TRUE),
         UNCHANGED <<server, request, cancelled, queue, worker, vae, policy, crashes>>
  PROVE  RunsInv'
<1> DEFINE m == Recovered(disk[r])
<1>0. /\ TypeOK /\ disk \in [Runs -> Manifests] /\ memory \in [Runs -> Manifests]
      /\ ~Serving /\ ~Serving'
  BY DEF RunsInv, TypeOK, Serving
<1>1. m \in Manifests /\ m.status \notin Active BY <1>0, RecoveredTyped
<1>2. memory' = [memory EXCEPT ![r] = m] /\ disk' = [disk EXCEPT ![r] = m]
  BY DEF Store, SaveRun
<1>3. \A q \in Runs : IF q = r THEN memory'[q] = m /\ disk'[q] = m
                      ELSE memory'[q] = memory[q] /\ disk'[q] = disk[q]
  BY <1>0, <1>2
<1>d. /\ cancelled = {} /\ queue = <<>> /\ worker = Resting /\ vae = FALSE /\ policy = "none"
      /\ \A q \in Runs : /\ request[q] \in {"new", "refused"} /\ memory[q] \in {Absent, disk[q]}
                         /\ memory[q].status \notin Active
  BY <1>0 DEF RunsInv, DownInv
<1>4. worker.pc = "idle" BY <1>d DEF Resting
<1>5. memory' \in [Runs -> Manifests] /\ disk' \in [Runs -> Manifests] BY <1>0, <1>1, <1>2
<1> HIDE DEF m
<1>6. TypeOK' BY <1>0, <1>4, <1>5 DEF TypeOK
<1>7. CapacityHolds'
  <2>1. \A q \in Runs : memory'[q].status \in Active => memory[q].status \in Active
    BY <1>1, <1>3
  <2> QED BY <2>1, CapacityFrame DEF RunsInv
<1>8. JobInv' /\ QueueInv' /\ GpuInv'
  BY <1>4 DEF RunsInv, JobInv, QueueInv, GpuInv, GpuExclusive
<1>9. DownInv' BY <1>1, <1>3, <1>d DEF DownInv
<1>10. ASSUME NEW q \in Runs PROVE RequestInv(q)' /\ MarkInv(q)' /\ OwnerInv(q)'
  <2>1. RequestInv(q) BY DEF RunsInv
  <2>2. ~InQueue(q)' /\ ~InHand(q)' BY <1>d, <1>4 DEF InQueue, InHand
  <2>3. RequestInv(q)'
    BY <1>3, <1>d, <2>1, <2>2 DEF RequestInv
  <2>4. MarkInv(q)'
    BY <1>0, <1>1, <1>3, <1>d DEF MarkInv
  <2>5. OwnerInv(q)' BY <1>0 DEF OwnerInv
  <2> QED BY <2>3, <2>4, <2>5
<1> QED BY <1>6, <1>7, <1>8, <1>9, <1>10 DEF RunsInv

LEMMA StartKeeps ==
  ASSUME RunsInv, StartServing
  PROVE  RunsInv'
<1> USE DEF StartServing
<1>0. /\ TypeOK /\ disk \in [Runs -> Manifests] /\ memory \in [Runs -> Manifests] /\ ~Serving
  BY DEF RunsInv, TypeOK, Serving
<1>d. /\ cancelled = {} /\ queue = <<>> /\ worker = Resting /\ vae = FALSE /\ policy = "none"
      /\ \A q \in Runs : /\ request[q] \in {"new", "refused"} /\ memory[q] \in {Absent, disk[q]}
                         /\ memory[q].status \notin Active
  BY <1>0 DEF RunsInv, DownInv
<1>1. \A q \in Runs : memory[q] = disk[q] BY <1>d
<1>2. TypeOK' BY <1>0 DEF TypeOK, Job
<1>3. CapacityHolds' BY CapacityFrame DEF RunsInv
<1>4. JobInv' /\ QueueInv' /\ GpuInv' /\ DownInv'
  BY DEF RunsInv, JobInv, Job, QueueInv, GpuInv, GpuExclusive, DownInv, Serving
<1>5. ASSUME NEW q \in Runs PROVE RequestInv(q)' /\ MarkInv(q)' /\ OwnerInv(q)'
  <2>1. RequestInv(q) BY DEF RunsInv
  <2>2. ~InQueue(q)' /\ ~InHand(q)' BY <1>d DEF InQueue, InHand, Resting
  <2>3. RequestInv(q)' BY <2>1, <2>2 DEF RequestInv
  <2>4. MarkInv(q)' BY <1>1, <1>d DEF MarkInv
  <2>5. OwnerInv(q)' BY <1>d DEF OwnerInv
  <2> QED BY <2>3, <2>4, <2>5
<1> QED BY <1>2, <1>3, <1>4, <1>5 DEF RunsInv

\* Requests, worker, death and recovery keep the invariant.
LEMMA RunsStep == RunsInv /\ [Next]_vars => RunsInv'
<1> SUFFICES ASSUME RunsInv, [Next]_vars PROVE RunsInv' OBVIOUS
<1>1. CASE UNCHANGED vars
  <2> USE <1>1 DEF vars
  <2>0. TypeOK /\ JobInv /\ QueueInv /\ GpuInv /\ DownInv BY DEF RunsInv
  <2>1. TypeOK' /\ JobInv' /\ QueueInv' /\ GpuInv' /\ DownInv'
    BY <2>0 DEF TypeOK, JobInv, Job, QueueInv, GpuInv, GpuExclusive, DownInv, Serving
  <2>2. CapacityHolds' BY CapacityFrame DEF RunsInv
  <2>3. ASSUME NEW r \in Runs PROVE RequestInv(r)' /\ MarkInv(r)' /\ OwnerInv(r)'
    <3>1. (InQueue(r)' <=> InQueue(r)) /\ (InHand(r)' <=> InHand(r)) BY DEF InQueue, InHand, Job
    <3>2. RequestInv(r) /\ MarkInv(r) /\ OwnerInv(r) BY DEF RunsInv
    <3> QED BY <3>1, <3>2, RunFrame
  <2> QED BY <2>1, <2>2, <2>3 DEF RunsInv
<1>2. ASSUME NEW r \in Runs, CreateRun(r) PROVE RunsInv'
  BY <1>2, InsertKeeps DEF CreateRun
<1>3. ASSUME NEW r \in Runs, InsertPolicyRun(r) PROVE RunsInv'
  BY <1>3, InsertKeeps DEF InsertPolicyRun
<1>4. CASE WorkerStep /\ ~TakeJob
  <2>1. (\E m : JobStep(m)) /\ JobInv' /\ GpuInv' BY <1>4, WorkerKeeps
  <2>2. PICK m : JobStep(m) BY <2>1
  <2> QED BY <2>1, <2>2, JobStepKeeps DEF RunsInv
<1>5. CASE Crash
  <2>1. crashes' \in 0 .. MaxCrashes BY <1>5 DEF Crash, RunsInv, TypeOK
  <2> QED BY <1>5, <2>1, DieKeeps DEF Crash
<1>6. CASE Restart
  <2> USE <1>6 DEF Restart
  <2>0. TypeOK /\ JobInv /\ QueueInv /\ GpuInv /\ DownInv /\ ~Serving /\ ~Serving'
    BY DEF RunsInv, Serving
  <2>1. TypeOK' BY <2>0 DEF TypeOK, Job
  <2>2. JobInv' /\ QueueInv' /\ GpuInv' /\ DownInv'
    BY <2>0 DEF JobInv, Job, QueueInv, GpuInv, GpuExclusive, DownInv
  <2>3. CapacityHolds' BY CapacityFrame DEF RunsInv
  <2>4. ASSUME NEW r \in Runs PROVE RequestInv(r)' /\ MarkInv(r)' /\ OwnerInv(r)'
    <3>1. (InQueue(r)' <=> InQueue(r)) /\ (InHand(r)' <=> InHand(r)) BY DEF InQueue, InHand, Job
    <3>2. RequestInv(r) /\ MarkInv(r) /\ OwnerInv(r) BY DEF RunsInv
    <3> QED BY <2>0, <3>1, <3>2 DEF RequestInv, MarkInv, OwnerInv
  <2> QED BY <2>1, <2>2, <2>3, <2>4 DEF RunsInv
<1>7. CASE Recover
  <2>1. PICK r \in Runs :
          /\ disk[r] # Absent /\ memory[r] = Absent
          /\ \/ Store(r, Recovered(disk[r]), TRUE)
                /\ UNCHANGED <<server, request, cancelled, queue, worker, vae, policy>>
             \/ disk[r].status \in Active /\ Die
    BY <1>7 DEF Recover
  <2>2. server = "recovering" /\ UNCHANGED crashes BY <1>7 DEF Recover
  <2>3. crashes' \in 0 .. MaxCrashes BY <2>2 DEF RunsInv, TypeOK
  <2> QED BY <2>1, <2>2, <2>3, RecoverKeeps, DieKeeps
<1> QED BY <1>1, <1>2, <1>3, <1>4, <1>5, <1>6, <1>7, CheckKeeps, SubmitKeeps, CancelKeeps,
           TakeKeeps, StartKeeps
     DEF Next

-----------------------------------------------------------------------------
(* The manifests on disk implement RunLifecycle *)

\* The writes of a manifest that RunLifecycle allows : m over d.
Legal(d, m) ==
  /\ d.asked => m.asked
  /\ \/ m = d
     \/ d.status = "none" /\ m.status = "queued"
     \/ d.status \in Active /\ m.status = d.status /\ m.asked
     \/ d.status = "queued" /\ m.status = "running"
     \/ d.status = "running" /\ m.status = "completed" /\ ~m.asked
     \/ d.status \in Active /\ m.status = "cancelled" /\ m.asked
     \/ d.status \in Active /\ m.status = "failed"

LEMMA LegalImplements ==
  ASSUME TypeOK, NEW r \in Runs, NEW m \in Manifests, Legal(disk[r], m),
         disk' = [disk EXCEPT ![r] = m]
  PROVE  [Lifecycle!LifecycleNext]_(Lifecycle!lifecycleVars)
<1> DEFINE status == [q \in Runs |-> disk[q].status]
<1> DEFINE asked == [q \in Runs |-> disk[q].asked]
<1>0. disk \in [Runs -> Manifests] /\ disk[r] \in Manifests BY DEF TypeOK
<1>1. /\ status' = [status EXCEPT ![r] = m.status] /\ asked' = [asked EXCEPT ![r] = m.asked]
      /\ status[r] = disk[r].status /\ asked[r] = disk[r].asked /\ m.asked \in BOOLEAN
  BY <1>0, ManifestTyped
<1>2. CASE m = disk[r]
  <2>1. status' = status /\ asked' = asked BY <1>0, <1>2
  <2> QED BY <2>1 DEF Lifecycle!lifecycleVars
<1>3. CASE m # disk[r]
  <2> HIDE DEF status, asked
  <2>1. asked[r] => m.asked BY <1>1 DEF Legal
  <2>2. \/ Lifecycle!Submit(r) \/ Lifecycle!Ask(r) \/ Lifecycle!Begin(r) \/ Lifecycle!Complete(r)
        \/ Lifecycle!Cancel(r) \/ Lifecycle!Break(r)
    BY <1>1, <1>3, <2>1
       DEF status, asked, Legal, Active, Lifecycle!Submit, Lifecycle!Ask, Lifecycle!Begin,
           Lifecycle!Complete, Lifecycle!Cancel, Lifecycle!Break, Lifecycle!Write, Lifecycle!Active
  <2> QED BY <2>2 DEF Lifecycle!LifecycleNext
<1> QED BY <1>2, <1>3

\* A step leaves the disk alone or writes one manifest.
Writes(r, m) == /\ r \in Runs /\ m \in Manifests /\ Legal(disk[r], m)
                /\ disk' = [disk EXCEPT ![r] = m]

DiskStep == disk' = disk \/ \E r, m : Writes(r, m)

\* log writes what is in memory, which is on disk already but perhaps for a request.
LEMMA LogWrites ==
  ASSUME RunsInv, Serving, NEW place, LogThen(place),
         worker.pc \in {"unload", "reconstruct", "drop", "load"}
  PROVE  DiskStep
<1>0. /\ Job \in Runs /\ memory[Job] \in Manifests /\ disk[Job] \in Manifests
      /\ memory[Job].status = "running" /\ disk[Job].status = "running"
      /\ disk[Job].asked => memory[Job].asked
  BY DEF RunsInv, TypeOK, JobInv, MarkInv
<1>1. Legal(disk[Job], memory[Job])
  <2>1. CASE memory[Job].asked BY <1>0, <2>1 DEF Legal, Active
  <2>2. CASE ~memory[Job].asked
    <3>1. memory[Job] = disk[Job] BY <1>0, <2>2, ManifestTyped
    <3> QED BY <1>0, <3>1 DEF Legal
  <2> QED BY <2>1, <2>2
<1>2. disk' = disk \/ disk' = [disk EXCEPT ![Job] = memory[Job]] BY DEF LogThen, SaveRun
<1> QED BY <1>0, <1>1, <1>2 DEF DiskStep, Writes

LEMMA WorkerWrites ==
  ASSUME RunsInv, WorkerStep
  PROVE  DiskStep
<1>0. /\ TypeOK /\ JobInv
      /\ worker.pc # "idle" => /\ Job \in Runs /\ memory[Job] \in Manifests /\ disk[Job] \in Manifests
                               /\ MarkInv(Job)
  BY DEF RunsInv, TypeOK
<1> USE DEF At
<1>1. CASE TakeJob \/ Check \/ Finish \/ Fail
  BY <1>1 DEF TakeJob, Check, Finish, Fail, DiskStep
<1>2. CASE Begin
  <2> DEFINE m == [memory[Job] EXCEPT !.status = "running"]
  <2>1. m \in Manifests /\ m.status = "running" /\ m.asked = memory[Job].asked
    BY <1>0, <1>2, ManifestTyped DEF Begin, Active, Manifests
  <2>2. disk' = disk \/ disk' = [disk EXCEPT ![Job] = m] BY <1>2 DEF Begin, Store, SaveRun
  <2> HIDE DEF m
  <2>3. disk[Job].status = "queued" /\ (disk[Job].asked => m.asked)
    BY <1>0, <1>2, <2>1 DEF Begin, JobInv, MarkInv
  <2>4. Legal(disk[Job], m) BY <2>1, <2>3 DEF Legal
  <2> QED BY <1>0, <1>2, <2>1, <2>2, <2>4 DEF Begin, DiskStep, Writes
<1>3. CASE UnloadPolicy
  BY <1>3, LogWrites DEF UnloadPolicy, Unload, DiskStep
<1>4. CASE Reconstruct
  BY <1>4, LogWrites DEF Reconstruct, DiskStep
<1>5. CASE DropBackends
  BY <1>5, LogWrites DEF DropBackends
<1>6. CASE LoadPolicy
  BY <1>6, LogWrites DEF LoadPolicy, DiskStep
<1>7. CASE Chunk
  <2>1. CASE disk' = disk BY <2>1 DEF DiskStep
  <2>2. CASE SaveRun(Job, memory[Job], TRUE)
    <3>1. /\ memory[Job].status = "running" /\ disk[Job].status = "running"
          /\ disk[Job].asked => memory[Job].asked
      BY <1>0, <1>7 DEF Chunk, JobInv, MarkInv
    <3>2. Legal(disk[Job], memory[Job])
      <4>1. CASE memory[Job].asked BY <3>1, <4>1 DEF Legal, Active
      <4>2. CASE ~memory[Job].asked
        <5>1. memory[Job] = disk[Job] BY <1>0, <1>7, <3>1, <4>2, ManifestTyped DEF Chunk
        <5> QED BY <3>1, <5>1 DEF Legal
      <4> QED BY <4>1, <4>2
    <3> QED BY <1>0, <1>7, <2>2, <3>2 DEF Chunk, SaveRun, DiskStep, Writes
  <2> QED BY <1>7, <2>1, <2>2 DEF Chunk
<1>8. CASE Close
  <2>1. disk' = disk \/ disk' = [disk EXCEPT ![Job] = memory[Job]] BY <1>8 DEF Close, SaveRun
  <2>2. Legal(disk[Job], memory[Job])
    BY <1>0, <1>8 DEF Close, JobInv, MarkInv, Legal
  <2> QED BY <1>0, <1>8, <2>1, <2>2 DEF Close, DiskStep, Writes
<1>9. CASE Report
  <2>1. disk' = disk \/ disk' = [disk EXCEPT ![Job] = memory[Job]] BY <1>9 DEF Report, SaveRun
  <2>2. Legal(disk[Job], memory[Job])
    BY <1>0, <1>9 DEF Report, JobInv, MarkInv, Legal
  <2> QED BY <1>0, <1>9, <2>1, <2>2 DEF Report, DiskStep, Writes
<1> QED BY <1>1, <1>2, <1>3, <1>4, <1>5, <1>6, <1>7, <1>8, <1>9 DEF WorkerStep

LEMMA CancelWrites ==
  ASSUME RunsInv, NEW r \in Runs, CancelRun(r)
  PROVE  DiskStep
<1> DEFINE m == [memory[r] EXCEPT !.asked = TRUE]
<1>0. /\ memory[r] \in Manifests /\ disk[r] \in Manifests /\ JobInv
      /\ RequestInv(r) /\ OwnerInv(r) /\ memory[r].status \in Active
  BY DEF RunsInv, TypeOK, CancelRun
<1>1. m \in Manifests /\ m.status = memory[r].status /\ m.asked BY <1>0 DEF Manifests
<1>2. disk' = disk \/ disk' = [disk EXCEPT ![r] = m] BY DEF CancelRun, Store, SaveRun
<1> HIDE DEF m
<1>3. Legal(disk[r], m)
  <2>1. CASE InHand(r)
    <3>1. \/ memory[r].status = "queued" /\ disk[r].status = "queued"
          \/ memory[r].status = "running" /\ disk[r].status \in {"queued", "running"}
      <4>0. worker.pc \in Places BY DEF RunsInv, TypeOK
      <4> QED BY <1>0, <2>1, <4>0 DEF InHand, JobInv, Active, Places
    <3> QED BY <1>1, <3>1 DEF Legal, Active
  <2>2. CASE ~InHand(r)
    <3>1. memory[r].status = "queued" /\ disk[r].status \in {"none", "queued"}
      BY <1>0, <2>2 DEF OwnerInv, RequestInv, CancelRun
    <3> QED BY <1>1, <3>1 DEF Legal, Active
  <2> QED BY <2>1, <2>2
<1> QED BY <1>0, <1>1, <1>2, <1>3 DEF DiskStep, Writes

\* Whatever a step does to the disk is a write that RunLifecycle allows.
LEMMA StepWrites == RunsInv /\ [Next]_vars => DiskStep
<1> SUFFICES ASSUME RunsInv, [Next]_vars PROVE DiskStep OBVIOUS
<1>1. CASE UNCHANGED vars BY <1>1 DEF vars, DiskStep
<1>2. ASSUME NEW r \in Runs, Insert(r), request[r] \in {"new", "snapshot"} PROVE DiskStep
  <2> DEFINE m == [status |-> "queued", asked |-> FALSE]
  <2>1. disk' = disk \/ disk' = [disk EXCEPT ![r] = m] BY <1>2 DEF Insert, Store, SaveRun
  <2>2. disk[r] = Absent BY <1>2 DEF RunsInv, RequestInv
  <2>3. m \in Manifests BY DEF Manifests, Active
  <2>4. Legal(disk[r], m) BY <2>2 DEF Legal, Absent
  <2> QED BY <2>1, <2>3, <2>4 DEF DiskStep, Writes
<1>3. ASSUME NEW r \in Runs, CreateRun(r) \/ InsertPolicyRun(r) PROVE DiskStep
  BY <1>2, <1>3 DEF CreateRun, InsertPolicyRun, Refuse, DiskStep
<1>4. ASSUME NEW r \in Runs, CheckPolicyRun(r) \/ SubmitRun(r) PROVE DiskStep
  BY <1>4 DEF CheckPolicyRun, SubmitRun, DiskStep
<1>5. CASE Crash \/ Restart \/ StartServing
  BY <1>5 DEF Crash, Die, Restart, StartServing, DiskStep
<1>6. CASE Recover
  <2>1. PICK r \in Runs : Store(r, Recovered(disk[r]), TRUE) \/ Die BY <1>6 DEF Recover
  <2>2. CASE Die BY <2>2 DEF Die, DiskStep
  <2>3. CASE Store(r, Recovered(disk[r]), TRUE)
    <3>1. disk' = [disk EXCEPT ![r] = Recovered(disk[r])] BY <2>3 DEF Store, SaveRun
    <3>2. disk[r] \in Manifests BY DEF RunsInv, TypeOK
    <3>3. Legal(disk[r], Recovered(disk[r])) BY <3>2, RecoveredTyped DEF Legal
    <3>4. Recovered(disk[r]) \in Manifests BY <3>2, RecoveredTyped
    <3> QED BY <3>1, <3>3, <3>4 DEF DiskStep, Writes
  <2> QED BY <2>1, <2>2, <2>3
<1> QED BY <1>1, <1>3, <1>4, <1>5, <1>6, WorkerWrites, CancelWrites DEF Next

-----------------------------------------------------------------------------
(* The theorems *)

\* The inductive invariant holds of every run of the service.
THEOREM RunsInvariant == Spec => []RunsInv
<1> QED BY RunsInit, RunsStep, PTL DEF Spec

\* The types, that requests which check the capacity, make a snapshot without LOCK and
\* insert do not together exceed it, and that every active run is being created, queued or
\* executed (create_policy_run, execute, the recovery).
THEOREM EvalCorrect == Spec => []EvalInv
<1>1. RunsInv => EvalInv
  BY DEF RunsInv, EvalInv, ActiveIsOwned, ActiveRuns, OwnerInv, InQueue, InHand
<1> QED BY <1>1, RunsInvariant, PTL

\* The VAE and the policy model never share the GPU, whatever failed in the runs before
\* (execute, execute_policy, unload).
THEOREM GpuIsExclusive == Spec => []GpuExclusive
<1>1. RunsInv => GpuExclusive BY DEF RunsInv, GpuInv
<1> QED BY <1>1, RunsInvariant, PTL

\* Through failed saves, deaths and restarts, the manifest of a run on disk goes through
\* the life of RunLifecycle : it ends once, and never completes when a cancellation is on
\* record (cancel_run, execute_policy, save_run, the recovery).
THEOREM ManifestsImplementLifecycle == Spec => LifecycleIsKept
<1>1. Init => Lifecycle!LifecycleInit
  BY DEF Init, Lifecycle!LifecycleInit, Absent
<1>2. RunsInv /\ [Next]_vars => [Lifecycle!LifecycleNext]_(Lifecycle!lifecycleVars)
  <2> SUFFICES ASSUME RunsInv, [Next]_vars
               PROVE  [Lifecycle!LifecycleNext]_(Lifecycle!lifecycleVars)
    OBVIOUS
  <2>1. CASE disk' = disk BY <2>1 DEF Lifecycle!lifecycleVars
  <2>2. ASSUME NEW r, NEW m, Writes(r, m)
        PROVE  [Lifecycle!LifecycleNext]_(Lifecycle!lifecycleVars)
    BY <2>2, LegalImplements DEF Writes, RunsInv
  <2> QED BY <2>1, <2>2, StepWrites DEF DiskStep
<1> QED BY <1>1, <1>2, RunsInvariant, PTL DEF Spec, LifecycleIsKept, Lifecycle!LifecycleSpec

-----------------------------------------------------------------------------
(* The session's processes *)

HIDE EvalAssumption

\* A job that lives has a wrapper at work, and a wrapper at work has had a job.
WatchedInv ==
  \A j \in Jobs :
    /\ wrapper[j] \in {"none", "asked"} => job[j] = "none"
    /\ wrapper[j] \in {"starting", "watching", "term"} => job[j] # "none"
    /\ wrapper[j] = "over" => ~Live(j)

\* What the cleanup has behind it, of each job it has not missed : a TERM, then its end.
\* No such job is still to come.
Told(j) == job[j] # "up" /\ wrapper[j] # "asked"
Stopped(j) == j \in missed \/ (~Live(j) /\ wrapper[j] # "asked")

CleanedInv ==
  /\ launcher = "kill_bridge" => Told("bridge")
  /\ launcher \in {"term_isaac", "kill_isaac", "done"} => Stopped("bridge")
  /\ launcher = "kill_isaac" => Told("isaac")
  /\ launcher = "done" => Stopped("isaac")

Unleased == {"unwatch", "uncontrol", "term_bridge", "kill_bridge", "term_isaac", "kill_isaac",
             "done"}

\* No job is asked for twice.  The lease of a session at work, and of one taken down.
LeaseInv ==
  /\ launcher \in {"start", "isaac"} => wrapper["isaac"] = "none"
  /\ launcher \in {"start", "isaac", "note_isaac", "bridge"} => wrapper["bridge"] = "none"
  /\ launcher \in Working \ {"start"} => heart /\ lease = "fresh"
  /\ launcher \in Unleased => lease = "none"

\* The types, with the policy backends named rather than counted.
StackTyped ==
  /\ launcher \in Working \union Cleaning \union {"done", "gone"}
  /\ lease \in {"none", "fresh", "stale"} /\ heart \in BOOLEAN
  /\ watchdog \in {"off", "watching", "telling", "over"} /\ abort \in BOOLEAN
  /\ job \in [Jobs -> {"none", "up", "ending", "dead"}]
  /\ wrapper \in [Jobs -> {"none", "asked", "starting", "watching", "term", "over"}]
  /\ pidfile \subseteq Jobs /\ \A j \in pidfile : job[j] # "none"
  /\ entry \in [Jobs -> {"none", "half", "whole"}] /\ missed \subseteq Jobs
  /\ stage \in {"socket", "loading", "adopted", "serving", "over"}
  /\ children \in {{}, {"policy"}, {"groot"}}
  /\ loop \in {"off", "check", "starting", "serving", "over"}
  /\ controller \in BOOLEAN

ProcessInv == StackTyped /\ WatchedInv /\ CleanedInv /\ LeaseInv

SessionInv == ProcessInv /\ RolloutTypeOK /\ ExitTakesLauncher

\* A session begins with nothing.
LEMMA SessionInit == DriverInit => SessionInv
<1> SUFFICES ASSUME DriverInit PROVE SessionInv OBVIOUS
<1> USE DEF DriverInit, StackInit, Working, Cleaning, Unleased
<1>1. StackTyped BY DEF StackTyped, NoEntry
<1>2. WatchedInv /\ CleanedInv /\ LeaseInv
  BY DEF WatchedInv, CleanedInv, LeaseInv, Live, Jobs
<1>3. RolloutTypeOK /\ ExitTakesLauncher BY DEF RolloutTypeOK, ExitTakesLauncher, Driving
<1> QED BY <1>1, <1>2, <1>3 DEF SessionInv, ProcessInv

\* The launcher and its traps, the shells beside it and the bridge's own steps : what a
\* step does that starts and stops no job.
LEMMA HostKeeps ==
  ASSUME ProcessInv,
         \/ PrepareLease \/ RequireAlive \/ WaitSteady \/ WaitInit \/ WaitController
         \/ StopHeartbeat \/ DropLease \/ StopWatchdog \/ StopController
         \/ Interrupt \/ Killed \/ LastBeat \/ LeaseAges
  PROVE  ProcessInv'
<1> USE DEF Working, Cleaning, Unleased, ShellGone, noteVars,
            PrepareLease, RequireAlive, WaitSteady, WaitInit, WaitController, StopHeartbeat,
            DropLease, StopWatchdog, StopController, Interrupt, Killed, LastBeat, LeaseAges
<1>1. UNCHANGED <<job, pidfile, wrapper, stage, children>> OBVIOUS
<1>2. WatchedInv' BY <1>1 DEF ProcessInv, WatchedInv, Live
<1>3. CleanedInv' BY <1>1 DEF ProcessInv, CleanedInv, Told, Stopped, Live
<1>4. LeaseInv' BY <1>1 DEF ProcessInv, LeaseInv, StackTyped, Out
<1>5. StackTyped'
  <2>1. /\ launcher' \in Working \union Cleaning \union {"done", "gone"}
        /\ lease' \in {"none", "fresh", "stale"} /\ heart' \in BOOLEAN
    BY DEF ProcessInv, StackTyped
  <2>2. /\ watchdog' \in {"off", "watching", "telling", "over"} /\ abort' \in BOOLEAN
        /\ loop' \in {"off", "check", "starting", "serving", "over"} /\ controller' \in BOOLEAN
    BY DEF ProcessInv, StackTyped
  <2>3. entry' \in [Jobs -> {"none", "half", "whole"}] /\ missed' \subseteq Jobs
    BY DEF ProcessInv, StackTyped, NoEntry, Jobs
  <2> QED BY <1>1, <2>1, <2>2, <2>3 DEF ProcessInv, StackTyped
<1> QED BY <1>2, <1>3, <1>4, <1>5 DEF ProcessInv

LEMMA RecordKeeps ==
  ASSUME ProcessInv,
         \/ RecordJob("isaac", "note_isaac", "bridge")
         \/ RecordJob("bridge", "note_bridge", "alive")
  PROVE  ProcessInv'
<1> USE DEF Working, Cleaning, Unleased, RecordJob, Jobs
<1>1. UNCHANGED <<lease, heart, watchdog, abort, job, wrapper, pidfile, missed, stage, children,
                  loop, controller>>
  OBVIOUS
<1>2. \/ launcher \in {"note_isaac", "note_bridge"} /\ UNCHANGED launcher
      \/ launcher = "note_isaac" /\ launcher' = "bridge"
      \/ launcher = "note_bridge" /\ launcher' = "alive"
  OBVIOUS
<1>3. entry' \in [Jobs -> {"none", "half", "whole"}] BY DEF ProcessInv, StackTyped
<1>4. StackTyped' BY <1>1, <1>2, <1>3 DEF ProcessInv, StackTyped
<1>5. WatchedInv' BY <1>1 DEF ProcessInv, WatchedInv, Live
<1>6. CleanedInv' BY <1>2 DEF CleanedInv
<1>7. LeaseInv' BY <1>1, <1>2 DEF ProcessInv, LeaseInv
<1> QED BY <1>4, <1>5, <1>6, <1>7 DEF ProcessInv

LEMMA BesideKeeps ==
  ASSUME ProcessInv,
         \/ WatchdogLooks \/ Loop \/ LoopDies \/ ControllerExits
         \/ BridgeStartsServer \/ BridgeAdopts \/ BridgeServes \/ BridgeSwitches
  PROVE  ProcessInv'
<1> USE DEF Working, Cleaning, BridgeIs, noteVars, WatchdogLooks, Loop, LoopChecks, LoopStarts,
            LoopReturns, LoopDies, ControllerExits, BridgeStartsServer, BridgeAdopts,
            BridgeServes, BridgeSwitches
<1>1. UNCHANGED <<launcher, lease, heart, job, pidfile, wrapper, entry, missed>> OBVIOUS
<1>2. WatchedInv' BY <1>1 DEF ProcessInv, WatchedInv, Live
<1>3. CleanedInv' /\ LeaseInv'
  BY <1>1 DEF ProcessInv, CleanedInv, LeaseInv, Told, Stopped, Live
<1>4. /\ watchdog' \in {"off", "watching", "telling", "over"} /\ abort' \in BOOLEAN
      /\ loop' \in {"off", "check", "starting", "serving", "over"}
      /\ controller' \in BOOLEAN
  BY DEF ProcessInv, StackTyped, Tell
<1>5. /\ stage' \in {"socket", "loading", "adopted", "serving", "over"}
      /\ children' \in {{}, {"policy"}, {"groot"}}
  BY DEF ProcessInv, StackTyped
<1> QED BY <1>1, <1>2, <1>3, <1>4, <1>5 DEF ProcessInv, StackTyped

\* The launcher asks for a job it has not asked for.
LEMMA AskKeeps ==
  ASSUME ProcessInv,
         \/ StartJob("isaac", "note_isaac") \/ StartJob("bridge", "note_bridge")
  PROVE  ProcessInv'
<1> USE DEF Working, Cleaning, Unleased, Jobs
<1>1. PICK j \in Jobs, note \in {"note_isaac", "note_bridge"} :
        StartJob(j, note) /\ (note = "note_isaac" <=> j = "isaac")
  OBVIOUS
<1>2. /\ launcher = j /\ launcher' = note /\ wrapper' = [wrapper EXCEPT ![j] = "asked"]
      /\ UNCHANGED <<job, lease, heart, watchdog, abort, pidfile, stage, children, loop,
                     controller, entry, missed>>
  BY <1>1 DEF StartJob, noteVars
<1>3. job[j] = "none" BY <1>2 DEF ProcessInv, LeaseInv, WatchedInv
<1>4. StackTyped' BY <1>2 DEF ProcessInv, StackTyped
<1>5. WatchedInv' BY <1>2, <1>3 DEF ProcessInv, StackTyped, WatchedInv, Live
<1>6. CleanedInv' BY <1>2 DEF CleanedInv
<1>7. LeaseInv' BY <1>1, <1>2 DEF ProcessInv, LeaseInv, StackTyped
<1> QED BY <1>4, <1>5, <1>6, <1>7 DEF ProcessInv

\* bg_stop's TERM : the shell is gone, or the job was told, or it is missed and passed over.
LEMMA TermTells ==
  ASSUME ProcessInv, NEW j \in Jobs, NEW at \in Unleased, NEW next \in Unleased,
         NEW skip \in Unleased, TermByPidfile(j, at, next, skip)
  PROVE  /\ StackTyped' /\ WatchedInv' /\ LeaseInv'
         /\ \/ launcher' = "gone"
            \/ launcher' = next /\ Told(j)'
            \/ launcher' = skip /\ Stopped(j)'
         /\ launcher' # "gone" => \A i \in Jobs \ {j} : Stopped(i) => Stopped(i)'
<1> USE DEF Working, Cleaning, Unleased, Jobs
<1>0. /\ launcher = at
      /\ UNCHANGED <<lease, heart, watchdog, wrapper, pidfile, stage, children, loop, controller>>
  BY DEF TermByPidfile
<1>1. CASE entry[j] = "half" /\ ShellGone /\ UNCHANGED <<job, abort>>
  <2>1. StackTyped' BY <1>0, <1>1 DEF ProcessInv, StackTyped, ShellGone, NoEntry
  <2>2. WatchedInv' BY <1>0, <1>1 DEF ProcessInv, WatchedInv, Live
  <2>3. LeaseInv' /\ launcher' = "gone" BY <1>0, <1>1 DEF LeaseInv, ShellGone
  <2> QED BY <2>1, <2>2, <2>3
<1>2. CASE /\ entry[j] = "whole" /\ j \in pidfile
           /\ launcher' = next /\ TermJob(j) /\ UNCHANGED <<noteVars, abort>>
  <2>1. /\ job' = [job EXCEPT ![j] = IF @ = "up" THEN "ending" ELSE @]
        /\ launcher' = next /\ UNCHANGED <<entry, missed, abort>>
    BY <1>2 DEF TermJob, noteVars
  <2>2. job[j] # "none" BY <1>2 DEF ProcessInv, StackTyped
  <2>3. StackTyped' BY <1>0, <2>1 DEF ProcessInv, StackTyped
  <2>4. WatchedInv' BY <1>0, <2>1 DEF ProcessInv, StackTyped, WatchedInv, Live
  <2>5. LeaseInv' BY <1>0, <2>1 DEF ProcessInv, LeaseInv
  <2>6. Told(j)'
    BY <1>0, <2>1, <2>2 DEF ProcessInv, StackTyped, WatchedInv, Told
  <2>7. \A i \in Jobs \ {j} : Stopped(i) => Stopped(i)'
    BY <1>0, <2>1 DEF ProcessInv, StackTyped, Stopped, Live
  <2> QED BY <2>1, <2>3, <2>4, <2>5, <2>6, <2>7
<1>3. CASE /\ launcher' = skip /\ missed' = missed \union {j}
           /\ abort' = (abort /\ skip # "done") /\ UNCHANGED <<job, entry>>
  <2>1. abort' \in BOOLEAN BY <1>3 DEF ProcessInv, StackTyped
  <2>2. StackTyped' BY <1>0, <1>3, <2>1 DEF ProcessInv, StackTyped
  <2>3. WatchedInv' BY <1>0, <1>3 DEF ProcessInv, WatchedInv, Live
  <2>4. LeaseInv' BY <1>0, <1>3 DEF ProcessInv, LeaseInv
  <2>5. Stopped(j)' BY <1>3 DEF Stopped
  <2>6. \A i \in Jobs \ {j} : Stopped(i) => Stopped(i)'
    BY <1>0, <1>3 DEF Stopped, Live
  <2> QED BY <1>3, <2>2, <2>3, <2>4, <2>5, <2>6
<1> QED BY <1>1, <1>2, <1>3 DEF TermByPidfile

\* bg_stop's KILL : a job that was told lives no longer.
LEMMA KillStops ==
  ASSUME ProcessInv, NEW j \in Jobs, NEW at \in Unleased, NEW next \in Unleased,
         KillByPidfile(j, at, next), Told(j)
  PROVE  /\ StackTyped' /\ WatchedInv' /\ LeaseInv'
         /\ launcher' = next /\ Stopped(j)'
         /\ \A i \in Jobs \ {j} : Stopped(i) => Stopped(i)'
<1> USE DEF Working, Cleaning, Unleased, Jobs
<1>0. /\ launcher = at /\ launcher' = next /\ pidfile' = pidfile \ {j}
      /\ abort' = (abort /\ next # "done")
      /\ UNCHANGED <<lease, heart, watchdog, wrapper, loop, controller, entry, missed>>
  BY DEF KillByPidfile, noteVars
<1>1. /\ job' \in [Jobs -> {"none", "up", "ending", "dead"}]
      /\ job'[j] \notin {"up", "ending"} /\ \A i \in Jobs \ {j} : job'[i] = job[i]
      /\ job'[j] = "none" <=> job[j] = "none"
      /\ stage' \in {"socket", "loading", "adopted", "serving", "over"}
      /\ children' \in {{}, {"policy"}, {"groot"}}
  <2>1. CASE job[j] = "ending"
    BY <2>1 DEF KillByPidfile, KillJob, EndJob, ProcessInv, StackTyped
  <2>2. CASE job[j] # "ending"
    BY <2>2 DEF KillByPidfile, Told, ProcessInv, StackTyped
  <2> QED BY <2>1, <2>2
<1>2. abort' \in BOOLEAN BY <1>0 DEF ProcessInv, StackTyped
<1>3. StackTyped' BY <1>0, <1>1, <1>2 DEF ProcessInv, StackTyped
<1>4. WatchedInv' BY <1>0, <1>1 DEF ProcessInv, WatchedInv, Live
<1>5. LeaseInv' BY <1>0 DEF ProcessInv, LeaseInv
<1>6. Stopped(j)' BY <1>0, <1>1 DEF Told, Stopped, Live
<1>7. \A i \in Jobs \ {j} : Stopped(i) => Stopped(i)' BY <1>0, <1>1 DEF Stopped, Live
<1> QED BY <1>0, <1>3, <1>4, <1>5, <1>6, <1>7

\* The launcher stops its jobs.
LEMMA StopKeeps ==
  ASSUME ProcessInv,
         \/ TermByPidfile("bridge", "term_bridge", "kill_bridge", "term_isaac")
         \/ KillByPidfile("bridge", "kill_bridge", "term_isaac")
         \/ TermByPidfile("isaac", "term_isaac", "kill_isaac", "done")
         \/ KillByPidfile("isaac", "kill_isaac", "done")
  PROVE  ProcessInv'
<1> USE DEF Unleased, Jobs
<1>0. CleanedInv BY DEF ProcessInv
<1>1. CASE TermByPidfile("bridge", "term_bridge", "kill_bridge", "term_isaac")
  <2>1. /\ StackTyped' /\ WatchedInv' /\ LeaseInv'
        /\ \/ launcher' = "gone"
           \/ launcher' = "kill_bridge" /\ Told("bridge")'
           \/ launcher' = "term_isaac" /\ Stopped("bridge")'
    BY <1>1, TermTells
  <2> QED BY <2>1 DEF ProcessInv, CleanedInv
<1>2. CASE KillByPidfile("bridge", "kill_bridge", "term_isaac")
  <2>1. Told("bridge") BY <1>0, <1>2 DEF CleanedInv, KillByPidfile
  <2>2. /\ StackTyped' /\ WatchedInv' /\ LeaseInv'
        /\ launcher' = "term_isaac" /\ Stopped("bridge")'
    BY <1>2, <2>1, KillStops
  <2> QED BY <2>2 DEF ProcessInv, CleanedInv
<1>3. CASE TermByPidfile("isaac", "term_isaac", "kill_isaac", "done")
  <2>1. Stopped("bridge") BY <1>0, <1>3 DEF CleanedInv, TermByPidfile
  <2>2. /\ StackTyped' /\ WatchedInv' /\ LeaseInv'
        /\ \/ launcher' = "gone"
           \/ launcher' = "kill_isaac" /\ Told("isaac")'
           \/ launcher' = "done" /\ Stopped("isaac")'
        /\ launcher' # "gone" => Stopped("bridge")'
    BY <1>3, <2>1, TermTells
  <2> QED BY <2>2 DEF ProcessInv, CleanedInv
<1>4. CASE KillByPidfile("isaac", "kill_isaac", "done")
  <2>1. Told("isaac") /\ Stopped("bridge") BY <1>0, <1>4 DEF CleanedInv, KillByPidfile
  <2>2. /\ StackTyped' /\ WatchedInv' /\ LeaseInv'
        /\ launcher' = "done" /\ Stopped("isaac")' /\ Stopped("bridge")'
    BY <1>4, <2>1, KillStops
  <2> QED BY <2>2 DEF ProcessInv, CleanedInv
<1> QED BY <1>1, <1>2, <1>3, <1>4

\* A step after which job j is further on its way to its end, and its wrapper over only
\* with it.
Onward(j) ==
  /\ UNCHANGED <<launcher, lease, heart, watchdog, abort, entry, missed, loop, controller>>
  /\ job[j] # "none"
  /\ \/ job' = job
     \/ job' = [job EXCEPT ![j] = "dead"]
     \/ job[j] = "up" /\ job' = [job EXCEPT ![j] = "ending"]
  /\ \/ wrapper' = wrapper
     \/ wrapper[j] = "watching" /\ wrapper' = [wrapper EXCEPT ![j] = "term"]
     \/ job'[j] = "dead" /\ wrapper' = [wrapper EXCEPT ![j] = "over"]
  /\ pidfile' \subseteq pidfile
  /\ stage' \in {stage, "over"} /\ children' \in {{}, children}

\* None of what the launcher has achieved is undone by it.
LEMMA OnwardKeeps ==
  ASSUME ProcessInv, NEW j \in Jobs, Onward(j)
  PROVE  ProcessInv'
<1> USE DEF Jobs, Onward
<1>1. /\ job' \in [Jobs -> {"none", "up", "ending", "dead"}]
      /\ \A i \in Jobs : job'[i] = "none" <=> job[i] = "none"
      /\ \A i \in Jobs : (job[i] # "up" => job'[i] # "up") /\ (~Live(i) => job'[i] \notin {"up", "ending"})
  BY DEF ProcessInv, StackTyped, Live
<1>2. /\ wrapper' \in [Jobs -> {"none", "asked", "starting", "watching", "term", "over"}]
      /\ \A i \in Jobs : wrapper'[i] \in {"none", "asked"} \/ wrapper[i] \in {"none", "asked"}
                         => wrapper'[i] = wrapper[i]
  BY DEF ProcessInv, StackTyped, WatchedInv
<1>3. StackTyped'
  <2>1. children' \in {{}, {"policy"}, {"groot"}} BY DEF ProcessInv, StackTyped
  <2>2. /\ stage' \in {"socket", "loading", "adopted", "serving", "over"}
        /\ pidfile' \subseteq Jobs /\ \A i \in pidfile' : job'[i] # "none"
    BY <1>1 DEF ProcessInv, StackTyped
  <2> QED BY <1>1, <1>2, <2>1, <2>2 DEF ProcessInv, StackTyped
<1>4. WatchedInv'
  <2>1. \A i \in Jobs : wrapper'[i] = "over" => ~Live(i)'
    BY <1>1 DEF ProcessInv, StackTyped, WatchedInv, Live
  <2> QED BY <1>1, <1>2, <2>1 DEF ProcessInv, StackTyped, WatchedInv
<1>5. CleanedInv'
  <2>1. \A i \in Jobs : (Told(i) => Told(i)') /\ (Stopped(i) => Stopped(i)')
    BY <1>1, <1>2 DEF Told, Stopped, Live
  <2> QED BY <2>1 DEF ProcessInv, CleanedInv
<1>6. LeaseInv' BY <1>2 DEF ProcessInv, LeaseInv
<1> QED BY <1>3, <1>4, <1>5, <1>6 DEF ProcessInv

\* What docker does with a job it was asked for.
LEMMA DockerKeeps ==
  ASSUME ProcessInv, NEW j \in Jobs, WrapperStarts(j) \/ WrapperWrites(j) \/ ExecFails(j)
  PROVE  ProcessInv'
<1> USE DEF Jobs, noteVars
<1>1. /\ UNCHANGED <<launcher, lease, heart, watchdog, abort, entry, missed, stage, children, loop,
                     controller>>
      /\ wrapper[j] \in {"asked", "starting"}
      /\ \E w \in {"starting", "watching", "over"} : wrapper' = [wrapper EXCEPT ![j] = w]
      /\ job' = job \/ (wrapper[j] = "asked" /\ job' = [job EXCEPT ![j] = "up"])
  BY DEF WrapperStarts, WrapperWrites, ExecFails
<1>2. StackTyped'
  <2>1. /\ job' \in [Jobs -> {"none", "up", "ending", "dead"}]
        /\ wrapper' \in [Jobs -> {"none", "asked", "starting", "watching", "term", "over"}]
    BY <1>1 DEF ProcessInv, StackTyped
  <2>2. job[j] # "none" \/ ~WrapperWrites(j) BY DEF WrapperWrites, ProcessInv, WatchedInv
  <2>3. pidfile' \subseteq pidfile \/ (WrapperWrites(j) /\ pidfile' = pidfile \union {j})
    BY DEF WrapperStarts, WrapperWrites, ExecFails
  <2>4. \A i \in Jobs : job[i] # "none" => job'[i] # "none" BY <1>1 DEF ProcessInv, StackTyped
  <2>5. pidfile' \subseteq Jobs /\ \A i \in pidfile' : job'[i] # "none"
    BY <2>2, <2>3, <2>4 DEF ProcessInv, StackTyped
  <2> QED BY <1>1, <2>1, <2>5 DEF ProcessInv, StackTyped
<1>3. WatchedInv'
  <2>1. CASE WrapperStarts(j)
    BY <2>1 DEF WrapperStarts, ProcessInv, StackTyped, WatchedInv, Live
  <2>2. CASE WrapperWrites(j)
    BY <2>2 DEF WrapperWrites, ProcessInv, StackTyped, WatchedInv, Live
  <2>3. CASE ExecFails(j)
    BY <2>3 DEF ExecFails, ProcessInv, StackTyped, WatchedInv, Live
  <2> QED BY <2>1, <2>2, <2>3
<1>4. CleanedInv'
  <2>1. \A i \in Jobs : (Told(i) => Told(i)') /\ (Stopped(i) => Stopped(i)')
    BY <1>1 DEF ProcessInv, StackTyped, Told, Stopped, Live
  <2> QED BY <1>1, <2>1 DEF ProcessInv, CleanedInv
<1>5. LeaseInv' BY <1>1 DEF ProcessInv, StackTyped, LeaseInv
<1> QED BY <1>2, <1>3, <1>4, <1>5 DEF ProcessInv

\* The wrappers, and the jobs that end.
LEMMA JobsKeep ==
  ASSUME ProcessInv,
         \/ BridgeLeaves
         \/ \E j \in Jobs : WrapperLooks(j) \/ WrapperKills(j) \/ JobHeedsTerm(j) \/ JobDies(j)
  PROVE  ProcessInv'
<1> USE DEF noteVars, EndJob
<1>0. children \ {"policy"} \in {{}, children} BY DEF ProcessInv, StackTyped
<1>1. CASE BridgeLeaves
  <2>1. Onward("bridge") BY <1>0, <1>1 DEF BridgeLeaves, Onward
  <2> QED BY <2>1, OnwardKeeps DEF Jobs
<1>2. ASSUME NEW j \in Jobs, WrapperLooks(j) PROVE ProcessInv'
  <2>1. job[j] # "none" BY <1>2 DEF WrapperLooks, ProcessInv, WatchedInv
  <2>2. CASE job[j] = "dead"
    <3>1. Onward(j) BY <1>2, <2>1, <2>2 DEF WrapperLooks, Onward
    <3> QED BY <3>1, OnwardKeeps
  <2>3. CASE job[j] # "dead"
    <3>1. /\ job' = [job EXCEPT ![j] = IF job[j] = "up" THEN "ending" ELSE job[j]]
          /\ wrapper' = [wrapper EXCEPT ![j] = "term"] /\ UNCHANGED pidfile
      BY <1>2, <2>3 DEF WrapperLooks, TermJob
    <3>2. job' = job \/ (job[j] = "up" /\ job' = [job EXCEPT ![j] = "ending"])
      BY <3>1 DEF ProcessInv, StackTyped
    <3>3. Onward(j) BY <1>2, <2>1, <3>1, <3>2 DEF WrapperLooks, Onward
    <3> QED BY <3>3, OnwardKeeps
  <2> QED BY <2>2, <2>3
<1>3. ASSUME NEW j \in Jobs, WrapperKills(j) PROVE ProcessInv'
  <2>1. job[j] # "none" BY <1>3 DEF WrapperKills, ProcessInv, WatchedInv
  <2>2. job'[j] = "dead" BY <1>3 DEF WrapperKills, KillJob, ProcessInv, StackTyped
  <2>3. Onward(j) BY <1>3, <2>1, <2>2 DEF WrapperKills, KillJob, Onward
  <2> QED BY <2>3, OnwardKeeps
<1>4. ASSUME NEW j \in Jobs, JobHeedsTerm(j) \/ JobDies(j) PROVE ProcessInv'
  <2>1. Onward(j) BY <1>0, <1>4 DEF JobHeedsTerm, JobDies, Onward
  <2> QED BY <2>1, OnwardKeeps
<1> QED BY <1>1, <1>2, <1>3, <1>4

LEMMA ProcessStep == ProcessInv /\ [StackNext]_stackVars => ProcessInv'
<1> SUFFICES ASSUME ProcessInv, [StackNext]_stackVars PROVE ProcessInv' OBVIOUS
<1>1. CASE UNCHANGED stackVars
  BY <1>1 DEF stackVars, noteVars, ProcessInv, StackTyped, WatchedInv, CleanedInv, LeaseInv, Live,
              Told, Stopped
<1>2. CASE \E j \in Jobs : WrapperStarts(j) \/ WrapperWrites(j) \/ ExecFails(j)
  BY <1>2, DockerKeeps
<1> QED BY <1>1, <1>2, HostKeeps, RecordKeeps, BesideKeeps, AskKeeps, StopKeeps, JobsKeep
    DEF StackNext, LauncherStep, Cleanup

\* A launcher that is out does not come back.
LEMMA OutStays == Out /\ [StackNext]_stackVars => Out'
<1> SUFFICES ASSUME Out, [StackNext]_stackVars PROVE Out' OBVIOUS
<1>1. launcher \notin Working \union Cleaning BY DEF Out, Working, Cleaning
<1>2. UNCHANGED launcher
  BY <1>1
     DEF StackNext, LauncherStep, Cleanup, Working, Cleaning, Loop, stackVars, Jobs,
         PrepareLease, StartJob, RecordJob, RequireAlive, WaitSteady, WaitInit, WaitController,
         StopHeartbeat, DropLease, StopWatchdog, StopController, TermByPidfile, KillByPidfile,
         ShellGone, noteVars,
         Interrupt, Killed, LastBeat, LeaseAges, WatchdogLooks, LoopChecks, LoopStarts,
         LoopReturns, LoopDies, ControllerExits, BridgeStartsServer,
         BridgeAdopts, BridgeServes, BridgeLeaves, BridgeSwitches, WrapperStarts,
         WrapperWrites, ExecFails, WrapperLooks, WrapperKills, JobHeedsTerm, JobDies
<1> QED BY <1>2 DEF Out

\* What the driver does to the stack is a step of the stack.
LEMMA DriverMovesStack == [RolloutNext]_allVars => [StackNext]_stackVars
<1> SUFFICES ASSUME RolloutNext PROVE [StackNext]_stackVars
  BY DEF allVars
<1>1. CASE RequestIsaacShutdown BY <1>1 DEF RequestIsaacShutdown, StackNext, Jobs
<1>2. CASE InterruptLauncher BY <1>2 DEF InterruptLauncher, StackNext
<1>3. CASE KillLauncher BY <1>3 DEF KillLauncher, StackNext
<1> QED BY <1>1, <1>2, <1>3
     DEF RolloutNext, DriverStep, WaitForUi, SelectModel, WaitForModel, ResetScene, Settle,
         StartRollout, HoldHorizon, StopRollout, Ask, WaitForArtifacts, LauncherLeft,
         KeyboardInterrupt

\* What the driver does while it drives : it goes on, or leaves its try clause.
LEMMA DrivingKeeps ==
  ASSUME RolloutTypeOK, driver \in Driving, UNCHANGED broken,
         LeaveTry \/ \E next \in Driving : Proceed(next)
  PROVE  RolloutTypeOK' /\ ExitTakesLauncher'
<1> USE DEF Driving, Finally
<1>1. broken = FALSE /\ left = FALSE BY DEF RolloutTypeOK
<1>2. CASE LeaveTry /\ left' = TRUE
  BY <1>1, <1>2 DEF LeaveTry, RolloutTypeOK, ExitTakesLauncher
<1>3. CASE driver' \in Driving \union {"shutdown"} /\ UNCHANGED left
  BY <1>1, <1>3 DEF RolloutTypeOK, ExitTakesLauncher
<1> QED BY <1>2, <1>3 DEF LeaveTry, Proceed

\* The driver's own places, and with whom it leaves.
LEMMA DriverKeeps ==
  ASSUME RolloutTypeOK, ExitTakesLauncher, [RolloutNext]_allVars
  PROVE  RolloutTypeOK' /\ ExitTakesLauncher'
<1> USE DEF Driving, Finally, RolloutTypeOK, ExitTakesLauncher
<1>1. CASE UNCHANGED dvars BY <1>1, OutStays, DriverMovesStack DEF dvars
<1>2. CASE WaitForUi \/ SelectModel \/ ResetScene \/ Settle \/ StartRollout
  BY <1>2, DrivingKeeps DEF WaitForUi, SelectModel, ResetScene, Settle, StartRollout, Ask
<1>3. CASE WaitForModel \/ HoldHorizon \/ StopRollout
  BY <1>3, DrivingKeeps DEF WaitForModel, HoldHorizon, StopRollout
<1>4. CASE RequestIsaacShutdown \/ WaitForArtifacts \/ InterruptLauncher \/ KillLauncher
  BY <1>4 DEF RequestIsaacShutdown, WaitForArtifacts, InterruptLauncher, KillLauncher
<1>5. CASE LauncherLeft
  <2>1. Out' BY <1>5 DEF LauncherLeft, Out, stackVars
  <2> QED BY <1>5, <2>1 DEF LauncherLeft
<1>6. CASE KeyboardInterrupt
  <2>1. CASE driver \in Driving
    <3>1. LeaveTry /\ UNCHANGED broken BY <1>6, <2>1 DEF KeyboardInterrupt
    <3> QED BY <2>1, <3>1, DrivingKeeps
  <2>2. CASE driver \notin Driving
    <3>1. driver' = "exited" /\ broken' = TRUE /\ UNCHANGED left
      BY <1>6, <2>2 DEF KeyboardInterrupt
    <3>2. RolloutTypeOK' BY <3>1
    <3>3. ExitTakesLauncher' BY <3>1, Zenon
    <3> QED BY <3>2, <3>3
  <2> QED BY <2>1, <2>2
<1> QED BY <1>1, <1>2, <1>3, <1>4, <1>5, <1>6 DEF RolloutNext, DriverStep, allVars

LEMMA SessionStep == SessionInv /\ [RolloutNext]_allVars => SessionInv'
  BY ProcessStep, DriverMovesStack, DriverKeeps DEF SessionInv

\* The inductive invariant holds of every session, whoever is killed or interrupted.
THEOREM SessionInvariant == RolloutSpec => []SessionInv
<1> QED BY SessionInit, SessionStep, PTL DEF RolloutSpec

\* When psi0_eval_cleanup is over, a job is left only if its stop came before its pidfile or
\* its entry in the arrays, and then its wrapper is at work and the lease is gone ; a driver
\* that leaves leaves no launcher, unless it was told to or interrupted in its finally
\* clause (psi0_eval_bg_start, psi0_eval_bg_stop, terminate_launcher).
THEOREM StackCorrect == RolloutSpec => []StackInv
<1>1. SessionInv => StackInv
  <2> SUFFICES ASSUME SessionInv PROVE StackInv OBVIOUS
  <2>0. StackTyped /\ WatchedInv /\ CleanedInv /\ LeaseInv /\ RolloutTypeOK /\ ExitTakesLauncher
    BY DEF SessionInv, ProcessInv
  <2>1. /\ Cardinality({}) <= 1 /\ Cardinality({"policy"}) <= 1 /\ Cardinality({"groot"}) <= 1
    <3>1. Cardinality({}) = 0 BY FS_EmptySet
    <3>2. Cardinality({"policy"}) = 1 /\ Cardinality({"groot"}) = 1 BY FS_Singleton
    <3> QED BY <3>1, <3>2
  <2>2. children \subseteq {"policy", "groot"} /\ Cardinality(children) <= 1
    BY <2>0, <2>1 DEF StackTyped
  <2>3. StackTypeOK BY <2>0, <2>2 DEF StackTyped, StackTypeOK
  <2>4. TornDown
    BY <2>0 DEF TornDown, StackTyped, WatchedInv, CleanedInv, LeaseInv, Unleased, Stopped, Live, Jobs
  <2> QED BY <2>0, <2>3, <2>4 DEF StackInv
<1> QED BY <1>1, SessionInvariant, PTL

\* A wrapper stops its job only once the launcher is done with it : while the launcher
\* works the heartbeat runs and the lease is fresh (psi0_eval_heartbeat, the touch before
\* the first job).
THEOREM JobsKeepLease == RolloutSpec => OnlyLeaselessJobsEnd
<1> DEFINE OnlyThen == \A j \in Jobs : wrapper[j] = "watching" /\ wrapper'[j] = "term" => launcher \notin Working
<1>1. SessionInv /\ [RolloutNext]_allVars => [OnlyThen]_stackVars
  <2> SUFFICES ASSUME SessionInv, [StackNext]_stackVars, NEW j \in Jobs,
                      wrapper[j] = "watching", wrapper'[j] = "term"
               PROVE  launcher \notin Working
    BY DriverMovesStack
  <2>1. launcher # "start" BY DEF SessionInv, ProcessInv, LeaseInv, Jobs
  <2>2. lease # "fresh"
    <3>1. PICK i \in Jobs : \/ WrapperLooks(i) \/ WrapperKills(i) \/ StartJob(i, launcher')
                            \/ WrapperStarts(i) \/ WrapperWrites(i) \/ ExecFails(i)
      BY DEF StackNext, LauncherStep, Cleanup, Loop, stackVars, Jobs,
         PrepareLease, StartJob, RecordJob, RequireAlive, WaitSteady, WaitInit, WaitController,
         StopHeartbeat, DropLease, StopWatchdog, StopController, TermByPidfile, KillByPidfile,
         ShellGone, noteVars,
         Interrupt, Killed, LastBeat, LeaseAges, WatchdogLooks, LoopChecks, LoopStarts,
         LoopReturns, LoopDies, ControllerExits, BridgeStartsServer,
         BridgeAdopts, BridgeServes, BridgeLeaves, BridgeSwitches, JobHeedsTerm, JobDies
    <3> QED BY <3>1 DEF WrapperLooks, WrapperKills, StartJob, WrapperStarts, WrapperWrites,
                       ExecFails, SessionInv, ProcessInv, StackTyped
  <2> QED BY <2>1, <2>2 DEF SessionInv, ProcessInv, LeaseInv
<1> QED BY <1>1, SessionInvariant, PTL DEF RolloutSpec, OnlyLeaselessJobsEnd
=============================================================================
