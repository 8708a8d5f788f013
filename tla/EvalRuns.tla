------------------------------ MODULE EvalRuns ------------------------------
(***************************************************************************)
(* The video evaluation service, evaluation/app.py : requests that create  *)
(* and cancel runs, the one worker that executes them on the GPU, and the  *)
(* manifest of each run on disk.  A step is a section under LOCK, or the   *)
(* work between two of them ; a save of a manifest may fail (a full disk), *)
(* and the process may die at any step and be started again.               *)
(*                                                                         *)
(* Left out : the videos and the datasets, the metrics, the artifacts, the *)
(* wording of the log, previews, uploads and catalogues.  A run is a model *)
(* value : the handler's fresh id.                                         *)
(***************************************************************************)
EXTENDS Sequences, FiniteSets, Integers

CONSTANTS
  Runs,        \* the ids the requests will draw
  PolicyRuns,  \* those of policy runs ; the others are VAE round trips
  Capacity,    \* active runs the service accepts (4)
  Chunks,      \* bound : chunks of a policy run
  MaxCrashes   \* bound : deaths of the process

ASSUME EvalAssumption ==
  /\ PolicyRuns \subseteq Runs /\ IsFiniteSet(Runs)
  /\ Capacity \in Nat \ {0} /\ Chunks \in Nat \ {0} /\ MaxCrashes \in Nat

VARIABLES
  server,    \* "up", "down", or "recovering" while the module is imported
  request,   \* per run, how far the handler that creates it has come
  memory,    \* RUNS : the manifest in memory
  disk,      \* run.json
  cancelled, \* CANCELLED
  queue,     \* the jobs submitted to WORKER and not taken
  worker,    \* the job in hand, where it is and the chunks it has done
  vae,       \* the model of the VAE backend is on the GPU
  policy,    \* POLICY_MANAGER : None, loaded, or emptied by an unload that raised
  crashes

vars == <<server, request, memory, disk, cancelled, queue, worker, vae, policy, crashes>>

Active == {"queued", "running"}
Ended  == {"completed", "failed", "cancelled"}

Absent == [status |-> "none", asked |-> FALSE]
Resting == [run |-> "none", pc |-> "idle", chunk |-> 0]

Init ==
  /\ server = "up" /\ crashes = 0
  /\ request = [r \in Runs |-> "new"]
  /\ memory = [r \in Runs |-> Absent] /\ disk = [r \in Runs |-> Absent]
  /\ cancelled = {} /\ queue = <<>> /\ worker = Resting
  /\ vae = FALSE /\ policy = "none"

ActiveRuns == {r \in Runs : memory[r].status \in Active}
Full == Cardinality(ActiveRuns) >= Capacity

\* save_run : the manifest goes to a temporary file, which then takes its place.
SaveRun(r, manifest, ok) ==
  disk' = IF ok THEN [disk EXCEPT ![r] = manifest] ELSE disk

\* The manifest becomes m in memory and is saved, under one LOCK.
Store(r, m, ok) == memory' = [memory EXCEPT ![r] = m] /\ SaveRun(r, m, ok)

Serving == server = "up"

-----------------------------------------------------------------------------
(* The handlers of the requests, each in a thread of its own. *)

\* The new run is entered before its manifest is saved : a save that raises leaves it there.
Insert(r) ==
  \E ok \in BOOLEAN :
    /\ Store(r, [status |-> "queued", asked |-> FALSE], ok)
    /\ request' = [request EXCEPT ![r] = IF ok THEN "inserted" ELSE "leaked"]

Refuse(r) ==
  /\ request' = [request EXCEPT ![r] = "refused"]
  /\ UNCHANGED <<memory, disk>>

\* POST /api/runs
CreateRun(r) ==
  /\ Serving /\ r \notin PolicyRuns /\ request[r] = "new"
  /\ IF Full THEN Refuse(r) ELSE Insert(r)
  /\ UNCHANGED <<server, cancelled, queue, worker, vae, policy, crashes>>

\* POST /api/policy/runs, up to the snapshot of its input, which is made without the lock.
CheckPolicyRun(r) ==
  /\ Serving /\ r \in PolicyRuns /\ request[r] = "new"
  /\ request' = [request EXCEPT ![r] = IF Full THEN "refused" ELSE "snapshot"]
  /\ UNCHANGED <<server, memory, disk, cancelled, queue, worker, vae, policy, crashes>>

\* Mutant : the capacity is not looked at again once the snapshot is made.
InsertPolicyRun_OneCheck(r) ==
  /\ Serving /\ request[r] = "snapshot"
  /\ Insert(r) \/ Refuse(r)
  /\ UNCHANGED <<server, cancelled, queue, worker, vae, policy, crashes>>

\* The snapshot is made, or it raised and its directory is removed.
InsertPolicyRun(r) ==
  /\ Serving /\ request[r] = "snapshot"
  /\ (~Full /\ Insert(r)) \/ Refuse(r)
  /\ UNCHANGED <<server, cancelled, queue, worker, vae, policy, crashes>>

\* WORKER.submit, after the lock is released.
SubmitRun(r) ==
  /\ Serving /\ request[r] = "inserted"
  /\ request' = [request EXCEPT ![r] = "submitted"]
  /\ queue' = Append(queue, r)
  /\ UNCHANGED <<server, memory, disk, cancelled, worker, vae, policy, crashes>>

\* Mutant : a run that has ended is marked too.
CancelRun_Ended(r) ==
  /\ Serving /\ r \in PolicyRuns /\ memory[r].status \in Active \union Ended
  /\ cancelled' = cancelled \union {r}
  /\ \E ok \in BOOLEAN : Store(r, [memory[r] EXCEPT !.asked = TRUE], ok)
  /\ UNCHANGED <<server, request, queue, worker, vae, policy, crashes>>

\* POST /api/runs/{run_id}/cancel ; of any other run it changes nothing.
CancelRun(r) ==
  /\ Serving /\ r \in PolicyRuns /\ memory[r].status \in Active
  /\ cancelled' = cancelled \union {r}
  /\ \E ok \in BOOLEAN : Store(r, [memory[r] EXCEPT !.asked = TRUE], ok)
  /\ UNCHANGED <<server, request, queue, worker, vae, policy, crashes>>

-----------------------------------------------------------------------------
(* The worker.  Every exception of a job goes to "failed" and its handler. *)

Job == worker.run
At(pc) == Serving /\ worker.pc = pc
Goto(pc) == worker' = [worker EXCEPT !.pc = pc]

TakeJob ==
  /\ At("idle") /\ queue # <<>>
  /\ worker' = [run |-> Head(queue), chunk |-> 0,
                pc |-> IF Head(queue) \in PolicyRuns THEN "check" ELSE "begin"]
  /\ queue' = Tail(queue)
  /\ UNCHANGED <<server, request, memory, disk, cancelled, vae, policy, crashes>>

\* Mutant : a run cancelled in the queue is left as it is.
Check_JustReturns ==
  /\ At("check")
  /\ IF Job \in cancelled THEN worker' = Resting ELSE Goto("begin")
  /\ UNCHANGED <<server, request, memory, disk, cancelled, queue, vae, policy, crashes>>

\* A policy run that was cancelled while it was queued.
Check ==
  /\ At("check")
  /\ IF Job \in cancelled
     THEN memory' = [memory EXCEPT ![Job].status = "cancelled"] /\ Goto("close")
     ELSE UNCHANGED memory /\ Goto("begin")
  /\ UNCHANGED <<server, request, disk, cancelled, queue, vae, policy, crashes>>

Begin ==
  /\ At("begin")
  /\ \E ok \in BOOLEAN :
       /\ Store(Job, [memory[Job] EXCEPT !.status = "running"], ok)
       /\ Goto(IF ~ok THEN "failed" ELSE IF Job \in PolicyRuns THEN "drop" ELSE "unload")
  /\ UNCHANGED <<server, request, cancelled, queue, vae, policy, crashes>>

\* log : the manifest is saved as it stands ; an exception leaves the job at "failed".
LogThen(pc) ==
  \E ok \in BOOLEAN : SaveRun(Job, memory[Job], ok) /\ Goto(IF ok THEN pc ELSE "failed")

\* unload lets the model go first ; the CUDA calls after that may raise,
\* and the manager is then still the one that was emptied.
Unload(then, raised) ==
  \/ policy' = "none" /\ then
  \/ policy = "loaded" /\ policy' = "emptied" /\ raised

UnloadPolicy ==
  /\ At("unload")
  /\ Unload(LogThen("reconstruct"), Goto("failed") /\ UNCHANGED disk)
  /\ UNCHANGED <<server, request, memory, cancelled, queue, vae, crashes>>

\* The preview, the frames, FluxVAE.reconstruct, which loads its model when it has none, and
\* the export ; any of them may raise, before the model is loaded or after.
Reconstruct ==
  /\ At("reconstruct")
  /\ \/ vae' = TRUE /\ LogThen("finish")
     \/ vae' \in {vae, TRUE} /\ Goto("failed") /\ UNCHANGED disk
  /\ UNCHANGED <<server, request, memory, cancelled, queue, policy, crashes>>

\* The outcome is decided under LOCK and saved by the log after it.
Finish ==
  /\ At("finish")
  /\ memory' = [memory EXCEPT ![Job].status =
                  IF Job \in cancelled THEN "cancelled" ELSE "completed"]
  /\ Goto("close")
  /\ UNCHANGED <<server, request, disk, cancelled, queue, vae, policy, crashes>>

\* The last log of a run that ended ; the finally clause of a policy run discards its mark.
Close ==
  /\ At("close")
  /\ \/ /\ SaveRun(Job, memory[Job], TRUE) /\ worker' = Resting
        /\ cancelled' = cancelled \ {Job}
     \/ Goto("failed") /\ UNCHANGED <<disk, cancelled>>
  /\ UNCHANGED <<server, request, memory, queue, vae, policy, crashes>>

\* Mutant : the VAE keeps the GPU.
DropBackends_Keeps ==
  /\ At("drop") /\ LogThen("load")
  /\ UNCHANGED <<server, request, memory, cancelled, queue, vae, policy, crashes>>

DropBackends ==
  /\ At("drop") /\ vae' = FALSE /\ LogThen("load")
  /\ UNCHANGED <<server, request, memory, cancelled, queue, policy, crashes>>

\* The dataset may have changed, the load may raise ; only None is loaded anew.
LoadPolicy ==
  /\ At("load")
  /\ \/ policy' = (IF policy = "none" THEN "loaded" ELSE policy) /\ LogThen("chunk")
     \/ Goto("failed") /\ UNCHANGED <<policy, disk>>
  /\ UNCHANGED <<server, request, memory, cancelled, queue, vae, crashes>>

\* One chunk, or the end of the chunks ; predict on an emptied manager raises.
Chunk ==
  /\ At("chunk")
  /\ IF Job \in cancelled \/ worker.chunk = Chunks
     THEN Goto("finish") /\ UNCHANGED disk
     ELSE \/ policy = "loaded" /\ SaveRun(Job, memory[Job], TRUE)
             /\ worker' = [worker EXCEPT !.chunk = @ + 1]
          \/ Goto("failed") /\ UNCHANGED disk
  /\ UNCHANGED <<server, request, memory, cancelled, queue, vae, policy, crashes>>

Fail ==
  /\ At("failed")
  /\ memory' = [memory EXCEPT ![Job].status = "failed"]
  /\ Goto("report")
  /\ UNCHANGED <<server, request, disk, cancelled, queue, vae, policy, crashes>>

\* The log of the failure, and a policy run's unload ; a log that raises skips the unload.
Report ==
  /\ At("report")
  /\ \/ SaveRun(Job, memory[Job], TRUE)
        /\ IF Job \in PolicyRuns THEN Unload(TRUE, TRUE) ELSE UNCHANGED policy
     \/ UNCHANGED <<disk, policy>>
  /\ worker' = Resting /\ cancelled' = cancelled \ {Job}
  /\ UNCHANGED <<server, request, memory, queue, vae, crashes>>

-----------------------------------------------------------------------------
(* The process dies and is started again. *)

Die ==
  /\ server' = "down"
  /\ memory' = [r \in Runs |-> Absent]
  /\ request' = [r \in Runs |-> IF request[r] = "new" THEN "new" ELSE "refused"]
  /\ cancelled' = {} /\ queue' = <<>> /\ worker' = Resting
  /\ vae' = FALSE /\ policy' = "none"
  /\ UNCHANGED disk

Crash == server # "down" /\ crashes < MaxCrashes /\ crashes' = crashes + 1 /\ Die

Restart ==
  /\ server = "down" /\ server' = "recovering"
  /\ UNCHANGED <<request, memory, disk, cancelled, queue, worker, vae, policy, crashes>>

\* What the import makes of a manifest it finds.
Recovered(m) ==
  IF m.status \notin Active THEN m
  ELSE [m EXCEPT !.status = IF m.asked THEN "cancelled" ELSE "failed"]

\* Manifests are read one after the other ; a save that raises ends the import.
Recover ==
  /\ server = "recovering"
  /\ \E r \in Runs :
       /\ disk[r] # Absent /\ memory[r] = Absent
       /\ \/ Store(r, Recovered(disk[r]), TRUE)
             /\ UNCHANGED <<server, request, cancelled, queue, worker, vae, policy>>
          \/ disk[r].status \in Active /\ Die
  /\ UNCHANGED crashes

StartServing ==
  /\ server = "recovering" /\ \A r \in Runs : disk[r] # Absent => memory[r] # Absent
  /\ server' = "up"
  /\ UNCHANGED <<request, memory, disk, cancelled, queue, worker, vae, policy, crashes>>

-----------------------------------------------------------------------------
WorkerStep ==
  \/ TakeJob \/ Check \/ Begin \/ UnloadPolicy \/ Reconstruct \/ Finish \/ Close
  \/ DropBackends \/ LoadPolicy \/ Chunk \/ Fail \/ Report

Next ==
  \/ \E r \in Runs : \/ CreateRun(r) \/ CheckPolicyRun(r) \/ InsertPolicyRun(r)
                     \/ SubmitRun(r) \/ CancelRun(r)
  \/ WorkerStep
  \/ Crash \/ Restart \/ Recover \/ StartServing

Spec == Init /\ [][Next]_vars

\* The worker thread goes on as long as it can ; nothing forces a request, a death or a restart.
FairSpec == Spec /\ WF_vars(WorkerStep)

-----------------------------------------------------------------------------
Places == {"idle", "check", "begin", "unload", "reconstruct", "finish", "close", "drop", "load",
           "chunk", "failed", "report"}
Manifests == [status : Active \union Ended \union {"none"}, asked : BOOLEAN]

\* The worker's job exists, and only policy runs are ever marked.
TypeOK ==
  /\ server \in {"up", "down", "recovering"} /\ crashes \in 0 .. MaxCrashes
  /\ request \in [Runs -> {"new", "snapshot", "inserted", "submitted", "leaked", "refused"}]
  /\ memory \in [Runs -> Manifests] /\ disk \in [Runs -> Manifests]
  /\ cancelled \subseteq PolicyRuns /\ queue \in Seq(Runs)
  /\ worker \in [run : Runs \union {"none"}, pc : Places, chunk : 0 .. Chunks]
  /\ worker.pc # "idle" => Job \in Runs /\ memory[Job].status # "none"
  /\ vae \in BOOLEAN /\ policy \in {"none", "loaded", "emptied"}

\* Requests that check the capacity, make a snapshot without the lock and insert do not
\* together exceed it (create_run, create_policy_run).
CapacityHolds == Cardinality(ActiveRuns) <= Capacity

\* The two models never share the GPU, whatever failed in the runs before (execute,
\* execute_policy, unload).
GpuExclusive == ~(vae /\ policy = "loaded")

\* A run the service shows as active is being created, queued or executed, or is the one
\* whose first save raised : none is left over from a process that died, or from a worker
\* that went on (the recovery, execute, execute_policy).
ActiveIsOwned ==
  Serving => \A r \in ActiveRuns :
    \/ request[r] \in {"inserted", "leaked"}
    \/ \E i \in 1 .. Len(queue) : queue[i] = r
    \/ worker.pc # "idle" /\ Job = r

\* The types, and that the runs that count as active are few and somebody's.
EvalInv == TypeOK /\ CapacityHolds /\ ActiveIsOwned

\* The manifest on disk goes through the life RunLifecycle describes, through every failed
\* save, death and restart : in particular a recorded cancellation wins over a completion
\* that was under way (cancel_run, the end of execute_policy, save_run).
Lifecycle == INSTANCE RunLifecycle WITH
  status <- [r \in Runs |-> disk[r].status], asked <- [r \in Runs |-> disk[r].asked]
LifecycleIsKept == Lifecycle!LifecycleSpec

\* A job the worker was given comes to an end, unless the process dies.
JobEnds ==
  \A r \in Runs :
    (\E i \in 1 .. Len(queue) : queue[i] = r)
      ~> (memory[r].status \in Ended /\ (worker.pc = "idle" \/ Job # r)) \/ server # "up"
=============================================================================
