---------------------------- MODULE RunLifecycle ----------------------------
(***************************************************************************)
(* What the evaluation service promises about the manifest of a run (the   *)
(* run.json it keeps) : it is born queued, ends once and never changes     *)
(* after, only a run that began completes, and a run whose cancellation is *)
(* on record never completes.  EvalRuns implements it.                     *)
(***************************************************************************)

CONSTANT Runs

VARIABLES
  status,  \* per run, the status its manifest shows
  asked    \* per run, its manifest records a request to cancel

lifecycleVars == <<status, asked>>

Active == {"queued", "running"}
Ended  == {"completed", "failed", "cancelled"}

LifecycleInit ==
  /\ status = [r \in Runs |-> "none"]
  /\ asked = [r \in Runs |-> FALSE]

\* A manifest is replaced as a whole ; a request on record stays.
Write(r, s, a) ==
  /\ asked[r] => a
  /\ status' = [status EXCEPT ![r] = s]
  /\ asked' = [asked EXCEPT ![r] = a]

Submit(r) == status[r] = "none" /\ \E a \in BOOLEAN : Write(r, "queued", a)

Ask(r) == status[r] \in Active /\ Write(r, status[r], TRUE)

Begin(r) == status[r] = "queued" /\ \E a \in BOOLEAN : Write(r, "running", a)

Complete(r) == status[r] = "running" /\ Write(r, "completed", FALSE)

Cancel(r) == status[r] \in Active /\ Write(r, "cancelled", TRUE)

Break(r) == status[r] \in Active /\ \E a \in BOOLEAN : Write(r, "failed", a)

LifecycleNext ==
  \E r \in Runs : Submit(r) \/ Ask(r) \/ Begin(r) \/ Complete(r) \/ Cancel(r) \/ Break(r)

LifecycleSpec == LifecycleInit /\ [][LifecycleNext]_lifecycleVars
=============================================================================
