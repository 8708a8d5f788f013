---------------------------- MODULE BaseArtifact ----------------------------
(***************************************************************************)
(* The base run directory the bridge serves beside a fine-tuned run :      *)
(* psi0_bridge/base_artifact.py and base_entry of psi0-isaac-eval.py.  A   *)
(* launch reuses the directory when it verifies, and otherwise builds a    *)
(* new one aside and swaps it in.  Launches follow one another ; any of    *)
(* them may fail or die at any step, a removal may break off half way, the *)
(* warm start may be replaced at any time, and the directory be damaged    *)
(* between launches.                                                       *)
(*                                                                         *)
(* Left out : key names and lengths, the formats of the files, temporary   *)
(* directories named for another pid.  A version of the warm start stands  *)
(* for the hash of its two files, a fine-tuned run for its run_config and  *)
(* argv, patched.                                                          *)
(***************************************************************************)
EXTENDS Integers

CONSTANTS
  Fines,       \* fine-tuned runs that share one base directory
  Cached,      \* those with a pooled text cache
  MaxVersion,  \* bound : versions of the warm start
  MaxLaunches  \* bound : launches

\* The names the model gives to no run, no directory and a part of one are no run's.
ASSUME BaseAssumption ==
  /\ Cached \subseteq Fines /\ {"none", "absent", "torn"} \intersect Fines = {}
  /\ MaxVersion \in Nat \ {0} /\ MaxLaunches \in Nat

VARIABLES
  pc, fine,  \* where the launch is, and for which run
  source,    \* the version the warm start has now
  out,       \* the served directory
  tmp,       \* the directory being built
  replaced,  \* .replaced : the directory taken out of the way
  launches,
  before,    \* history : out when the launch began
  doubt,     \* history : a record was written for weights it does not describe
  broke      \* history : the removal of a directory broke off

vars == <<pc, fine, source, out, tmp, replaced, launches, before, doubt, broke>>

Versions == 1 .. MaxVersion

NoFine == "none"
NoRecord == [fine |-> NoFine, source |-> -1, merged |-> -1]
Unhashed == 0  \* in a record that predates the fingerprints
Damaged == -1  \* weights that are none of the warm start's

Absent == [fine |-> "absent", cache |-> NoFine, weights |-> Damaged, record |-> NoRecord]
Torn   == [Absent EXCEPT !.fine = "torn"]  \* what rmtree has left of a directory
Empty  == [fine |-> NoFine, cache |-> NoFine, weights |-> Damaged, record |-> NoRecord]

CacheOf(f) == IF f \in Cached THEN f ELSE NoFine

\* What a build for run f from version v should give.
Built(f, v) == [fine |-> f, cache |-> CacheOf(f), weights |-> v,
                record |-> [fine |-> f, source |-> v, merged |-> v]]

\* An artifact of before the fingerprints.
Legacy(f) == [Built(f, 1) EXCEPT !.record.source = Unhashed, !.record.merged = Unhashed]

Init ==
  /\ pc = "idle" /\ fine \in Fines /\ source = 1 /\ launches = 0
  /\ out \in {Absent} \union {Legacy(f) : f \in Fines}
  /\ tmp = Absent /\ replaced = Absent
  /\ before = out /\ doubt = FALSE /\ broke = FALSE

Goto(from, to) == pc = from /\ pc' = to

-----------------------------------------------------------------------------
Launch ==
  /\ Goto("idle", "verify") /\ launches < MaxLaunches /\ launches' = launches + 1
  /\ fine' \in Fines /\ before' = out
  /\ UNCHANGED <<source, out, tmp, replaced, doubt, broke>>

\* Mutant : the record's own paths are all that is compared.
Sound_ByPath(d) == d # Absent /\ d.record.fine = fine

\* _verify_reuse : everything that is recorded must be what is found now ; a record that
\* predates the fingerprints holds the weights to nothing.
Sound(d) ==
  /\ d \notin {Absent, Torn} /\ d.fine = fine /\ d.cache = CacheOf(fine) /\ d.record.fine = fine
  /\ d.record.source \in {source, Unhashed}
  /\ d.record.merged \in {d.weights, Unhashed}

\* A sound directory is reused, and its record completed with the hashes found now.
Reuse ==
  /\ Goto("verify", "ready") /\ Sound(out)
  /\ out' = [out EXCEPT !.record.source = source, !.record.merged = out.weights]
  /\ doubt' = (doubt \/ (out.record.source = Unhashed /\ out.weights # source))
  /\ UNCHANGED <<fine, source, tmp, replaced, launches, before, broke>>

Rebuild ==
  /\ Goto("verify", "clean") /\ ~Sound(out)
  /\ UNCHANGED <<fine, source, out, tmp, replaced, launches, before, doubt, broke>>

\* _cleanup_stale_temps
CleanTemps ==
  /\ Goto("clean", "config") /\ tmp' = Absent
  /\ UNCHANGED <<fine, source, out, replaced, launches, before, doubt, broke>>

\* The directory, the patched configuration and the cache, if the run has one.
CopyRun ==
  /\ Goto("config", "merge")
  /\ LET d == IF tmp = Absent THEN Empty ELSE tmp
     IN  tmp' = [d EXCEPT !.fine = fine, !.cache = IF fine \in Cached THEN fine ELSE @]
  /\ UNCHANGED <<fine, source, out, replaced, launches, before, doubt, broke>>

\* _merge_state_dict
MergeWeights ==
  /\ Goto("merge", "record") /\ tmp' = [tmp EXCEPT !.weights = source]
  /\ UNCHANGED <<fine, source, out, replaced, launches, before, doubt, broke>>

\* The record takes the hashes of the warm start after it was merged.
WriteRecord ==
  /\ Goto("record", "clear")
  /\ tmp' = [tmp EXCEPT !.record = [fine |-> fine, source |-> source, merged |-> tmp.weights]]
  /\ doubt' = (doubt \/ tmp.weights # source)
  /\ UNCHANGED <<fine, source, out, replaced, launches, before, broke>>

\* _replace_dir.  rmtree takes the files one by one, ...
TearReplaced ==
  /\ pc \in {"clear", "reclaim"} /\ replaced # Absent /\ replaced' = Torn /\ broke' = TRUE
  /\ UNCHANGED <<pc, fine, source, out, tmp, launches, before, doubt>>

\* ... ignores what it cannot remove, and may be through.
ClearReplaced ==
  /\ Goto("clear", "park") /\ replaced' \in {replaced, Absent}
  /\ UNCHANGED <<fine, source, out, tmp, launches, before, doubt, broke>>

\* Mutant : the old directory is removed, not renamed.
ParkOld_Removes ==
  /\ Goto("park", "swap") /\ out' = Absent
  /\ UNCHANGED <<fine, source, tmp, replaced, launches, before, doubt, broke>>

\* A rename succeeds over a directory of which only the emptied top is left.
ParkOld ==
  /\ Goto("park", "swap")
  /\ \/ out = Absent /\ UNCHANGED <<out, replaced>>
     \/ out # Absent /\ replaced \in {Absent, Torn} /\ replaced' = out /\ out' = Absent
  /\ UNCHANGED <<fine, source, tmp, launches, before, doubt, broke>>

\* Mutant : the new directory is copied, not renamed.
SwapIn_Copies ==
  /\ pc = "swap"
  /\ \/ pc' = "reclaim" /\ out' = tmp /\ tmp' = Absent
     \/ UNCHANGED <<pc, tmp>> /\ out' = Torn
  /\ UNCHANGED <<fine, source, replaced, launches, before, doubt, broke>>

SwapIn ==
  /\ Goto("swap", "reclaim") /\ out' = tmp /\ tmp' = Absent
  /\ UNCHANGED <<fine, source, replaced, launches, before, doubt, broke>>

\* The rename raised : whatever was put aside comes back, unless that rename raises too.
SwapFails ==
  /\ Goto("swap", "failed") /\ tmp' = Absent
  /\ \/ UNCHANGED <<out, replaced>>
     \/ replaced # Absent /\ out = Absent /\ out' = replaced /\ replaced' = Absent
  /\ UNCHANGED <<fine, source, launches, before, doubt, broke>>

ReclaimOld ==
  /\ Goto("reclaim", "ready") /\ replaced' \in {replaced, Absent}
  /\ UNCHANGED <<fine, source, out, tmp, launches, before, doubt, broke>>

\* A file cannot be read or written, the warm start is missing, a directory that could not
\* be removed is in the way of the old one : the base is unavailable.
BuildFails ==
  /\ pc \in {"config", "merge", "record", "park"} /\ pc' = "failed" /\ tmp' = Absent
  /\ UNCHANGED <<fine, source, out, replaced, launches, before, doubt, broke>>

\* The session ends, or its process dies at whatever step.
Leave ==
  /\ pc # "idle" /\ pc' = "idle"
  /\ UNCHANGED <<fine, source, out, tmp, replaced, launches, before, doubt, broke>>

-----------------------------------------------------------------------------
\* Another warm start is put in the place of the one a run config names.
ReplaceSource ==
  /\ source < MaxVersion /\ source' = source + 1
  /\ UNCHANGED <<pc, fine, out, tmp, replaced, launches, before, doubt, broke>>

Damage ==
  /\ pc = "idle" /\ out \notin {Absent, Torn} /\ out' = [out EXCEPT !.weights = Damaged]
  /\ UNCHANGED <<pc, fine, source, tmp, replaced, launches, before, doubt, broke>>

Next ==
  \/ Launch \/ Reuse \/ Rebuild \/ CleanTemps \/ CopyRun \/ MergeWeights \/ WriteRecord
  \/ TearReplaced \/ ClearReplaced \/ ParkOld \/ SwapIn \/ SwapFails \/ ReclaimOld
  \/ BuildFails \/ Leave \/ ReplaceSource \/ Damage

Spec == Init /\ [][Next]_vars

-----------------------------------------------------------------------------
Steps == {"idle", "verify", "clean", "config", "merge", "record", "clear", "park", "swap",
          "reclaim", "ready", "failed"}
Weights == Versions \union {Damaged}
Records == [fine : Fines, source : Versions \union {Unhashed}, merged : Weights \union {Unhashed}]
Whole == [fine : Fines, cache : Fines \union {NoFine}, weights : Weights, record : Records]

TypeOK ==
  /\ {out, replaced, before} \subseteq Whole \union {Absent, Torn}
  /\ pc \in Steps /\ fine \in Fines /\ source \in Versions /\ launches \in 0 .. MaxLaunches
  /\ tmp \in {Absent} \union
       [fine : Fines \union {NoFine}, cache : Fines \union {NoFine}, weights : Weights,
        record : Records \union {NoRecord}]
  /\ doubt \in BOOLEAN /\ broke \in BOOLEAN

\* The served path never holds a part of a directory, wherever a build or a swap stops
\* (materialize_base_run_dir, _replace_dir).  The exception : what a removal that broke off
\* has left of the copy put aside may be put back.
ServedIsWhole == out \in Whole \union {Absent} \/ (broke /\ out = Torn)

ArtifactInv == TypeOK /\ ServedIsWhole

\* A launch that dies or fails wherever it may, also while it puts the old directory back,
\* loses no whole directory it found : that one is served or put aside, until another
\* whole one is served ; a launch that fails always keeps the one it found ("a failed
\* rebuild leaves the previous one intact", _replace_dir).
PreviousKept ==
  before \in Whole => before \in {out, replaced} \/ (out \in Whole /\ pc # "failed")

\* _replace_dir's docstring : "a crash between the two renames leaves the previous copy as
\* .replaced (the next successful build reclaims it)".  Not so : the next build removes it
\* before it has anything to serve in its place.
OldWaitsForSuccess ==
  [][replaced' # replaced /\ replaced \in Whole => out' \in Whole]_vars

\* The same docstring : "the target never holds a partial dir".
NeverPartial == out # Torn

\* What a launch goes on to serve is this run's configuration with this run's cache and no
\* other's, and the weights its record describes ; and what it reuses is the warm start of
\* now (_verify_reuse).  The exception is a record that was written for weights it does not
\* describe : a warm start replaced between the merge and its hash, or an old record.
ReadyIsSound ==
  [][pc # "ready" /\ pc' = "ready" =>
       /\ out'.fine = fine /\ out'.cache = CacheOf(fine) /\ out'.record.fine = fine
       /\ out'.weights = out'.record.source \/ doubt'
       /\ pc = "verify" => out'.weights = source \/ doubt']_vars
=============================================================================
