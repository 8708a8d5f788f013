----------------------------- MODULE FileProofs -----------------------------
(***************************************************************************)
(* Theorems about the two components that keep files across commands which *)
(* fail or are killed.                                                     *)
(*                                                                         *)
(* BaseArtifact, for any runs, any number of launches and of warm starts : *)
(* what is served is a whole directory, unless a removal broke off, no     *)
(* launch loses the whole directory it found, however it fails or dies,    *)
(* and what a launch goes on to serve is sound.  The invariant says what   *)
(* the directory being built holds at each step of the build, where the    *)
(* old one is meanwhile, and that the hashes in a record that is read back *)
(* are those of the warm start.                                            *)
(*                                                                         *)
(* TrainingPack, for any split, any lengths and any versions of the code : *)
(* what a conversion reports is there, and in a pack that ends well the    *)
(* validator finds every episode again.  The inductive invariant says what *)
(* each of the two commands has behind it : the conversion its episodes,   *)
(* the packing its rows, and the clips the pool has let go of.             *)
(***************************************************************************)
EXTENDS BaseArtifact, TrainingPack, FiniteSetTheorems, WellFoundedInduction, TLAPS

-----------------------------------------------------------------------------
(* The base artifact *)

USE BaseAssumption DEF Versions, Weights, Unhashed, Damaged, NoFine, Goto

-----------------------------------------------------------------------------
\* The configuration and the cache of run f are copied, the weights not yet.
Copied(d, f) ==
  d = [fine |-> f, cache |-> CacheOf(f), weights |-> Damaged, record |-> NoRecord]

\* The weights are merged from some version, the record not yet written.
Merged(d, f) ==
  \E v \in Versions : d = [fine |-> f, cache |-> CacheOf(f), weights |-> v, record |-> NoRecord]

\* The directory is complete : its record names the weights it holds, and says that they
\* come from the version that was hashed, unless that was another by then (odd).
Complete(d, f, odd) ==
  \E v, w \in Versions :
    /\ d = [fine |-> f, cache |-> CacheOf(f), weights |-> w,
            record |-> [fine |-> f, source |-> v, merged |-> w]]
    /\ v = w \/ odd

\* What each step of a build has done.
BuildInv ==
  /\ pc = "config" => tmp = Absent
  /\ pc = "merge" => Copied(tmp, fine)
  /\ pc = "record" => Merged(tmp, fine)
  /\ pc \in {"clear", "park", "swap"} => Complete(tmp, fine, doubt)
  /\ pc = "reclaim" => Complete(out, fine, doubt)

\* Where the directory that was served at the launch is until the new one is in its place.
OldInv ==
  /\ pc \in {"verify", "clean", "config", "merge", "record", "clear", "park"} => out = before
  /\ pc = "swap" => out = Absent /\ (replaced = before \/ before = Absent)
  /\ pc \in {"reclaim", "ready"} => out \in Whole
  /\ PreviousKept

\* A record with fingerprints names weights, and those of the version it names.
Honest(d, odd) ==
  d \in Whole /\ d.record.source # Unhashed =>
    /\ d.record.merged # Unhashed
    /\ d.record.merged = d.record.source \/ odd

\* Only a removal that breaks off leaves a part of a directory.
TornInv == Torn \in {out, replaced} => broke

BaseInv == TypeOK /\ TornInv /\ BuildInv /\ OldInv /\ Honest(out, doubt) /\ Honest(replaced, doubt)

-----------------------------------------------------------------------------
(* The directories *)

\* A directory is none of the places where there is none, and its four parts are typed.
LEMMA WholeParts ==
  ASSUME NEW d \in Whole
  PROVE  /\ d # Absent /\ d.fine \in Fines /\ d.weights \in Weights
         /\ d.cache \in Fines \union {NoFine} /\ d.record \in Records
         /\ d.record.fine \in Fines /\ d.record.source \in Versions \union {0}
         /\ d.record.merged \in Weights \union {0}
  BY DEF Whole, Records, Absent

\* Where there is no directory, or a part of one, there is no run's.
LEMMA NoneIsWhole == Absent \notin Whole /\ Torn \notin Whole /\ Torn # Absent
<1>1. Absent.fine = "absent" /\ Torn.fine = "torn" BY DEF Absent, Torn
<1>2. Absent \notin Whole BY <1>1 DEF Whole
<1>3. Torn \notin Whole BY <1>1 DEF Whole
<1>4. Torn # Absent BY <1>1
<1> QED BY <1>2, <1>3, <1>4

LEMMA CacheTyped == \A f \in Fines : CacheOf(f) \in Fines \union {NoFine}
  BY DEF CacheOf

\* What a build ends with is a whole directory, and its record is honest.
LEMMA CompleteIsWhole ==
  ASSUME NEW d, NEW f \in Fines, NEW odd, Complete(d, f, odd)
  PROVE  d \in Whole /\ Honest(d, odd)
<1>1. PICK v \in Versions, w \in Versions :
        /\ d = [fine |-> f, cache |-> CacheOf(f), weights |-> w,
                record |-> [fine |-> f, source |-> v, merged |-> w]]
        /\ v = w \/ odd
  BY DEF Complete
<1>2. [fine |-> f, source |-> v, merged |-> w] \in Records BY DEF Records
<1>3. d \in Whole BY <1>1, <1>2, CacheTyped DEF Whole
<1>4. Honest(d, odd) BY <1>1 DEF Honest
<1> QED BY <1>3, <1>4

\* A directory whose weights are damaged is a whole one with the same record.
LEMMA DamagedIsWhole ==
  ASSUME NEW d \in Whole, NEW odd, Honest(d, odd)
  PROVE  /\ [d EXCEPT !.weights = Damaged] \in Whole
         /\ Honest([d EXCEPT !.weights = Damaged], odd)
  BY WholeParts DEF Whole, Honest

\* _verify_reuse completes the record of the directory it reuses, and nothing else in it.
LEMMA RecordReplaced ==
  ASSUME NEW d \in Whole, NEW v \in Versions \union {0}, NEW w \in Weights \union {0}
  PROVE  [d EXCEPT !.record.source = v, !.record.merged = w] \in Whole
<1>1. d.record \in Records BY WholeParts
<1>2. [d.record EXCEPT !.source = v, !.merged = w] \in Records
  BY <1>1 DEF Records
<1> QED BY <1>2 DEF Whole

-----------------------------------------------------------------------------
(* The invariant *)

LEMMA BaseInit == Init => BaseInv
<1> SUFFICES ASSUME Init PROVE BaseInv OBVIOUS
<1>1. ASSUME NEW f \in Fines PROVE Legacy(f) \in Whole /\ Honest(Legacy(f), FALSE)
  <2>1. [fine |-> f, source |-> 1, merged |-> 1] \in Records BY DEF Records
  <2>2. Built(f, 1) \in Whole BY <2>1, CacheTyped DEF Built, Whole
  <2>3. ASSUME NEW d \in Whole
        PROVE  LET e == [d EXCEPT !.record.source = 0, !.record.merged = 0]
               IN  e \in Whole /\ e.record.source = 0
    <3>1. [d EXCEPT !.record.source = 0, !.record.merged = 0] \in Whole
      BY <2>3, RecordReplaced
    <3>2. [d EXCEPT !.record.source = 0, !.record.merged = 0].record.source = 0
      BY <2>3, WholeParts DEF Records, Whole
    <3> QED BY <3>1, <3>2
  <2> QED BY <2>2, <2>3 DEF Legacy, Honest
<1>2. /\ out \in Whole \union {Absent} /\ Honest(out, doubt)
      /\ replaced = Absent /\ Honest(replaced, doubt)
  BY <1>1, NoneIsWhole DEF Init, Honest
<1>3. TypeOK
  <2>1. {out, replaced, before} \subseteq Whole \union {Absent, Torn} BY <1>2 DEF Init
  <2>2. 1 \in Versions /\ 0 \in 0 .. MaxLaunches BY SMT
  <2> QED BY <2>1, <2>2 DEF Init, TypeOK, Steps
<1>4. TornInv BY <1>2, NoneIsWhole DEF TornInv
<1> QED BY <1>2, <1>3, <1>4 DEF Init, BaseInv, BuildInv, OldInv, PreviousKept

\* The parts of the invariant that say nothing of the step the launch is at.
Lasting ==
  /\ {out, replaced, before} \subseteq Whole \union {Absent, Torn} /\ TornInv
  /\ Honest(out, doubt) /\ Honest(replaced, doubt)

\* What is being built is any directory, or none.
Parts == {Absent} \union
           [fine : Fines \union {NoFine}, cache : Fines \union {NoFine}, weights : Weights,
            record : Records \union {NoRecord}]

Control ==
  /\ pc \in Steps /\ fine \in Fines /\ source \in Versions /\ launches \in 0 .. MaxLaunches
  /\ doubt \in BOOLEAN /\ broke \in BOOLEAN

LEMMA InvParts == BaseInv <=> Lasting /\ Control /\ tmp \in Parts /\ BuildInv /\ OldInv
  BY DEF BaseInv, TypeOK, Lasting, Control, Parts

LEMMA InvPartsNext ==
  BaseInv' <=> Lasting' /\ Control' /\ (tmp \in Parts)' /\ BuildInv' /\ OldInv'
  BY DEF BaseInv, TypeOK, Lasting, Control, Parts

\* Each directory a build goes through is one that can be being built.
LEMMA PartsTyped ==
  ASSUME NEW d, NEW f \in Fines, NEW odd, Copied(d, f) \/ Merged(d, f) \/ Complete(d, f, odd)
  PROVE  d \in Parts
<1>1. Whole \subseteq Parts BY DEF Whole, Parts
<1>2. CASE Copied(d, f) BY <1>2, CacheTyped DEF Copied, Parts
<1>3. CASE Merged(d, f) BY <1>3, CacheTyped DEF Merged, Parts
<1>4. CASE Complete(d, f, odd) BY <1>1, <1>4, CompleteIsWhole
<1> QED BY <1>2, <1>3, <1>4

\* What a step that moves none of the served directories keeps.
LEMMA LastingFrame ==
  ASSUME Lasting, UNCHANGED <<out, replaced, broke>>, doubt => doubt',
         before' = before \/ before' = out
  PROVE  Lasting'
  BY DEF Lasting, TornInv, Honest

\* Every step of a launch, of the operator and of the disk keeps the invariant.
LEMMA BaseStep == BaseInv /\ [Next]_vars => BaseInv'
<1> SUFFICES ASSUME BaseInv, [Next]_vars PROVE BaseInv' OBVIOUS
<1>0. Lasting /\ Control /\ tmp \in Parts /\ BuildInv /\ OldInv BY InvParts
<1> SUFFICES Lasting' /\ Control' /\ (tmp \in Parts)' /\ BuildInv' /\ OldInv' BY InvPartsNext
<1> USE DEF Steps
<1>p. Parts' = Parts BY DEF Parts
<1>1. CASE UNCHANGED vars
  BY <1>0, <1>1, <1>p DEF vars, Lasting, TornInv, Control, BuildInv, OldInv, PreviousKept, Honest,
                     Copied, Merged, Complete, CacheOf
<1>2. CASE Launch \/ Rebuild \/ CleanTemps \/ BuildFails \/ Leave
  <2>1. Lasting' BY <1>0, <1>2, LastingFrame DEF Launch, Rebuild, CleanTemps, BuildFails, Leave
  <2>2. Control' BY <1>0, <1>2 DEF Launch, Rebuild, CleanTemps, BuildFails, Leave, Control
  <2>3. (tmp \in Parts)'
    BY <1>0, <1>2, <1>p DEF Launch, Rebuild, CleanTemps, BuildFails, Leave, Parts
  <2>4. BuildInv' BY <1>0, <1>2 DEF Launch, Rebuild, CleanTemps, BuildFails, Leave, BuildInv
  <2>5. OldInv' BY <1>0, <1>2 DEF Launch, Rebuild, CleanTemps, BuildFails, Leave, OldInv, PreviousKept
  <2> QED BY <2>1, <2>2, <2>3, <2>4, <2>5
<1>3. CASE Reuse
  <2>1. out \in Whole /\ source \in Versions
    BY <1>0, <1>3 DEF Reuse, Sound, Lasting, TornInv, Control
  <2>2. out.weights \in Weights BY <2>1, WholeParts
  <2>3. out' = [out EXCEPT !.record.source = source, !.record.merged = out.weights]
    BY <1>3 DEF Reuse
  <2>4. out' \in Whole /\ out'.record.source = source /\ out'.record.merged = out.weights
    <3>1. out' \in Whole BY <2>1, <2>2, <2>3, RecordReplaced
    <3> QED BY <2>1, <2>3, <3>1, WholeParts DEF Records, Whole
  <2>5. out.weights = source \/ doubt'
    BY <1>0, <1>3, <2>1 DEF Reuse, Sound, Lasting, Honest
  <2>6. Honest(out, doubt)' BY <2>2, <2>4, <2>5 DEF Honest
  <2>7. Lasting'
    BY <1>0, <1>3, <2>4, <2>6, NoneIsWhole DEF Reuse, Lasting, TornInv, Honest
  <2>8. Control' BY <1>0, <1>3 DEF Reuse, Control
  <2>9. (tmp \in Parts)' BY <1>0, <1>3, <1>p DEF Reuse
  <2>10. BuildInv' /\ OldInv' BY <1>3, <2>4 DEF Reuse, BuildInv, OldInv, PreviousKept
  <2> QED BY <2>7, <2>8, <2>9, <2>10
<1>4. CASE CopyRun
  <2>1. Copied(tmp, fine)'
    BY <1>0, <1>4 DEF CopyRun, BuildInv, Copied, CacheOf, Empty
  <2>2. Lasting' BY <1>0, <1>4, LastingFrame DEF CopyRun
  <2>3. Control' BY <1>0, <1>4 DEF CopyRun, Control
  <2>4. (tmp \in Parts)' BY <1>p, <2>1, <2>3, PartsTyped DEF Control
  <2>5. BuildInv' /\ OldInv' BY <1>0, <1>4, <2>1 DEF CopyRun, BuildInv, OldInv, PreviousKept
  <2> QED BY <2>2, <2>3, <2>4, <2>5
<1>5. CASE MergeWeights
  <2>1. Merged(tmp, fine)'
    BY <1>0, <1>5 DEF MergeWeights, BuildInv, Copied, Merged, CacheOf, Control
  <2>2. Lasting' BY <1>0, <1>5, LastingFrame DEF MergeWeights
  <2>3. Control' BY <1>0, <1>5 DEF MergeWeights, Control
  <2>4. (tmp \in Parts)' BY <1>p, <2>1, <2>3, PartsTyped DEF Control
  <2>5. BuildInv' /\ OldInv' BY <1>0, <1>5, <2>1 DEF MergeWeights, BuildInv, OldInv, PreviousKept
  <2> QED BY <2>2, <2>3, <2>4, <2>5
<1>6. CASE WriteRecord
  <2>1. Complete(tmp, fine, doubt)'
    <3>1. PICK w \in Versions :
            tmp = [fine |-> fine, cache |-> CacheOf(fine), weights |-> w, record |-> NoRecord]
      BY <1>0, <1>6 DEF WriteRecord, BuildInv, Merged
    <3>2. tmp' = [fine |-> fine, cache |-> CacheOf(fine), weights |-> w,
                  record |-> [fine |-> fine, source |-> source, merged |-> w]]
      BY <1>6, <3>1 DEF WriteRecord
    <3>3. source = w \/ doubt' BY <1>6, <3>1 DEF WriteRecord
    <3>4. CacheOf(fine)' = CacheOf(fine) /\ fine' = fine BY <1>6 DEF WriteRecord, CacheOf
    <3> HIDE DEF Versions
    <3>5. Complete(tmp', fine, doubt') BY <1>0, <3>2, <3>3 DEF Complete, Control
    <3> QED BY <3>4, <3>5 DEF Complete, CacheOf
  <2>2. Lasting' BY <1>0, <1>6, LastingFrame DEF WriteRecord
  <2>3. Control' BY <1>0, <1>6 DEF WriteRecord, Control
  <2>4. (tmp \in Parts)' BY <1>p, <2>1, <2>3, PartsTyped DEF Control
  <2>5. BuildInv' /\ OldInv' BY <1>0, <1>6, <2>1 DEF WriteRecord, BuildInv, OldInv, PreviousKept
  <2> QED BY <2>2, <2>3, <2>4, <2>5
<1>7. CASE TearReplaced \/ ClearReplaced \/ ReclaimOld
  <2>1. UNCHANGED <<fine, source, out, tmp, launches, before, doubt>>
    BY <1>7 DEF TearReplaced, ClearReplaced, ReclaimOld
  <2>2. replaced' \in {replaced, Absent, Torn} /\ (broke => broke') /\ broke' \in BOOLEAN
    BY <1>0, <1>7 DEF TearReplaced, ClearReplaced, ReclaimOld, Control
  <2>3. replaced' = Torn /\ replaced # Torn => broke'
    BY <1>7, NoneIsWhole DEF TearReplaced, ClearReplaced, ReclaimOld
  <2>4. Honest(replaced, doubt)'
    BY <1>0, <2>1, <2>2, NoneIsWhole DEF Lasting, Honest, Whole, Records
  <2>5. Lasting' BY <1>0, <2>1, <2>2, <2>3, <2>4 DEF Lasting, TornInv, Honest, Whole, Records
  <2>6. Control' /\ (tmp \in Parts)'
    BY <1>0, <1>7, <1>p, <2>1, <2>2 DEF TearReplaced, ClearReplaced, ReclaimOld, Control
  <2>7. BuildInv'
    BY <1>0, <1>7, <2>1 DEF TearReplaced, ClearReplaced, ReclaimOld, BuildInv, Complete, CacheOf
  <2>8. OldInv'
    <3>1. \/ pc = "clear" /\ pc' \in {"clear", "park"} /\ out' = before
          \/ pc = "reclaim" /\ pc' \in {"reclaim", "ready"} /\ out' \in Whole
      BY <1>0, <1>7, <2>1 DEF TearReplaced, ClearReplaced, ReclaimOld, OldInv
    <3> QED BY <2>1, <3>1 DEF OldInv, PreviousKept, Whole, Records
  <2> QED BY <2>5, <2>6, <2>7, <2>8
<1>8. CASE ParkOld
  <2>1. Lasting'
    BY <1>0, <1>8, NoneIsWhole DEF ParkOld, Lasting, TornInv, Honest
  <2>2. Control' /\ (tmp \in Parts)' BY <1>0, <1>8, <1>p DEF ParkOld, Control
  <2>3. BuildInv' BY <1>0, <1>8 DEF ParkOld, BuildInv
  <2>4. OldInv' BY <1>0, <1>8, NoneIsWhole DEF ParkOld, OldInv, PreviousKept
  <2> QED BY <2>1, <2>2, <2>3, <2>4
<1>9. CASE SwapIn
  <2>0. Complete(tmp, fine, doubt) BY <1>0, <1>9 DEF SwapIn, BuildInv
  <2>1. Complete(out, fine, doubt)' BY <1>9, <2>0 DEF SwapIn, Complete, CacheOf
  <2>2. Control' /\ (tmp \in Parts)' BY <1>0, <1>9, <1>p DEF SwapIn, Control, Parts
  <2>3. Lasting'
    <3>1. tmp \in Whole /\ Honest(tmp, doubt) BY <1>0, <2>0, CompleteIsWhole DEF Control
    <3> QED BY <1>0, <1>9, <3>1, NoneIsWhole DEF SwapIn, Lasting, TornInv, Honest
  <2>4. tmp \in Whole BY <1>0, <2>0, CompleteIsWhole DEF Control
  <2>5. OldInv'
    <3>1. pc' = "reclaim" /\ out' \in Whole BY <1>9, <2>4 DEF SwapIn, Whole, Records
    <3> QED BY <3>1 DEF OldInv, PreviousKept
  <2>6. BuildInv' BY <1>9, <2>1 DEF SwapIn, BuildInv
  <2> QED BY <2>2, <2>3, <2>5, <2>6
<1>10. CASE SwapFails
  <2>1. Lasting'
    BY <1>0, <1>10, NoneIsWhole DEF SwapFails, Lasting, TornInv, Honest
  <2>2. Control' /\ (tmp \in Parts)' BY <1>0, <1>10, <1>p DEF SwapFails, Control, Parts
  <2>3. BuildInv' BY <1>10 DEF SwapFails, BuildInv
  <2>4. OldInv' BY <1>0, <1>10 DEF SwapFails, OldInv, PreviousKept
  <2> QED BY <2>1, <2>2, <2>3, <2>4
<1>11. CASE ReplaceSource
  <2>1. Lasting' BY <1>0, <1>11, LastingFrame DEF ReplaceSource
  <2>2. Control' /\ (tmp \in Parts)' BY <1>0, <1>11, <1>p DEF ReplaceSource, Control
  <2>3. BuildInv' BY <1>0, <1>11 DEF ReplaceSource, BuildInv
  <2>4. OldInv' BY <1>0, <1>11 DEF ReplaceSource, OldInv, PreviousKept
  <2> QED BY <2>1, <2>2, <2>3, <2>4
<1>12. CASE Damage
  <2>1. out \in Whole /\ Honest(out, doubt) BY <1>0, <1>12 DEF Damage, Lasting, TornInv
  <2>2. Lasting'
    BY <1>0, <1>12, <2>1, DamagedIsWhole, NoneIsWhole DEF Damage, Lasting, TornInv, Honest
  <2>3. Control' /\ (tmp \in Parts)' BY <1>0, <1>12, <1>p DEF Damage, Control
  <2>4. BuildInv' /\ OldInv'
    <3>1. pc' = "idle" /\ out' \in Whole BY <1>12, <2>1, DamagedIsWhole DEF Damage, Whole, Records
    <3> QED BY <3>1 DEF BuildInv, OldInv, PreviousKept
  <2> QED BY <2>2, <2>3, <2>4
<1> QED BY <1>1, <1>2, <1>3, <1>4, <1>5, <1>6, <1>7, <1>8, <1>9, <1>10, <1>11, <1>12 DEF Next

-----------------------------------------------------------------------------
(* The theorems *)

\* The inductive invariant holds of every launch.
THEOREM BaseInvariant == Spec => []BaseInv
<1>1. Init => BaseInv BY BaseInit
<1>2. BaseInv /\ [Next]_vars => BaseInv' BY BaseStep
<1> QED BY <1>1, <1>2, PTL DEF Spec

\* The served path holds a whole directory or none, whatever step a build, a swap or the
\* process stops at, unless a removal that broke off left a part to be put back
\* (materialize_base_run_dir, _replace_dir).
THEOREM ArtifactCorrect == Spec => []ArtifactInv
<1>1. BaseInv => ArtifactInv
  BY DEF BaseInv, ArtifactInv, TypeOK, TornInv, ServedIsWhole
<1> QED BY <1>1, BaseInvariant, PTL

\* Wherever a launch dies or fails, the whole directory it found is served or put aside
\* until another whole one is served, also when the directory cannot be put back
\* (_replace_dir).
THEOREM PreviousSurvives == Spec => []PreviousKept
<1>1. BaseInv => PreviousKept BY DEF BaseInv, OldInv
<1> QED BY <1>1, BaseInvariant, PTL

\* A launch goes on to serve its own run's configuration and cache and the weights its
\* record names, and reuses the warm start of now, unless a record was written for weights
\* it does not describe (_verify_reuse, _merge_state_dict).
THEOREM ReadyCorrect == Spec => ReadyIsSound
<1> DEFINE Ready ==
      pc # "ready" /\ pc' = "ready" =>
        /\ out'.fine = fine /\ out'.cache = CacheOf(fine) /\ out'.record.fine = fine
        /\ out'.weights = out'.record.source \/ doubt'
        /\ pc = "verify" => out'.weights = source \/ doubt'
<1>1. BaseInv /\ [Next]_vars => [Ready]_vars
  <2> SUFFICES ASSUME BaseInv, Next, pc # "ready", pc' = "ready" PROVE Ready
    BY DEF vars
  <2>1. CASE Reuse
    <3>1. out \in Whole BY <2>1 DEF Reuse, Sound, BaseInv, TypeOK
    <3>2. /\ out'.fine = out.fine /\ out'.cache = out.cache /\ out'.weights = out.weights
          /\ out'.record.fine = out.record.fine /\ out'.record.source = source
      BY <2>1, <3>1, WholeParts DEF Reuse, Whole, Records
    <3>3. out.weights = source \/ doubt'
      BY <2>1, <3>1 DEF Reuse, Sound, BaseInv, Honest
    <3> QED BY <2>1, <3>2, <3>3 DEF Reuse, Sound
  <2>2. CASE ReclaimOld
    <3>1. Complete(out, fine, doubt) BY <2>2 DEF ReclaimOld, BaseInv, BuildInv
    <3> QED BY <2>2, <3>1 DEF ReclaimOld, Complete
  <2> QED BY <2>1, <2>2
       DEF Next, Launch, Rebuild, CleanTemps, CopyRun, MergeWeights, WriteRecord, ClearReplaced,
           TearReplaced, ParkOld, SwapIn, SwapFails, BuildFails, Leave, ReplaceSource, Damage
<1> QED BY <1>1, BaseInvariant, PTL DEF Spec, ReadyIsSound

-----------------------------------------------------------------------------
(* The training pack *)

HIDE BaseAssumption DEF Versions, Weights, Unhashed, Damaged, NoFine, Goto
USE PackAssumption DEF Codes, None, Partial

Artifacts == [action : Codes \union {None}, manifest : Codes \union {None}]
Rows == [source : Sources \union {None}, version : Codes \union {None}]
Clips == Sources \union {None, Partial}

FilesTyped ==
  /\ code \in Codes /\ corpus \in [Sources -> Artifacts]
  /\ rows \in [Numbers -> Rows] /\ clips \in [Numbers -> Clips]
  /\ listed \in Selections \union {<<>>} /\ info \in {0} \union Numbers
  /\ starts \in 0 .. MaxStarts

\* No episode of the corpus is an artifact under the manifest of another.
OneHash ==
  \A s \in Sources : None \in {corpus[s].action, corpus[s].manifest}
                       \/ corpus[s].action = corpus[s].manifest

ConvTyped ==
  conv \in [pc : {"idle", "look", "build", "remove", "done"}, asked : SUBSET Sources,
            todo : SUBSET Sources, version : Codes \union {None}, force : BOOLEAN,
            failed : SUBSET Sources]

\* The conversion works on an episode that is still to be done, and each one behind it is
\* there whole, of its own code, unless it failed.
ConvInv ==
  /\ conv.todo \union conv.failed \subseteq conv.asked
  /\ conv.pc # "idle" => conv.version \in Codes
  /\ conv.pc \in {"build", "remove"} => conv.todo # {}
  /\ conv.pc = "done" => conv.todo = {}
  /\ conv.pc # "idle" =>
       \A s \in conv.asked \ (conv.failed \union conv.todo) :
         corpus[s] = [action |-> conv.version, manifest |-> conv.version]

JobTyped ==
  job \in [pc : {"idle", "add", "abort", "info", "done"}, sel : Selections \union {<<>>},
           next : Nat \ {0}, force : BOOLEAN, queue : SUBSET Numbers, active : SUBSET Numbers,
           broken : BOOLEAN]

\* The episodes the main thread has behind it.
Added == 1 .. job.next - 1

\* Number n has a video of the right length, and of the right episode when it was made anew.
Shown(n) ==
  /\ clips[n] \in Sources /\ Frames[clips[n]] = Frames[job.sel[n]]
  /\ job.force => clips[n] = job.sel[n]

RowsInv ==
  \A n \in Added :
    /\ job.sel[n] \in Sources /\ corpus[job.sel[n]].action # None
    /\ rows[n] = [source |-> job.sel[n], version |-> corpus[job.sel[n]].action]

\* The pool has made every video it has let go of, as long as none of its threads failed.
PoolInv ==
  /\ job.queue \union job.active \subseteq Added /\ job.queue \cap job.active = {}
  /\ ~job.broken => \A n \in Added \ (job.queue \union job.active) : Shown(n)

EndInv ==
  /\ job.pc \in {"info", "done"} =>
       job.next = Len(job.sel) + 1 /\ Joined /\ ~job.broken /\ listed = job.sel
  /\ job.pc = "done" => info = Len(job.sel)

JobInv ==
  /\ job.pc # "idle" => job.sel \in Selections
  /\ job.pc = "idle" => job = IdleJob
  /\ job.next <= Len(job.sel) + 1
  /\ RowsInv /\ PoolInv /\ EndInv

FilesInv ==
  /\ FilesTyped /\ OneHash /\ DeclaredHasRows
  /\ ConvTyped /\ ConvInv
  /\ JobTyped /\ JobInv
  /\ "idle" \in {conv.pc, job.pc}

-----------------------------------------------------------------------------
(* Lemmas on selections *)

\* The numbers of the pack are counted.
LEMMA NumbersTyped == Cardinality(Sources) \in Nat
  BY FS_CardinalityType

\* A selection is a sequence of episodes that is not empty and has room in the pack.
LEMMA SelectionTyped ==
  ASSUME NEW sel \in Selections
  PROVE  /\ sel \in Seq(Sources) /\ Len(sel) \in Nat \ {0} /\ sel # <<>>
         /\ \A n \in 1 .. Len(sel) : n \in Numbers /\ sel[n] \in Sources
<1>1. sel \in Seq(Sources) /\ Len(sel) \in Numbers BY SelectionAssumption
<1>2. Len(sel) \in Nat \ {0} /\ \A n \in 1 .. Len(sel) : n \in Numbers
  BY <1>1, NumbersTyped DEF Numbers
<1>3. \A n \in 1 .. Len(sel) : sel[n] \in Sources BY <1>1
<1> QED BY <1>1, <1>2, <1>3

\* The conversion takes the episodes that are to be done in their order : there is a least.
LEMMA CurrentTodo ==
  ASSUME ConvTyped, conv.todo # {}
  PROVE  Current \in conv.todo /\ Current \in Sources
<1>1. conv.todo \subseteq Nat BY DEF ConvTyped
<1> DEFINE Less == {ss \in Nat \X Nat : ss[1] < ss[2]}
<1>2. IsWellFoundedOn(Less, Nat) BY NatLessThanWellFounded, Zenon DEF OpToRel
<1> HIDE DEF Less
<1>3. PICK s \in conv.todo : \A t \in conv.todo : ~ (<<t, s>> \in Less)
  BY <1>1, <1>2, WFMin, Zenon
<1>4. \A t \in conv.todo : s <= t
  <2> TAKE t \in conv.todo
  <2>1. t \in Nat /\ s \in Nat /\ ~ (<<t, s>> \in Less) BY <1>1, <1>3
  <2> QED BY <2>1 DEF Less
<1>5. Current \in conv.todo BY <1>4 DEF Current
<1> QED BY <1>5 DEF ConvTyped

-----------------------------------------------------------------------------
(* The invariant of the files and of the two commands *)

\* A pack command that is not running has nothing behind it.
LEMMA IdleJobInv ==
  ASSUME job = IdleJob
  PROVE  JobTyped /\ JobInv
<1>1. Added = {} BY DEF Added, IdleJob
<1>2. JobTyped BY DEF JobTyped, IdleJob
<1>3. Len(job.sel) = 0 /\ job.next = 1 BY DEF IdleJob
<1>4. RowsInv /\ PoolInv /\ EndInv BY <1>1 DEF RowsInv, PoolInv, EndInv, IdleJob
<1> QED BY <1>2, <1>3, <1>4 DEF JobInv, IdleJob

LEMMA IdleJobInvNext ==
  ASSUME job' = IdleJob
  PROVE  JobTyped' /\ JobInv'
<1>1. Added' = {} BY DEF Added, IdleJob
<1>2. JobTyped' BY DEF JobTyped, IdleJob
<1>3. Len(job'.sel) = 0 /\ job'.next = 1 BY DEF IdleJob
<1>4. RowsInv' /\ PoolInv' /\ EndInv' BY <1>1 DEF RowsInv, PoolInv, EndInv, IdleJob
<1> QED BY <1>2, <1>3, <1>4 DEF JobInv, IdleJob

\* A conversion that is not running has no episode in hand.
LEMMA IdleConvInvNext ==
  ASSUME conv' = IdleConv
  PROVE  ConvTyped' /\ ConvInv'
  BY DEF ConvTyped, ConvInv, IdleConv

LEMMA FilesInit == PackInit => FilesInv
<1> SUFFICES ASSUME PackInit PROVE FilesInv OBVIOUS
<1>1. FilesTyped /\ OneHash /\ DeclaredHasRows
  BY DEF PackInit, FilesTyped, OneHash, DeclaredHasRows, Artifacts, Rows, Clips, NoRow
<1>2. ConvTyped /\ ConvInv BY DEF PackInit, ConvTyped, ConvInv, IdleConv
<1>3. JobTyped /\ JobInv BY IdleJobInv DEF PackInit
<1> QED BY <1>1, <1>2, <1>3 DEF PackInit, FilesInv, IdleConv

\* A step that moves neither the corpus nor the pack keeps what is said of them.
LEMMA FilesFrame ==
  ASSUME FilesTyped, OneHash, DeclaredHasRows, UNCHANGED <<code, corpus, rows, clips, listed, info>>,
         starts' = starts \/ (starts < MaxStarts /\ starts' = starts + 1)
  PROVE  FilesTyped' /\ OneHash' /\ DeclaredHasRows'
  BY DEF FilesTyped, OneHash, DeclaredHasRows

LEMMA ConvFrame ==
  ASSUME ConvTyped, ConvInv, UNCHANGED <<corpus, conv>>
  PROVE  ConvTyped' /\ ConvInv'
  BY DEF ConvTyped, ConvInv

\* The steps of the production conversion.
LEMMA ConvertKeeps ==
  ASSUME FilesInv, ConvertStep \/ StartConvert \/ KillConvert
  PROVE  FilesInv'
<1>0. FilesTyped /\ OneHash /\ DeclaredHasRows /\ ConvTyped /\ ConvInv BY DEF FilesInv
<1>j. job = IdleJob /\ UNCHANGED job
  BY DEF FilesInv, JobInv, ConvertStep, StartConvert, KillConvert, SkipEpisode, BuildEpisode,
         FailEpisode, RemoveOld, PlaceNew, Summarise, LeaveConvert, pack
<1>k. JobTyped' /\ JobInv' /\ ("idle" \in {conv.pc, job.pc})'
  BY <1>j, IdleJobInvNext DEF IdleJob
<1> SUFFICES FilesTyped' /\ OneHash' /\ DeclaredHasRows' /\ ConvTyped' /\ ConvInv'
  BY <1>k DEF FilesInv
<1>1. CASE StartConvert
  <2>1. PICK todo \in SUBSET Sources \ {{}}, force \in BOOLEAN :
          conv' = [pc |-> "look", asked |-> todo, todo |-> todo, version |-> code,
                   force |-> force, failed |-> {}]
    BY <1>1 DEF StartConvert, IdleConv
  <2>2. ConvTyped' /\ ConvInv' BY <1>0, <2>1 DEF ConvTyped, ConvInv, FilesTyped
  <2> QED BY <1>0, <1>1, <2>2, FilesFrame DEF StartConvert, pack
<1>2. CASE KillConvert \/ LeaveConvert
  BY <1>0, <1>2, IdleConvInvNext, FilesFrame DEF KillConvert, LeaveConvert, pack
<1>3. CASE SkipEpisode
  <2>1. Current \in conv.todo /\ Current \in Sources BY <1>0, <1>3, CurrentTodo DEF SkipEpisode
  <2>2. corpus[Current] = [action |-> conv.version, manifest |-> conv.version]
    BY <1>0, <1>3, <2>1 DEF SkipEpisode, Compatible, FilesTyped, Artifacts
  <2>3. conv' = [conv EXCEPT !.todo = @ \ {Current}] /\ conv.pc = "look" BY <1>3 DEF SkipEpisode
  <2>4. ConvTyped' BY <1>0, <2>3 DEF ConvTyped
  <2>5. ConvInv' BY <1>0, <1>3, <2>2, <2>3 DEF ConvInv, ConvTyped, SkipEpisode
  <2> QED BY <1>0, <1>3, <2>4, <2>5, FilesFrame DEF SkipEpisode, pack
<1>4. CASE BuildEpisode
  <2>1. ConvTyped' /\ ConvInv' BY <1>0, <1>4 DEF BuildEpisode, ConvTyped, ConvInv
  <2> QED BY <1>0, <1>4, <2>1, FilesFrame DEF BuildEpisode, pack
<1>5. CASE FailEpisode
  <2>1. Current \in conv.todo /\ Current \in Sources
    BY <1>0, <1>5, CurrentTodo DEF FailEpisode, ConvInv
  <2>2. ConvTyped' BY <1>0, <1>5, <2>1 DEF FailEpisode, ConvTyped
  <2>3. ConvInv' BY <1>0, <1>5, <2>1 DEF FailEpisode, ConvTyped, ConvInv
  <2> QED BY <1>0, <1>5, <2>2, <2>3, FilesFrame DEF FailEpisode, pack
<1>6. CASE RemoveOld
  <2>1. Current \in conv.todo /\ Current \in Sources
    BY <1>0, <1>6, CurrentTodo DEF RemoveOld, ConvInv
  <2>2. PICK file \in {"action", "manifest"} :
          corpus' = [corpus EXCEPT ![Current] = [corpus[Current] EXCEPT ![file] = None]]
    BY <1>6 DEF RemoveOld
  <2>3. corpus[Current] \in Artifacts BY <1>0, <2>1 DEF FilesTyped
  <2>4. /\ [corpus[Current] EXCEPT ![file] = None] \in Artifacts
        /\ \/ [corpus[Current] EXCEPT ![file] = None].action = None
           \/ [corpus[Current] EXCEPT ![file] = None].manifest = None
    BY <2>3 DEF Artifacts
  <2>5. FilesTyped' /\ OneHash' /\ DeclaredHasRows'
    BY <1>0, <1>6, <2>1, <2>2, <2>4 DEF RemoveOld, FilesTyped, OneHash, DeclaredHasRows, pack
  <2>6. ConvTyped' BY <1>0, <1>6 DEF RemoveOld, ConvTyped
  <2>7. conv' = [conv EXCEPT !.pc = "remove"] /\ conv.pc \in {"build", "remove"}
    BY <1>6 DEF RemoveOld
  <2>8. \A s \in conv.asked \ (conv.failed \union conv.todo) : corpus'[s] = corpus[s]
    BY <1>0, <2>1, <2>2 DEF FilesTyped, ConvTyped
  <2>9. ConvInv' BY <1>0, <2>7, <2>8 DEF ConvInv, ConvTyped
  <2> QED BY <2>5, <2>6, <2>9
<1>7. CASE PlaceNew
  <2>1. Current \in conv.todo /\ Current \in Sources
    BY <1>0, <1>7, CurrentTodo DEF PlaceNew, ConvInv
  <2>2. corpus' = [corpus EXCEPT ![Current] = [action |-> conv.version, manifest |-> conv.version]]
    BY <1>7 DEF PlaceNew
  <2>3. conv.version \in Codes BY <1>0, <1>7 DEF PlaceNew, ConvInv
  <2>4. FilesTyped' /\ OneHash' /\ DeclaredHasRows'
    BY <1>0, <1>7, <2>1, <2>2, <2>3
       DEF PlaceNew, FilesTyped, OneHash, DeclaredHasRows, Artifacts, pack
  <2>5. conv' = [conv EXCEPT !.pc = "look", !.todo = @ \ {Current}] /\ conv.pc # "idle"
    BY <1>7 DEF PlaceNew
  <2>6. ConvTyped' BY <1>0, <2>5 DEF ConvTyped
  <2>7. \A s \in conv.asked \ (conv.failed \union (conv.todo \ {Current})) :
          corpus'[s] = [action |-> conv.version, manifest |-> conv.version]
    BY <1>0, <2>1, <2>2, <2>5 DEF FilesTyped, ConvTyped, ConvInv
  <2>8. ConvInv' BY <1>0, <2>5, <2>7 DEF ConvInv, ConvTyped
  <2> QED BY <2>4, <2>6, <2>8
<1>8. CASE Summarise
  <2>1. ConvTyped' /\ ConvInv' BY <1>0, <1>8 DEF Summarise, ConvTyped, ConvInv
  <2> QED BY <1>0, <1>8, <2>1, FilesFrame DEF Summarise, pack
<1> QED BY <1>1, <1>2, <1>3, <1>4, <1>5, <1>6, <1>7, <1>8 DEF ConvertStep

\* The main thread of the packing, which holds no file of the corpus.
LEMMA MainKeeps ==
  ASSUME FilesInv, StartPack \/ KillPack \/ AddEpisode \/ AbortAdd \/ WriteList \/ WriteInfo \/ LeavePack
  PROVE  FilesInv'
<1>0. /\ FilesTyped /\ OneHash /\ DeclaredHasRows /\ ConvTyped /\ ConvInv
      /\ JobTyped /\ JobInv /\ RowsInv /\ PoolInv /\ EndInv
  BY DEF FilesInv, JobInv
<1>c. UNCHANGED <<code, corpus, conv>>
  BY DEF StartPack, KillPack, AddEpisode, AbortAdd, WriteList, WriteInfo, LeavePack
<1>d. conv.pc = "idle"
  BY DEF FilesInv, StartPack, KillPack, AddEpisode, AbortAdd, WriteList, WriteInfo, LeavePack
<1>e. ConvTyped' /\ ConvInv' /\ OneHash' /\ ("idle" \in {conv.pc, job.pc})'
  <2>1. ConvTyped' /\ ConvInv' BY <1>0, <1>c, ConvFrame
  <2>2. OneHash' BY <1>0, <1>c DEF OneHash
  <2> QED BY <1>c, <1>d, <2>1, <2>2
<1> SUFFICES FilesTyped' /\ DeclaredHasRows' /\ JobTyped' /\ JobInv'
  BY <1>e DEF FilesInv
<1>1. CASE KillPack \/ LeavePack
  BY <1>0, <1>1, <1>c, IdleJobInvNext, FilesFrame DEF KillPack, LeavePack
<1>2. CASE StartPack
  <2>1. PICK sel \in Selections, force \in BOOLEAN :
          job' = [pc |-> "add", sel |-> sel, next |-> 1, force |-> force,
                  queue |-> {}, active |-> {}, broken |-> FALSE]
    BY <1>2 DEF StartPack, IdleJob
  <2>2. sel \in Seq(Sources) /\ Len(sel) \in Nat \ {0} BY SelectionTyped
  <2>3. JobTyped' BY <2>1 DEF JobTyped
  <2>4. Added' = {} BY <2>1 DEF Added
  <2>5. RowsInv' /\ PoolInv' /\ EndInv' BY <2>1, <2>4 DEF RowsInv, PoolInv, EndInv
  <2>6. JobInv' BY <2>1, <2>2, <2>5 DEF JobInv
  <2> QED BY <1>0, <1>2, <1>c, <2>3, <2>6, FilesFrame DEF StartPack
<1> DEFINE sel == job.sel
           next == job.next
<1>s. ASSUME job.pc # "idle"
      PROVE  /\ sel \in Selections /\ Len(sel) \in Nat \ {0} /\ sel # <<>>
             /\ next \in Nat \ {0} /\ next <= Len(sel) + 1
             /\ \A n \in 1 .. Len(sel) : n \in Numbers /\ sel[n] \in Sources
  BY <1>0, <1>s, SelectionTyped DEF JobInv, JobTyped
<1>3. CASE AbortAdd
  <2>1. job' = [job EXCEPT !.pc = "abort"] /\ job.pc = "add" BY <1>3 DEF AbortAdd
  <2>2. JobTyped' BY <1>0, <2>1 DEF JobTyped
  <2>3. Added' = Added /\ job' = [job EXCEPT !.pc = "abort"] /\ UNCHANGED <<corpus, rows, clips, listed, info>>
    BY <1>0, <1>3, <2>1 DEF AbortAdd, Added, JobTyped
  <2>4. RowsInv' BY <1>0, <2>3 DEF RowsInv, JobTyped
  <2>5. PoolInv' BY <1>0, <2>3 DEF PoolInv, JobTyped, Shown
  <2>6. EndInv' BY <1>0, <2>3 DEF EndInv, JobTyped
  <2>7. JobInv' BY <1>0, <1>s, <2>1, <2>4, <2>5, <2>6 DEF JobInv, JobTyped
  <2> QED BY <1>0, <1>3, <1>c, <2>2, <2>7, FilesFrame DEF AbortAdd
<1>4. CASE AddEpisode
  <2>1. /\ job.pc = "add" /\ next <= Len(sel)
        /\ job' = [job EXCEPT !.next = @ + 1, !.queue = @ \union {next}]
        /\ UNCHANGED <<clips, listed, info, starts>> /\ corpus[sel[next]].action # None
        /\ rows' = [rows EXCEPT ![next] = [source |-> sel[next], version |-> corpus[sel[next]].action]]
    BY <1>4 DEF AddEpisode, Source
  <2>2. next \in 1 .. Len(sel) /\ next \in Numbers /\ sel[next] \in Sources BY <1>s, <2>1
  <2>3. JobTyped'
    <3>1. job.queue \union {next} \in SUBSET Numbers /\ next + 1 \in Nat \ {0}
      BY <1>0, <1>s, <2>1, <2>2 DEF JobTyped
    <3> HIDE DEF next
    <3>2. job' = [job EXCEPT !.next = next + 1, !.queue = job.queue \union {next}]
      BY <2>1 DEF next
    <3> QED BY <1>0, <3>1, <3>2 DEF JobTyped
  <2>4. /\ job'.sel = sel /\ job'.next = next + 1 /\ job'.queue = job.queue \union {next}
        /\ job'.active = job.active /\ job'.broken = job.broken /\ job'.force = job.force
        /\ job'.pc = "add"
    BY <1>0, <2>1 DEF JobTyped
  <2>5. Added' = Added \union {next} /\ next \notin Added BY <1>s, <2>1, <2>4 DEF Added
  <2>6. [source |-> sel[next], version |-> corpus[sel[next]].action] \in Rows
    BY <1>0, <2>1, <2>2 DEF FilesTyped, Artifacts, Rows
  <2>7. FilesTyped' BY <1>0, <1>c, <2>1, <2>2, <2>6 DEF FilesTyped
  <2>8. DeclaredHasRows' BY <1>0, <2>1, <2>2 DEF DeclaredHasRows, FilesTyped
  <2>9. RowsInv'
    <3> SUFFICES ASSUME NEW n \in Added \union {next}
                 PROVE  /\ sel[n] \in Sources /\ corpus[sel[n]].action # None
                        /\ rows'[n] = [source |-> sel[n], version |-> corpus[sel[n]].action]
      BY <1>c, <2>4, <2>5 DEF RowsInv
    <3>1. CASE n = next BY <1>0, <2>1, <2>2, <3>1 DEF FilesTyped
    <3>2. CASE n \in Added BY <1>0, <2>1, <2>2, <2>5, <3>2 DEF RowsInv, FilesTyped
    <3> QED BY <3>1, <3>2
  <2>10. PoolInv' BY <1>0, <2>1, <2>4, <2>5 DEF PoolInv, Shown
  <2>11. EndInv' BY <2>4 DEF EndInv
  <2>12. JobInv' BY <1>s, <2>1, <2>4, <2>9, <2>10, <2>11 DEF JobInv
  <2> QED BY <2>3, <2>7, <2>8, <2>12
<1>5. CASE WriteList
  <2>1. /\ job.pc = "add" /\ next = Len(sel) + 1 /\ Joined /\ ~job.broken /\ listed' = sel
        /\ job' = [job EXCEPT !.pc = "info"] /\ UNCHANGED <<rows, clips, info, starts>>
    BY <1>5, <1>s DEF WriteList
  <2>2. /\ job'.sel = sel /\ job'.next = next /\ job'.queue = job.queue /\ job'.active = job.active
        /\ job'.broken = job.broken /\ job'.force = job.force /\ job'.pc = "info"
    BY <1>0, <2>1 DEF JobTyped
  <2>3. JobTyped' BY <1>0, <2>1 DEF JobTyped
  <2>4. Added' = Added BY <2>2 DEF Added
  <2>5. FilesTyped' BY <1>0, <1>c, <1>s, <2>1 DEF FilesTyped
  <2>6. DeclaredHasRows' BY <1>0, <2>1 DEF DeclaredHasRows
  <2>7. RowsInv' BY <1>0, <1>c, <2>1, <2>2, <2>4 DEF RowsInv
  <2>8. PoolInv' BY <1>0, <2>1, <2>2, <2>4 DEF PoolInv, Shown
  <2>9. EndInv' BY <2>1, <2>2 DEF EndInv, Joined
  <2>10. JobInv' BY <1>s, <2>1, <2>2, <2>7, <2>8, <2>9 DEF JobInv
  <2> QED BY <2>3, <2>5, <2>6, <2>10
<1>6. CASE WriteInfo
  <2>1. /\ job.pc = "info" /\ info' = Len(sel)
        /\ job' = [job EXCEPT !.pc = "done"] /\ UNCHANGED <<rows, clips, listed, starts>>
    BY <1>6 DEF WriteInfo
  <2>2. /\ job'.sel = sel /\ job'.next = next /\ job'.queue = job.queue /\ job'.active = job.active
        /\ job'.broken = job.broken /\ job'.force = job.force /\ job'.pc = "done"
    BY <1>0, <2>1 DEF JobTyped
  <2>3. next = Len(sel) + 1 /\ Joined /\ ~job.broken /\ listed = sel BY <1>0, <2>1 DEF EndInv
  <2>4. JobTyped' BY <1>0, <2>1 DEF JobTyped
  <2>5. Added' = Added /\ Added = 1 .. Len(sel) BY <1>s, <2>1, <2>2, <2>3 DEF Added
  <2>6. FilesTyped'
    <3>1. Len(sel) \in Numbers BY <1>s, <2>1
    <3> QED BY <1>0, <1>c, <2>1, <3>1 DEF FilesTyped
  <2>7. RowsInv' BY <1>0, <1>c, <2>1, <2>2, <2>5 DEF RowsInv
  <2>8. DeclaredHasRows'
    <3>1. ASSUME NEW n \in 1 .. Len(sel) PROVE rows[n].source \in Sources
      <4>1. sel[n] \in Sources /\ rows[n] = [source |-> sel[n], version |-> corpus[sel[n]].action]
        BY <1>0, <2>5 DEF RowsInv
      <4> QED BY <4>1
    <3> QED BY <2>1, <3>1 DEF DeclaredHasRows
  <2>9. PoolInv' BY <1>0, <2>1, <2>2, <2>5 DEF PoolInv, Shown
  <2>10. EndInv' BY <2>1, <2>2, <2>3 DEF EndInv, Joined
  <2>11. JobInv' BY <1>s, <2>1, <2>2, <2>7, <2>9, <2>10 DEF JobInv
  <2> QED BY <2>4, <2>6, <2>8, <2>11
<1> QED BY <1>1, <1>2, <1>3, <1>4, <1>5, <1>6

\* The threads of the video pool.
LEMMA PoolKeeps ==
  ASSUME FilesInv,
         NEW n \in Numbers, KeepVideo(n) \/ EncodeVideo(n) \/ VideoDone(n) \/ VideoFails(n)
  PROVE  FilesInv'
<1>0. /\ FilesTyped /\ OneHash /\ DeclaredHasRows /\ ConvTyped /\ ConvInv
      /\ JobTyped /\ JobInv /\ RowsInv /\ PoolInv /\ EndInv
  BY DEF FilesInv, JobInv
<1> DEFINE sel == job.sel
<1>a. UNCHANGED <<code, corpus, conv, rows, listed, info, starts>>
  BY DEF KeepVideo, EncodeVideo, VideoDone, VideoFails
<1>b. n \in job.queue \union job.active /\ n \in Added
  BY <1>0 DEF KeepVideo, EncodeVideo, VideoDone, VideoFails, PoolInv
<1>c. job.pc \in {"add", "abort"}
  BY <1>0, <1>b DEF JobInv, EndInv, Joined, IdleJob, JobTyped
<1>d. sel[n] \in Sources BY <1>0, <1>b DEF RowsInv
<1>e. ConvTyped' /\ ConvInv' /\ OneHash' /\ DeclaredHasRows'
  <2>1. ConvTyped' /\ ConvInv' BY <1>0, <1>a, ConvFrame
  <2> QED BY <1>0, <1>a, <2>1 DEF OneHash, DeclaredHasRows
<1>f. /\ job'.sel = sel /\ job'.next = job.next /\ job'.force = job.force /\ job'.pc = job.pc
      /\ job'.queue = job.queue \ {n} /\ job'.active \in {job.active \union {n}, job.active \ {n}}
      /\ JobTyped'
  <2>1. CASE KeepVideo(n)
    <3>1. n \notin job.active BY <1>0, <2>1 DEF KeepVideo, PoolInv
    <3> QED BY <1>0, <2>1, <3>1 DEF KeepVideo, JobTyped
  <2>2. CASE EncodeVideo(n) BY <1>0, <2>2 DEF EncodeVideo, JobTyped
  <2>3. CASE VideoDone(n) \/ VideoFails(n)
    <3>1. n \notin job.queue BY <1>0, <2>3 DEF VideoDone, VideoFails, PoolInv
    <3>2. job.queue = job.queue \ {n} BY <3>1
    <3>3. CASE VideoDone(n) BY <1>0, <3>2, <3>3 DEF VideoDone, JobTyped
    <3>4. CASE VideoFails(n) BY <1>0, <3>2, <3>4 DEF VideoFails, JobTyped
    <3> QED BY <2>3, <3>3, <3>4
  <2> QED BY <2>1, <2>2, <2>3
<1>g. Added' = Added BY <1>f DEF Added
<1>h. clips' \in [Numbers -> Clips] /\ \A m \in Numbers \ {n} : clips'[m] = clips[m]
  BY <1>0, <1>d DEF KeepVideo, EncodeVideo, VideoDone, VideoFails, FilesTyped, Clips
<1>i. FilesTyped' BY <1>0, <1>a, <1>h DEF FilesTyped
<1>j. RowsInv' BY <1>0, <1>a, <1>f, <1>g DEF RowsInv
<1>k. PoolInv'
  <2>1. (job.broken => job'.broken) /\ (n \in job'.active \/ job'.broken \/ Shown(n)')
    <3>1. CASE KeepVideo(n)
      BY <1>0, <1>f, <3>1 DEF KeepVideo, Reusable, Shown, JobTyped
    <3>2. CASE EncodeVideo(n) BY <1>0, <3>2 DEF EncodeVideo, JobTyped
    <3>3. CASE VideoDone(n)
      <4>1. clips'[n] = sel[n] /\ job'.sel = sel /\ job'.broken = job.broken
        BY <1>0, <3>3 DEF VideoDone, FilesTyped, JobTyped
      <4> QED BY <1>d, <4>1 DEF Shown
    <3>4. CASE VideoFails(n) BY <1>0, <3>4 DEF VideoFails, JobTyped
    <3> QED BY <3>1, <3>2, <3>3, <3>4
  <2>2. ASSUME ~job'.broken, NEW m \in Added \ (job'.queue \union job'.active), m # n
        PROVE  Shown(m)'
    <3>1. m \in Added \ (job.queue \union job.active) BY <1>f, <2>2
    <3>2. Shown(m) BY <1>0, <2>1, <2>2, <3>1 DEF PoolInv
    <3>3. m \in Numbers
      BY <1>0, <1>c, <3>1, SelectionTyped DEF Added, JobInv, JobTyped
    <3> QED BY <1>f, <1>h, <2>2, <3>2, <3>3 DEF Shown
  <2>3. /\ job'.queue \union job'.active \subseteq Added
        /\ job'.queue \cap job'.active = {}
    BY <1>0, <1>b, <1>f DEF PoolInv
  <2>4. ~job'.broken => \A m \in Added \ (job'.queue \union job'.active) : Shown(m)'
    BY <2>1, <2>2
  <2>5. ~job'.broken => \A m \in Added' \ (job'.queue \union job'.active) : Shown(m)'
    BY <1>g, <2>4
  <2> QED BY <1>g, <2>3, <2>5 DEF PoolInv
<1>l. EndInv' BY <1>c, <1>f DEF EndInv
<1>m. JobInv' BY <1>0, <1>c, <1>f, <1>j, <1>k, <1>l DEF JobInv
<1> QED BY <1>a, <1>e, <1>f, <1>i, <1>m DEF FilesInv

LEMMA FilesStep == FilesInv /\ [PackNext]_packVars => FilesInv'
<1> SUFFICES ASSUME FilesInv, [PackNext]_packVars PROVE FilesInv' OBVIOUS
<1>1. CASE UNCHANGED packVars
  BY <1>1 DEF packVars, FilesInv, FilesTyped, OneHash, DeclaredHasRows, ConvTyped, ConvInv,
              JobTyped, JobInv, RowsInv, PoolInv, EndInv, Added, Shown, Joined
<1>2. CASE NewCode
  <2>1. FilesTyped' /\ OneHash' /\ DeclaredHasRows'
    BY <1>2 DEF NewCode, FilesInv, FilesTyped, OneHash, DeclaredHasRows, pack
  <2>2. ConvTyped' /\ ConvInv' BY <1>2, ConvFrame DEF NewCode, FilesInv
  <2>3. UNCHANGED <<corpus, conv, rows, clips, listed, info, job>> BY <1>2 DEF NewCode, pack
  <2>4. JobTyped' /\ JobInv'
    BY <2>3 DEF FilesInv, JobTyped, JobInv, RowsInv, PoolInv, EndInv, Added, Shown, Joined
  <2> QED BY <2>1, <2>2, <2>3, <2>4 DEF FilesInv
<1>3. CASE ConvertStep \/ StartConvert \/ KillConvert BY <1>3, ConvertKeeps
<1>4. CASE StartPack \/ KillPack \/ AddEpisode \/ AbortAdd \/ WriteList \/ WriteInfo \/ LeavePack
  BY <1>4, MainKeeps
<1>5. CASE Pool BY <1>5, PoolKeeps DEF Pool
<1> QED BY <1>1, <1>2, <1>3, <1>4, <1>5 DEF PackNext, PackStep

-----------------------------------------------------------------------------
(* The theorems *)

\* The inductive invariant holds of every order of the two commands, of what they are asked
\* for and of where they are killed.
THEOREM FilesInvariant == PackSpec => []FilesInv
<1> QED BY FilesInit, FilesStep, PTL DEF PackSpec

\* When convert-unitree-sonic-production.py reports, every episode it was asked for and does
\* not list as failed is on disk whole and of its own code ; and the rows of each episode
\* that info.json declares are whole at every moment (SplitWriter).
THEOREM PackCorrect == PackSpec => []PackInv
<1>1. FilesInv => PackInv
  <2> SUFFICES ASSUME FilesInv PROVE PackInv OBVIOUS
  <2>0. FilesTyped /\ OneHash /\ ConvTyped /\ ConvInv /\ JobTyped /\ JobInv /\ PoolInv
    BY DEF FilesInv, JobInv
  <2>1. ReportedIsThere BY <2>0 DEF ReportedIsThere, ConvInv
  <2>2. \A s \in Sources : corpus[s] \in Artifacts BY <2>0 DEF FilesTyped
  <2>3. job.queue \union job.active \subseteq DOMAIN job.sel /\ job.queue \cap job.active = {}
    <3>1. CASE job.pc = "idle" BY <2>0, <3>1 DEF JobInv, IdleJob
    <3>2. CASE job.pc # "idle"
      <4>1. job.sel \in Selections /\ job.next <= Len(job.sel) + 1 /\ job.next \in Nat
        BY <2>0, <3>2 DEF JobInv, JobTyped
      <4>2. job.sel \in Seq(Sources) /\ Len(job.sel) \in Nat BY <4>1, SelectionTyped
      <4>3. Added \subseteq 1 .. Len(job.sel) BY <4>1, <4>2 DEF Added
      <4>4. DOMAIN job.sel = 1 .. Len(job.sel) BY <4>2
      <4> QED BY <2>0, <4>3, <4>4 DEF PoolInv
    <3> QED BY <3>1, <3>2
  <2>4. PackTypeOK
    BY <2>0, <2>2, <2>3
       DEF PackTypeOK, FilesTyped, OneHash, ConvTyped, ConvInv, JobTyped, PoolInv, Artifacts,
           Rows, Clips
  <2> QED BY <2>1, <2>4 DEF PackInv, FilesInv
<1> QED BY <1>1, FilesInvariant, PTL

\* A pack conversion that ends well leaves a pack in which validate.py finds every episode
\* again, with its actions and as many frames of video, whatever earlier runs left in the
\* directory, and with --force every clip shows the episode of its rows
\* (SplitWriter.finalize, _write_video).  That an episode has an anchor to train on, which
\* validate.py asks for as well, no conversion sees to.
THEOREM PackEndsWell == PackSpec => []EndsWell
<1>1. FilesInv => EndsWell
  <2> SUFFICES ASSUME FilesInv, job.pc = "done"
               PROVE  PackMatches /\ (job.force => \A n \in DOMAIN listed : clips[n] = rows[n].source)
    BY DEF EndsWell, EndsMatching, ForcedShowsRows
  <2>1. /\ job.next = Len(job.sel) + 1 /\ Joined /\ ~job.broken /\ listed = job.sel
        /\ info = Len(job.sel) /\ job.sel \in Selections
    BY DEF FilesInv, JobInv, EndInv
  <2>2. job.sel \in Seq(Sources) /\ Len(job.sel) \in Nat /\ job.sel # <<>>
    BY <2>1, SelectionTyped
  <2>3. Added = DOMAIN listed BY <2>1, <2>2 DEF Added
  <2>4. \A n \in DOMAIN listed : Shown(n)
    BY <2>1, <2>3 DEF FilesInv, JobInv, PoolInv, Joined
  <2>5. \A n \in DOMAIN listed :
          /\ listed[n] \in Sources
          /\ rows[n] = [source |-> listed[n], version |-> corpus[listed[n]].action]
    BY <2>1, <2>3 DEF FilesInv, JobInv, RowsInv
  <2>6. PackMatches BY <2>1, <2>2, <2>4, <2>5 DEF PackMatches, Shown
  <2>7. job.force => \A n \in DOMAIN listed : clips[n] = rows[n].source
    <3> SUFFICES ASSUME job.force, NEW n \in DOMAIN listed PROVE clips[n] = rows[n].source
      OBVIOUS
    <3>1. clips[n] = listed[n] BY <2>1, <2>4 DEF Shown
    <3>2. rows[n] = [source |-> listed[n], version |-> corpus[listed[n]].action] BY <2>5
    <3> QED BY <3>1, <3>2
  <2> QED BY <2>6, <2>7
<1> QED BY <1>1, FilesInvariant, PTL
=============================================================================
