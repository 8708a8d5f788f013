---------------------------- MODULE TrainingPack ----------------------------
(***************************************************************************)
(* From raw episodes to the pack psi0 trains on, in two commands that are  *)
(* run again and again over the same output :                              *)
(*   convert-unitree-sonic-production.py  raw episode -> action.npz and    *)
(*                     manifest, one directory per episode, resumable      *)
(*   convert-psi0-sonic-dataset.py and psi0_dex3/writer.py  these actions  *)
(*                     and clips of the raw videos -> one split of a pack, *)
(*                     episodes numbered in the order of the selection     *)
(* and what psi0_dex3/validate.py says of the pack.  Each may fail or be   *)
(* killed anywhere ; one command runs at a time, on a frozen raw corpus.   *)
(*                                                                         *)
(* Left out : the numbers.  An action is the code version that computed    *)
(* it, a clip the episode it shows ; the gate on five approved episodes,   *)
(* the temporary directories of killed conversions, a collection that is   *)
(* asked for twice and the second split.  An encoder ends with the command *)
(* that runs it : one that outlives a killed Python writes to a file the   *)
(* next run has unlinked, but not when that run has --force.               *)
(***************************************************************************)
EXTENDS Integers, FiniteSets, SequencesExt

CONSTANTS
  Split,      \* the split manifest : the episodes of each collection
  Frames,     \* the length of each episode
  Anchored,   \* the episodes of which some frame has a valid window of 30 targets
  MaxCode,    \* bound : versions of the conversion's code
  MaxStarts   \* bound : commands that are started

Sources == UNION {{Split[c][k] : k \in DOMAIN Split[c]} : c \in DOMAIN Split}

ASSUME PackAssumption ==
  /\ MaxCode \in Nat \ {0} /\ MaxStarts \in Nat /\ Sources \subseteq Nat /\ Frames \in [Sources -> Nat]
  /\ IsFiniteSet(Sources) /\ Anchored \subseteq Sources

VARIABLES
  code,    \* the version of the conversion's code
  corpus,  \* per episode, what made action.npz and what the manifest says made it
  conv,    \* the production conversion
  rows,    \* the parquet file of each number of the pack
  clips,   \* the video of each number of the pack
  listed,  \* meta/episodes.jsonl
  info,    \* meta/info.json : the number of episodes
  job,     \* the pack conversion
  starts   \* the commands that were started

packVars == <<code, corpus, conv, rows, clips, listed, info, job, starts>>

Codes == 1 .. MaxCode
Numbers == 1 .. Cardinality(Sources)

None == -1    \* no such file
Partial == -2 \* a file whose writer died : ffmpeg's is unreadable

NoRow == [source |-> None, version |-> None]

\* What --collection and the limit per task take of the split : the collections in the
\* order they are given, the episodes of each in the split's.
Orders == {cols \in UNION {[1 .. k -> DOMAIN Split] : k \in DOMAIN Split} : IsInjective(cols)}

Taken(cols, limit) ==
  FlattenSeq([k \in DOMAIN cols |->
    SubSeq(Split[cols[k]], 1, IF limit < Len(Split[cols[k]]) THEN limit ELSE Len(Split[cols[k]]))])

Selections == {Taken(cols, limit) : cols \in Orders, limit \in Numbers} \ {<<>>}

\* The split has every episode once (build_split tests it), so that a selection is
\* no longer than the episodes are many.
ASSUME SelectionAssumption ==
  \A sel \in Selections : sel \in Seq(Sources) /\ Len(sel) \in Numbers

IdleConv == [pc |-> "idle", asked |-> {}, todo |-> {}, version |-> None, force |-> FALSE,
             failed |-> {}]
IdleJob  == [pc |-> "idle", sel |-> <<>>, next |-> 1, force |-> FALSE,
             queue |-> {}, active |-> {}, broken |-> FALSE]

PackInit ==
  /\ code = 1 /\ corpus = [s \in Sources |-> [action |-> None, manifest |-> None]]
  /\ conv = IdleConv /\ job = IdleJob
  /\ rows = [n \in Numbers |-> NoRow] /\ clips = [n \in Numbers |-> None]
  /\ listed = <<>> /\ info = 0 /\ starts = 0

pack == <<rows, clips, listed, info, job>>

-----------------------------------------------------------------------------
(* The production conversion.                                              *)

NewCode == code < MaxCode /\ code' = code + 1 /\ UNCHANGED <<corpus, conv, pack, starts>>

StartConvert ==
  /\ conv.pc = "idle" /\ job.pc = "idle" /\ starts < MaxStarts /\ starts' = starts + 1
  /\ \E todo \in SUBSET Sources \ {{}}, force \in BOOLEAN :
       conv' = [IdleConv EXCEPT !.pc = "look", !.asked = todo, !.todo = todo,
                                !.version = code, !.force = force]
  /\ UNCHANGED <<code, corpus, pack>>

Current == CHOOSE s \in conv.todo : \A t \in conv.todo : s <= t

\* Mutant : a manifest of this code is enough, its artifact is not looked at.
Compatible_ByManifest(e) == e.manifest = conv.version

\* compatible : made by this code, and the artifact has the hash the manifest gives.
Compatible(e) ==
  e.manifest = conv.version /\ e.action # None /\ e.action = e.manifest

SkipEpisode ==
  /\ conv.pc = "look" /\ conv.todo # {}
  /\ ~conv.force /\ Compatible(corpus[Current])
  /\ conv' = [conv EXCEPT !.todo = @ \ {Current}]
  /\ UNCHANGED <<code, corpus, pack, starts>>

BuildEpisode ==
  /\ conv.pc = "look" /\ conv.todo # {}
  /\ conv.force \/ ~Compatible(corpus[Current])
  /\ conv' = [conv EXCEPT !.pc = "build"]
  /\ UNCHANGED <<code, corpus, pack, starts>>

\* Anything that raises : the temporary directory goes, the episode stays as it is, which
\* after an error of the removal is half of it.
FailEpisode ==
  /\ conv.pc \in {"build", "remove"}
  /\ conv' = [conv EXCEPT !.pc = "look", !.todo = @ \ {Current}, !.failed = @ \union {Current}]
  /\ UNCHANGED <<code, corpus, pack, starts>>

\* shutil.rmtree takes the files of the old directory one after the other.
RemoveOld ==
  /\ conv.pc \in {"build", "remove"} /\ conv' = [conv EXCEPT !.pc = "remove"]
  /\ \E file \in {"action", "manifest"} :
       corpus[Current][file] # None /\ corpus' = [corpus EXCEPT ![Current][file] = None]
  /\ UNCHANGED <<code, pack, starts>>

\* os.replace : both files appear together, under a name that is free now.
PlaceNew ==
  /\ conv.pc \in {"build", "remove"} /\ corpus[Current] = [action |-> None, manifest |-> None]
  /\ corpus' = [corpus EXCEPT ![Current] = [action |-> conv.version, manifest |-> conv.version]]
  /\ conv' = [conv EXCEPT !.pc = "look", !.todo = @ \ {Current}]
  /\ UNCHANGED <<code, pack, starts>>

Summarise ==
  /\ conv.pc = "look" /\ conv.todo = {} /\ conv' = [conv EXCEPT !.pc = "done"]
  /\ UNCHANGED <<code, corpus, pack, starts>>

LeaveConvert == conv.pc = "done" /\ conv' = IdleConv /\ UNCHANGED <<code, corpus, pack, starts>>

KillConvert ==
  /\ conv.pc # "idle" /\ conv' = IdleConv /\ UNCHANGED <<code, corpus, pack, starts>>

ConvertStep == SkipEpisode \/ BuildEpisode \/ FailEpisode \/ RemoveOld \/ PlaceNew
               \/ Summarise \/ LeaveConvert

-----------------------------------------------------------------------------
(* The pack conversion : the main thread and the four threads of the video *)
(* pool.                                                                   *)

StartPack ==
  /\ conv.pc = "idle" /\ job.pc = "idle" /\ starts < MaxStarts /\ starts' = starts + 1
  /\ \E sel \in Selections, force \in BOOLEAN :
       job' = [IdleJob EXCEPT !.pc = "add", !.sel = sel, !.force = force]
  /\ UNCHANGED <<code, corpus, conv, rows, clips, listed, info>>

Source == job.sel[job.next]

\* SplitWriter.add : the clip goes to the pool, the rows to a partial file and over the
\* old ones.  Whose manifest the actions have is not looked at.
AddEpisode ==
  /\ job.pc = "add" /\ job.next <= Len(job.sel) /\ corpus[Source].action # None
  /\ rows' = [rows EXCEPT ![job.next] = [source |-> Source, version |-> corpus[Source].action]]
  /\ job' = [job EXCEPT !.next = @ + 1, !.queue = @ \union {job.next}]
  /\ UNCHANGED <<code, corpus, conv, clips, listed, info, starts>>

\* The actions are missing, or their mapping is refused : the main thread raises, and the
\* interpreter waits for the pool.
AbortAdd ==
  /\ job.pc = "add" /\ job.next <= Len(job.sel) /\ job' = [job EXCEPT !.pc = "abort"]
  /\ UNCHANGED <<code, corpus, conv, rows, clips, listed, info, starts>>

\* Mutant : any video that can be read is kept.
Reusable_AnyLength(n) == ~job.force /\ clips[n] \in Sources

\* A video that can be read and has the number of frames of the episode is kept.
Reusable(n) ==
  /\ ~job.force
  /\ clips[n] \in Sources /\ Frames[clips[n]] = Frames[job.sel[n]]

KeepVideo(n) ==
  /\ n \in job.queue /\ Reusable(n) /\ job' = [job EXCEPT !.queue = @ \ {n}]
  /\ UNCHANGED <<code, corpus, conv, rows, clips, listed, info, starts>>

EncodeVideo(n) ==
  /\ n \in job.queue /\ ~Reusable(n)
  /\ job' = [job EXCEPT !.queue = @ \ {n}, !.active = @ \union {n}]
  /\ clips' = [clips EXCEPT ![n] = Partial]
  /\ UNCHANGED <<code, corpus, conv, rows, listed, info, starts>>

VideoDone(n) ==
  /\ n \in job.active /\ clips[n] = Partial /\ job' = [job EXCEPT !.active = @ \ {n}]
  /\ clips' = [clips EXCEPT ![n] = job.sel[n]]
  /\ UNCHANGED <<code, corpus, conv, rows, listed, info, starts>>

\* Mutant : the thread is lost with its video.
VideoFails_Hangs(n) ==
  /\ n \in job.active /\ clips[n] # None /\ clips' = [clips EXCEPT ![n] = None]
  /\ job' = [job EXCEPT !.broken = TRUE]
  /\ UNCHANGED <<code, corpus, conv, rows, listed, info, starts>>

\* ffmpeg fails or cuts another number of frames, and the video goes, or it takes half an
\* hour, and what it wrote stays ; the future keeps the error.
VideoFails(n) ==
  /\ n \in job.active
  /\ \E file \in {None, Partial} : clips' = [clips EXCEPT ![n] = file]
  /\ job' = [job EXCEPT !.active = @ \ {n}, !.broken = TRUE]
  /\ UNCHANGED <<code, corpus, conv, rows, listed, info, starts>>

Joined == job.queue = {} /\ job.active = {}

\* finalize, first half : the pool is joined and asked for its errors, then the list is
\* written.
WriteList ==
  /\ job.pc = "add" /\ job.next > Len(job.sel) /\ Joined /\ ~job.broken
  /\ listed' = job.sel /\ job' = [job EXCEPT !.pc = "info"]
  /\ UNCHANGED <<code, corpus, conv, rows, clips, info, starts>>

\* Its second half : the statistics are checked, and info.json is the last file.
WriteInfo ==
  /\ job.pc = "info" /\ info' = Len(job.sel) /\ job' = [job EXCEPT !.pc = "done"]
  /\ UNCHANGED <<code, corpus, conv, rows, clips, listed, starts>>

\* The process ends : with its pack, with an error of the pool, after an abort, or because
\* a statistic is not physical.
LeavePack ==
  /\ \/ job.pc \in {"done", "info"}
     \/ job.pc = "add" /\ job.next > Len(job.sel) /\ Joined /\ job.broken
     \/ job.pc = "abort" /\ Joined
  /\ job' = IdleJob
  /\ UNCHANGED <<code, corpus, conv, rows, clips, listed, info, starts>>

KillPack ==
  /\ job.pc # "idle" /\ job' = IdleJob
  /\ UNCHANGED <<code, corpus, conv, rows, clips, listed, info, starts>>

Pool == \E n \in Numbers : KeepVideo(n) \/ EncodeVideo(n) \/ VideoDone(n) \/ VideoFails(n)

PackStep == AddEpisode \/ AbortAdd \/ WriteList \/ WriteInfo \/ LeavePack \/ Pool

-----------------------------------------------------------------------------
PackNext == NewCode \/ StartConvert \/ ConvertStep \/ KillConvert
        \/ StartPack \/ PackStep \/ KillPack

PackSpec == PackInit /\ [][PackNext]_packVars

\* A command that runs goes on, and so does every thread of its pool.
PackFairness ==
  /\ WF_packVars(ConvertStep) /\ WF_packVars(PackStep)
  /\ \A n \in Numbers : WF_packVars(KeepVideo(n) \/ EncodeVideo(n))
                        /\ WF_packVars(VideoDone(n) \/ VideoFails(n))

FairPackSpec == PackSpec /\ PackFairness

-----------------------------------------------------------------------------
\* validate.py : the episodes are numbered as many as info says, belong to the split, and
\* every one of them is found again from the frozen sources ; of its video the frames are
\* counted.
PackMatches ==
  /\ info = Len(listed) /\ listed # <<>>
  /\ \A n \in DOMAIN listed :
       /\ listed[n] \in Sources
       /\ rows[n] = [source |-> listed[n], version |-> corpus[listed[n]].action]
       /\ clips[n] \in Sources /\ Frames[clips[n]] = Frames[listed[n]]

\* It also wants a frame in each episode that can be trained on, which no conversion looks
\* for (has_valid_anchor).
Validates == PackMatches /\ \A n \in DOMAIN listed : listed[n] \in Anchored

\* Every variable has its type ; no episode of the corpus is an artifact under the
\* manifest of another.
PackTypeOK ==
  /\ code \in Codes
  /\ \A s \in Sources :
       /\ corpus[s] \in [action : Codes \union {None}, manifest : Codes \union {None}]
       /\ corpus[s].action # None /\ corpus[s].manifest # None
            => corpus[s].action = corpus[s].manifest
  /\ conv.pc \in {"idle", "look", "build", "remove", "done"}
  /\ conv.todo \union conv.failed \subseteq conv.asked /\ conv.asked \subseteq Sources
  /\ rows \in [Numbers -> [source : Sources \union {None}, version : Codes \union {None}]]
  /\ clips \in [Numbers -> Sources \union {None, Partial}]
  /\ listed \in Selections \union {<<>>} /\ info \in {0} \union Numbers
  /\ job.pc \in {"idle", "add", "abort", "info", "done"}
  /\ job.queue \union job.active \subseteq DOMAIN job.sel /\ job.queue \cap job.active = {}
  /\ starts \in 0 .. MaxStarts

\* When a conversion reports, every episode it was asked for and does not report as failed
\* is there whole and of its own code : whatever was skipped, half removed by a run that was
\* killed, or made by another version.
ReportedIsThere ==
  conv.pc = "done" =>
    \A s \in conv.asked \ conv.failed :
      corpus[s] = [action |-> conv.version, manifest |-> conv.version]

\* The rows of every episode info.json declares are whole at every moment, also while the
\* pack is written again over the old one or after that was killed.
DeclaredHasRows == \A n \in 1 .. info : rows[n].source \in Sources

\* The types, and what the two commands leave on disk is what they say is there.
PackInv == PackTypeOK /\ ReportedIsThere /\ DeclaredHasRows

\* A pack conversion that ends well leaves a pack in which the validator finds every
\* episode again, whatever earlier runs, longer ones, killed ones, of other collections,
\* left in the directory.
EndsMatching == job.pc = "done" => PackMatches

\* The validator may still refuse it : an episode without a valid anchor goes through the
\* conversion (assert_mapping returns before it looks at what is supervised).
EndsAccepted == job.pc = "done" => Validates

\* With --force every clip of the finished pack shows the episode of its rows.
ForcedShowsRows ==
  job.pc = "done" /\ job.force => \A n \in DOMAIN listed : clips[n] = rows[n].source

\* Together : what a pack conversion that ends well has made.
EndsWell == EndsMatching /\ ForcedShowsRows

\* The same without it : the clips of an earlier selection are kept under their number.
ClipsShowRows == job.pc = "done" => \A n \in DOMAIN listed : clips[n] = rows[n].source

\* A command ends, also when a thread of its pool fails.
CommandsEnd == (conv.pc # "idle" ~> conv.pc = "idle") /\ (job.pc # "idle" ~> job.pc = "idle")
=============================================================================
