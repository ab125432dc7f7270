----------------------------- MODULE DataPreparation -----------------------------
(***************************************************************************)
(* scripts/preprocess_dataset.py: the raw CSV files of three splits are    *)
(* cleaned, a scaler is fitted on the training split, and the scaled rows  *)
(* are written to one output file per raw file, next to the artifacts: the *)
(* scaler and a report.                                                    *)
(*                                                                         *)
(* A process runs the sample verification, or the verification and then    *)
(* the full pass with the same object.  It reads a file in chunks and may  *)
(* be killed between any two of them; the files it has written stay and    *)
(* the next process works over them.                                       *)
(*                                                                         *)
(* A row is a model value or Invalid.  Its features depend on it alone,    *)
(* and a scaler is the bag of feature vectors it was fitted on.            *)
(***************************************************************************)
EXTENDS Integers, FiniteSets, SequencesExt, Bags

CONSTANTS
  Rows,           \* rows that can be parsed and miss nothing
  Invalid,        \* a row with a missing, unparseable or infinite value
  Feature,        \* the feature vector of each of these rows
  DataSets,       \* data sets on disk: split |-> file |-> chunk |-> row
  SampleSize,     \* rows after which the verification stops reading a split
  MaxLaunches     \* bound: processes started one after another

SplitNames == {"train", "validation", "test"}

ASSUME DataAssumption ==
  /\ Invalid \notin Rows /\ DOMAIN Feature = Rows
  \* A file of a header alone has one chunk, which is empty.
  /\ DataSets \subseteq [SplitNames -> Seq(Seq(Seq(Rows \cup {Invalid})) \ {<<>>})]
  /\ SampleSize \in Nat \ {0} /\ MaxLaunches \in Nat

(* clean_chunk: what is invalid is dropped, and so are the duplicates of a *)
(* row within the chunk, the first of them being kept.                     *)
Keeps(rows, i) == rows[i] # Invalid /\ \A j \in 1 .. i - 1 : rows[j] # rows[i]

CleanChunk(rows) ==
  FlattenSeq([i \in DOMAIN rows |-> IF Keeps(rows, i) THEN <<rows[i]>> ELSE <<>>])

(* extract_features looks at one row at a time, and at no label.           *)
ExtractFeatures(rows) == [i \in DOMAIN rows |-> Feature[rows[i]]]

BagOf(series) ==
  [v \in ToSet(series) |-> Cardinality({i \in DOMAIN series : series[i] = v})]

-------------------------------------------------------------------------------
(* What a process has to do, phase by phase; a limit of zero is none.      *)
Simple(kind)            == [kind |-> kind, split |-> "train", limit |-> 0]
Fit(limit)              == [kind |-> "fit", split |-> "train", limit |-> limit]
Transform(split, limit) == [kind |-> "transform", split |-> split, limit |-> limit]

RunVerification(limit) ==
  << Simple("lookForFiles"), Simple("reset"), Fit(limit),
     Transform("train", limit), Transform("validation", limit), Transform("test", limit),
     Simple("saveScaler"), Simple("saveReport"), Simple("checkOutputs") >>

RunFull ==
  << Simple("reset"), Fit(0), Simple("saveScaler"), Simple("saveReport"),
     Transform("train", 0), Transform("validation", 0), Transform("test", 0),
     Simple("saveScaler"), Simple("saveReport") >>

Programs == [ sample |-> RunVerification(SampleSize),
              full   |-> RunVerification(SampleSize) \o RunFull ]

VARIABLES
  raw,            \* the raw data set, which no process writes
  status,         \* "off", "running", "done" or "failed"
  program,        \* what the last process was asked to do
  plan,           \* phases it still has to do, the first one being at work
  cursor,         \* chunk of the split the phase reads next
  total,          \* rows the phase has fitted or saved
  written,        \* files the phase has opened
  scaler,         \* the scaler in memory
  stats,          \* split |-> rows read, kept and dropped
  outputs,        \* split |-> file |-> rows on disk with their scaler
  artifacts,      \* the scaler and the report on disk
  launches        \* processes so far

memory == <<plan, cursor, total, written, scaler, stats>>
prepVars == <<raw, status, program, memory, outputs, artifacts, launches>>

Files(split) == DOMAIN raw[split]

(* The chunks of a split in the order in which they are read.              *)
Chunks(split) ==
  FlattenSeq([f \in Files(split) |->
    [c \in DOMAIN raw[split][f] |-> [file |-> f, rows |-> raw[split][f][c]]]])

NoStats == [s \in SplitNames |-> [raw |-> 0, cleaned |-> 0, dropped |-> 0]]

PrepInit ==
  /\ raw \in DataSets
  /\ status = "off" /\ program = "sample"
  /\ plan = <<>> /\ cursor = 1 /\ total = 0 /\ written = {}
  /\ scaler = EmptyBag /\ stats = NoStats
  /\ outputs = [s \in SplitNames |-> [f \in Files(s) |-> <<>>]]
  /\ artifacts = [scaler |-> EmptyBag, report |-> NoStats]
  /\ launches = 0

-------------------------------------------------------------------------------
Phase == Head(plan)
At(kind) == status = "running" /\ Phase.kind = kind
Chunk == Chunks(Phase.split)[cursor]
Clean == CleanChunk(Chunk.rows)

(* main: a new process starts with a new object.                           *)
Launch(p) ==
  /\ status # "running" /\ launches < MaxLaunches
  /\ status' = "running" /\ program' = p
  /\ plan' = Programs[p]
  /\ cursor' = 1 /\ total' = 0 /\ written' = {}
  /\ scaler' = EmptyBag /\ stats' = NoStats
  /\ launches' = launches + 1
  /\ UNCHANGED <<outputs, artifacts>>

(* The phase is over; a process without a phase left ends.                 *)
NextPhase ==
  /\ plan' = Tail(plan) /\ cursor' = 1 /\ total' = 0 /\ written' = {}
  /\ status' = IF Len(plan) = 1 THEN "done" ELSE "running"

(* The object and all it knows goes with its process.                      *)
EndWith(outcome) ==
  /\ status' = outcome
  /\ plan' = <<>> /\ cursor' = 1 /\ total' = 0 /\ written' = {}
  /\ scaler' = EmptyBag /\ stats' = NoStats
  /\ UNCHANGED <<program, outputs, artifacts, launches>>

(* A chunk has been read: the limit ends the phase, as the last chunk does. *)
NextChunk(kept) ==
  LET over == \/ cursor = Len(Chunks(Phase.split))
              \/ kept > 0 /\ Phase.limit > 0 /\ total + kept >= Phase.limit
  IN  IF over THEN NextPhase
      ELSE /\ cursor' = cursor + 1 /\ total' = total + kept
           /\ UNCHANGED <<status, plan>>

CountChunk ==
  stats' = [stats EXCEPT ![Phase.split] =
    [ raw     |-> @.raw + Len(Chunk.rows),
      cleaned |-> @.cleaned + Len(Clean),
      dropped |-> @.dropped + Len(Chunk.rows) - Len(Clean) ]]

(* The verification insists on a file in every split.                      *)
LookForFiles ==
  /\ At("lookForFiles")
  /\ IF \A s \in SplitNames : Files(s) # {}
       THEN /\ NextPhase
            /\ UNCHANGED <<program, scaler, stats, outputs, artifacts, launches>>
       ELSE EndWith("failed")

(* The counts are set back at the start of either pass, the scaler is not. *)
ResetStats ==
  /\ At("reset")
  /\ stats' = NoStats
  /\ NextPhase
  /\ UNCHANGED <<program, scaler, outputs, artifacts, launches>>

(* fit_train, one chunk.                                                   *)
FitChunk ==
  /\ At("fit")
  /\ CountChunk
  /\ scaler' = scaler (+) BagOf(ExtractFeatures(Clean))
  /\ NextChunk(Len(Clean))
  /\ UNCHANGED <<program, outputs, artifacts, launches>>
  /\ written' = {}

(* Mutant of Opened: a file that is there is appended to. *)
OpenedToAppend == outputs[Phase.split][Chunk.file]

(* Mutant of Opened: every chunk truncates its file. *)
OpenedAnew == <<>>

(* The contents an output file has before a chunk is added: the first      *)
(* chunk of it that is written truncates the file.                         *)
Opened ==
  IF Chunk.file \in written THEN outputs[Phase.split][Chunk.file] ELSE <<>>

(* A row on disk: the scaled features, with what identifies the row and    *)
(* its label beside them.                                                  *)
Scaled(rows, by) ==
  [i \in DOMAIN rows |->
    [row |-> rows[i], features |-> ExtractFeatures(rows)[i], scaler |-> by]]

(* transform_and_save, one chunk.  A chunk without a clean row opens no    *)
(* file.  A scaler that was never fitted refuses.                          *)
TransformChunk ==
  /\ At("transform")
  /\ Clean # <<>> => scaler # EmptyBag
  /\ CountChunk
  /\ outputs' = IF Clean = <<>> THEN outputs
                ELSE [outputs EXCEPT ![Phase.split][Chunk.file] =
                        Opened \o Scaled(Clean, scaler)]
  /\ NextChunk(Len(Clean))
  /\ written' = IF plan' # plan THEN {}
                ELSE IF Clean = <<>> THEN written
                ELSE written \cup {Chunk.file}
  /\ UNCHANGED <<program, scaler, artifacts, launches>>

TransformFails ==
  /\ At("transform") /\ Clean # <<>> /\ scaler = EmptyBag
  /\ EndWith("failed")

(* save_artifacts writes one file after the other.                         *)
SaveScaler ==
  /\ At("saveScaler")
  /\ artifacts' = [artifacts EXCEPT !.scaler = scaler]
  /\ NextPhase
  /\ UNCHANGED <<program, scaler, stats, outputs, launches>>

SaveReport ==
  /\ At("saveReport")
  /\ artifacts' = [artifacts EXCEPT !.report = stats]
  /\ NextPhase
  /\ UNCHANGED <<program, scaler, stats, outputs, launches>>

(* The assertions of run_verification: there is an output for every split; *)
(* the columns agree and no value is missing, whatever the rows are.       *)
CheckOutputs ==
  /\ At("checkOutputs")
  /\ IF \A s \in SplitNames : \E f \in Files(s) : outputs[s][f] # <<>>
       THEN /\ NextPhase
            /\ UNCHANGED <<program, scaler, stats, outputs, artifacts, launches>>
       ELSE EndWith("failed")

(* The process is killed.                                                  *)
Kill == status = "running" /\ EndWith("off")

PrepNext ==
  /\ \/ \E p \in {"sample", "full"} : Launch(p)
     \/ LookForFiles \/ ResetStats \/ FitChunk \/ TransformChunk
     \/ TransformFails \/ SaveScaler \/ SaveReport \/ CheckOutputs \/ Kill
  /\ UNCHANGED raw

PrepSpec == PrepInit /\ [][PrepNext]_prepVars

-------------------------------------------------------------------------------
(* Kills and restarts: at no moment does an output file hold rows that     *)
(* were scaled with different scalers, although every pass writes over     *)
(* the files of the passes before it and may stop anywhere.                *)
FilesHomogeneous ==
  \A s \in SplitNames : \A f \in Files(s) :
    \A r1, r2 \in ToSet(outputs[s][f]) : r1.scaler = r2.scaler

FullPassDone == status = "done" /\ program = "full"

(* The valid rows of a raw file, and how many rows a split has on disk.    *)
ValidRows(s, f) ==
  (UNION {ToSet(raw[s][f][c]) : c \in DOMAIN raw[s][f]}) \ {Invalid}
Retained(s) == Len(FlattenSeq(outputs[s]))

(* run_full: once it is through, whatever was killed before it, an output  *)
(* file holds the valid rows of its raw file, all of them and no other,    *)
(* scaled with the scaler that is on disk; this one has seen every valid   *)
(* training row and no row of another split; and the report counts of      *)
(* validation and test what is there.                                      *)
FullPassExact ==
  FullPassDone =>
    /\ \A s \in SplitNames : \A f \in Files(s) :
         /\ {r.row : r \in ToSet(outputs[s][f])} = ValidRows(s, f)
         /\ \A r \in ToSet(outputs[s][f]) : r.scaler = artifacts.scaler
    /\ DOMAIN artifacts.scaler =
         {Feature[r] : r \in UNION {ValidRows("train", f) : f \in Files("train")}}
    /\ \A s \in {"validation", "test"} :
         artifacts.report[s].cleaned = Retained(s)
===============================================================================
