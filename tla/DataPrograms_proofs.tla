-------------------------- MODULE DataPrograms_proofs --------------------------
(***************************************************************************)
(* The two programs that work on a data set on disk, for every data set.   *)
(***************************************************************************)
EXTENDS DataPreparation, DatasetStudy, ProofLemmas

-------------------------------------------------------------------------------
(* The data set and what the program makes of it.                          *)
RawRows      == Rows \cup {Invalid}
Feats        == {Feature[r] : r \in Rows}
FeatureBags  == UNION {[D -> Nat] : D \in SUBSET Feats}
OutRows      == [row : Rows, features : Feats, scaler : FeatureBags]
ChunksOf(s)  == [file : Files(s), rows : Seq(RawRows)]

Kinds == {"lookForFiles", "reset", "fit", "transform", "saveScaler", "saveReport",
          "checkOutputs"}
PhaseType == [kind : Kinds, split : SplitNames, limit : Nat]

(* Lists of lists, flattened.                                              *)
LEMMA FlattenTyped ==
  ASSUME NEW V, NEW n \in Nat, NEW g \in [1 .. n -> Seq(V)]
  PROVE  FlattenSeq(g) = Flat(g, n) /\ FlattenSeq(g) \in Seq(V)
<1>1. g = [i \in 1 .. n |-> g[i]] OBVIOUS
<1>2. FlattenSeq(g) = Flat(g, n) BY <1>1 DEF Flat
<1>3. n \in 0 .. n OBVIOUS
<1> QED BY <1>2, <1>3, FlatStep

(* clean_chunk keeps rows, and none that is invalid.                       *)
LEMMA CleanTyped ==
  \A rows \in Seq(RawRows) : CleanChunk(rows) \in Seq(Rows)
<1> TAKE rows \in Seq(RawRows)
<1> DEFINE g == [i \in DOMAIN rows |-> IF Keeps(rows, i) THEN <<rows[i]>> ELSE <<>>]
           n == Len(rows)
<1>1. n \in Nat /\ DOMAIN rows = 1 .. n BY SeqAsFunction
<1>2. \A i \in 1 .. n : rows[i] \in RawRows BY ElementOfSeq
<1>3. g \in [1 .. n -> Seq(Rows)]
  <2> SUFFICES ASSUME NEW i \in 1 .. n PROVE g[i] \in Seq(Rows) BY <1>1
  <2>1. <<>> \in Seq(Rows) OBVIOUS
  <2>2. Keeps(rows, i) => rows[i] \in Rows BY <1>2 DEF Keeps, RawRows
  <2>3. \A r \in Rows : <<r>> \in Seq(Rows) OBVIOUS
  <2> QED BY <1>1, <2>1, <2>2, <2>3
<1> HIDE DEF g, n
<1>4. FlattenSeq(g) \in Seq(Rows) BY <1>1, <1>3, FlattenTyped
<1> QED BY <1>4 DEF g, CleanChunk

(* A tuple of nine.                                                        *)
LEMMA NineOf ==
  ASSUME NEW T, NEW a \in T, NEW b \in T, NEW c \in T, NEW d \in T, NEW e \in T,
         NEW f \in T, NEW g \in T, NEW h \in T, NEW i \in T
  PROVE  LET t == <<a, b, c, d, e, f, g, h, i>>
         IN  /\ t \in Seq(T) /\ Len(t) = 9
             /\ t[1] = a /\ t[2] = b /\ t[3] = c /\ t[4] = d /\ t[5] = e
             /\ t[6] = f /\ t[7] = g /\ t[8] = h /\ t[9] = i
OBVIOUS

(* The head of a sequence that is not empty, and what is left without it.  *)
LEMMA HeadFirst ==
  \A S : \A s \in Seq(S) : s # <<>> =>
    /\ Head(s) = s[1] /\ Head(s) \in S /\ Len(s) \in Nat \ {0}
    /\ Tail(s) \in Seq(S) /\ Len(Tail(s)) = Len(s) - 1
    /\ \A i \in 1 .. Len(s) - 1 : Tail(s)[i] = s[i + 1]
<1> SUFFICES ASSUME NEW S, NEW s \in Seq(S), s # <<>>
             PROVE  /\ Head(s) = s[1] /\ Head(s) \in S /\ Len(s) \in Nat \ {0}
                    /\ Tail(s) \in Seq(S) /\ Len(Tail(s)) = Len(s) - 1
                    /\ \A i \in 1 .. Len(s) - 1 : Tail(s)[i] = s[i + 1]
  OBVIOUS
<1>2. /\ Head(s) \in S /\ Tail(s) \in Seq(S) /\ Len(Tail(s)) = Len(s) - 1
      /\ \A i \in 1 .. Len(Tail(s)) : Tail(s)[i] = s[i + 1]
  BY HeadTailProperties
<1>3. Head(s) = s[1] BY DEF Head
<1>4. Len(s) \in Nat \ {0} OBVIOUS
<1> QED BY <1>2, <1>3, <1>4

LEMMA LongerThanNone ==
  \A s : Len(s) # 0 => s # <<>>
OBVIOUS

LEMMA ConcatLonger ==
  \A S : \A s, t \in Seq(S) :
    /\ s \o t \in Seq(S) /\ Len(s \o t) = Len(s) + Len(t)
    /\ \A i \in 1 .. Len(s) : (s \o t)[i] = s[i]
BY ConcatParts

(* A process looks for files first.                                       *)
Starts(p) == p # <<>> /\ Head(p).kind = "lookForFiles"

LEMMA VerificationTyped ==
  /\ RunVerification(SampleSize) \in Seq(PhaseType)
  /\ Len(RunVerification(SampleSize)) = 9
  /\ RunVerification(SampleSize)[1].kind = "lookForFiles"
<1>1. \A k \in Kinds : Simple(k) \in PhaseType
  BY DEF Simple, PhaseType, SplitNames
<1>2. \A l \in Nat : Fit(l) \in PhaseType BY DEF Fit, PhaseType, SplitNames, Kinds
<1>3. \A l \in Nat : \A s \in SplitNames : Transform(s, l) \in PhaseType
  BY DEF Transform, PhaseType, Kinds
<1>4. SampleSize \in Nat BY DataAssumption
<1>5. \A k \in {"lookForFiles", "reset", "saveScaler", "saveReport", "checkOutputs"} :
        Simple(k) \in PhaseType
  BY <1>1 DEF Kinds
<1>6. /\ Fit(SampleSize) \in PhaseType /\ Transform("train", SampleSize) \in PhaseType
      /\ Transform("validation", SampleSize) \in PhaseType
      /\ Transform("test", SampleSize) \in PhaseType
  BY <1>2, <1>3, <1>4 DEF SplitNames
<1>7. /\ RunVerification(SampleSize) \in Seq(PhaseType)
      /\ Len(RunVerification(SampleSize)) = 9
      /\ RunVerification(SampleSize)[1] = Simple("lookForFiles")
  BY <1>5, <1>6, NineOf DEF RunVerification
<1> QED BY <1>7 DEF Simple

LEMMA RunFullTyped == RunFull \in Seq(PhaseType) /\ Len(RunFull) = 9
<1>1. \A k \in {"reset", "saveScaler", "saveReport"} : Simple(k) \in PhaseType
  BY DEF Simple, PhaseType, SplitNames, Kinds
<1>2. Fit(0) \in PhaseType BY DEF Fit, PhaseType, SplitNames, Kinds
<1>3. /\ Transform("train", 0) \in PhaseType /\ Transform("validation", 0) \in PhaseType
      /\ Transform("test", 0) \in PhaseType
  BY DEF Transform, PhaseType, Kinds, SplitNames
<1> QED BY <1>1, <1>2, <1>3, NineOf DEF RunFull

LEMMA ProgramsTyped ==
  \A p \in {"sample", "full"} : Programs[p] \in Seq(PhaseType) /\ Starts(Programs[p])
<1> DEFINE sample == RunVerification(SampleSize)
           whole == sample \o RunFull
<1>1. sample \in Seq(PhaseType) /\ Len(sample) = 9 /\ sample[1].kind = "lookForFiles"
  BY VerificationTyped
<1>2. Programs["sample"] = sample /\ Programs["full"] = whole BY DEF Programs
<1> HIDE DEF sample
<1>3. whole \in Seq(PhaseType) /\ Len(whole) = 18 /\ whole[1] = sample[1]
  <2>1. /\ whole \in Seq(PhaseType) /\ Len(whole) = Len(sample) + Len(RunFull)
        /\ \A i \in 1 .. Len(sample) : whole[i] = sample[i]
    BY <1>1, RunFullTyped, ConcatLonger, Zenon
  <2> HIDE DEF whole
  <2> QED BY <1>1, <2>1, RunFullTyped
<1> HIDE DEF whole
<1>4. Starts(sample)
  <2>1. sample # <<>>
    <3>1. Len(sample) # 0 BY <1>1
    <3> QED BY <3>1, LongerThanNone, Zenon
  <2>2. Head(sample) = sample[1] BY <1>1, <2>1, HeadFirst, Zenon
  <2> QED BY <1>1, <2>1, <2>2 DEF Starts
<1>5. Starts(whole)
  <2>1. whole # <<>>
    <3>1. Len(whole) # 0 BY <1>3
    <3> QED BY <3>1, LongerThanNone, Zenon
  <2>2. Head(whole) = whole[1] BY <1>3, <2>1, HeadFirst, Zenon
  <2> QED BY <1>1, <1>3, <2>1, <2>2 DEF Starts
<1> QED BY <1>1, <1>2, <1>3, <1>4, <1>5

-------------------------------------------------------------------------------
(* The clean rows of a file, of a split, and of what the sample reads.     *)
CleanRows(s, f) ==
  FlattenSeq([c \in DOMAIN raw[s][f] |-> CleanChunk(raw[s][f][c])])
CleanSplit(s) == FlattenSeq([f \in Files(s) |-> CleanRows(s, f)])

SampleBags ==
  { BagOf(ExtractFeatures(p)) :
      p \in {q \in Prefixes(CleanSplit("train")) :
                Len(q) >= SampleSize \/ q = CleanSplit("train")} }

(* The raw files: one list of chunks each, and none without a chunk.       *)
RawFiles == Seq(Seq(RawRows)) \ {<<>>}

LEMMA RawTyped ==
  ASSUME raw \in DataSets
  PROVE  /\ Invalid \notin Rows /\ DOMAIN Feature = Rows
         /\ \A s \in SplitNames :
              /\ raw[s] \in Seq(RawFiles) /\ Len(raw[s]) \in Nat
              /\ Files(s) = 1 .. Len(raw[s])
              /\ \A f \in Files(s) :
                   /\ raw[s][f] \in Seq(Seq(RawRows)) /\ raw[s][f] # <<>>
                   /\ Len(raw[s][f]) \in Nat \ {0} /\ DOMAIN raw[s][f] = 1 .. Len(raw[s][f])
                   /\ \A c \in DOMAIN raw[s][f] : raw[s][f][c] \in Seq(RawRows)
<1>1. raw \in [SplitNames -> Seq(RawFiles)] BY DataAssumption DEF RawFiles, RawRows
<1>2. Invalid \notin Rows /\ DOMAIN Feature = Rows BY DataAssumption
<1> SUFFICES ASSUME NEW s \in SplitNames
             PROVE  /\ raw[s] \in Seq(RawFiles) /\ Len(raw[s]) \in Nat
                    /\ Files(s) = 1 .. Len(raw[s])
                    /\ \A f \in Files(s) :
                         /\ raw[s][f] \in Seq(Seq(RawRows)) /\ raw[s][f] # <<>>
                         /\ Len(raw[s][f]) \in Nat \ {0}
                         /\ DOMAIN raw[s][f] = 1 .. Len(raw[s][f])
                         /\ \A c \in DOMAIN raw[s][f] : raw[s][f][c] \in Seq(RawRows)
  BY <1>2
<1>3. raw[s] \in Seq(RawFiles) BY <1>1
<1>4. Len(raw[s]) \in Nat /\ Files(s) = 1 .. Len(raw[s]) BY <1>3, SeqAsFunction DEF Files
<1>5. ASSUME NEW f \in Files(s)
      PROVE  /\ raw[s][f] \in Seq(Seq(RawRows)) /\ raw[s][f] # <<>>
             /\ Len(raw[s][f]) \in Nat \ {0} /\ DOMAIN raw[s][f] = 1 .. Len(raw[s][f])
             /\ \A c \in DOMAIN raw[s][f] : raw[s][f][c] \in Seq(RawRows)
  <2> DEFINE file == raw[s][f]
  <2>1. file \in RawFiles BY <1>3, <1>4, <1>5, ElementOfSeq
  <2> HIDE DEF file
  <2>2. file \in Seq(Seq(RawRows)) /\ file # <<>> BY <2>1 DEF RawFiles
  <2>3. Len(file) \in Nat \ {0} /\ DOMAIN file = 1 .. Len(file) BY <2>2
  <2>4. \A c \in 1 .. Len(file) : file[c] \in Seq(RawRows) BY <2>2, ElementOfSeq
  <2> QED BY <2>2, <2>3, <2>4 DEF file
<1> QED BY <1>3, <1>4, <1>5

(* The chunks of one file, and those of a split.                           *)
FileChunks(s, f) == [c \in DOMAIN raw[s][f] |-> [file |-> f, rows |-> raw[s][f][c]]]
SplitChunks(s) == [f \in Files(s) |-> FileChunks(s, f)]

LEMMA ChunksTyped ==
  ASSUME raw \in DataSets, NEW s \in SplitNames
  PROVE  /\ SplitChunks(s) \in [1 .. Len(raw[s]) -> Seq(ChunksOf(s))]
         /\ Len(raw[s]) \in Nat /\ Files(s) = 1 .. Len(raw[s])
         /\ Chunks(s) = Flat(SplitChunks(s), Len(raw[s]))
         /\ Chunks(s) \in Seq(ChunksOf(s))
         /\ Files(s) # {} => Chunks(s) # <<>>
<1> DEFINE n == Len(raw[s])
<1>1. n \in Nat /\ Files(s) = 1 .. n BY RawTyped
<1>2. ASSUME NEW f \in Files(s)
      PROVE  FileChunks(s, f) \in Seq(ChunksOf(s)) /\ FileChunks(s, f) # <<>>
  <2> DEFINE file == raw[s][f]
  <2>1. /\ Len(file) \in Nat \ {0} /\ DOMAIN file = 1 .. Len(file)
        /\ \A c \in DOMAIN file : file[c] \in Seq(RawRows)
    BY <1>2, RawTyped
  <2>2. FileChunks(s, f) = [c \in DOMAIN file |-> [file |-> f, rows |-> file[c]]]
    BY DEF FileChunks
  <2> HIDE DEF file
  <2>3. \A c \in DOMAIN file : [file |-> f, rows |-> file[c]] \in ChunksOf(s)
    BY <1>2, <2>1 DEF ChunksOf
  <2>4. FileChunks(s, f) \in [1 .. Len(file) -> ChunksOf(s)] BY <2>1, <2>2, <2>3
  <2>5. FileChunks(s, f) \in Seq(ChunksOf(s)) /\ Len(FileChunks(s, f)) = Len(file)
    BY <2>1, <2>4, FunctionAsSeq
  <2>6. Len(FileChunks(s, f)) # 0 BY <2>1, <2>5
  <2> QED BY <2>5, <2>6, LongerThanNone, Zenon
<1>3. SplitChunks(s) \in [1 .. n -> Seq(ChunksOf(s))] BY <1>1, <1>2 DEF SplitChunks
<1>4. Chunks(s) = FlattenSeq(SplitChunks(s)) BY DEF Chunks, SplitChunks, FileChunks
<1> HIDE DEF n
<1>5. Chunks(s) = Flat(SplitChunks(s), n) /\ Chunks(s) \in Seq(ChunksOf(s))
  BY <1>1, <1>3, <1>4, FlattenTyped
<1>6. ASSUME Files(s) # {} PROVE Chunks(s) # <<>>
  <2>1. 1 \in 1 .. n /\ 1 \in Files(s) BY <1>1, <1>6
  <2>2. SplitChunks(s)[1] # <<>> BY <1>2, <2>1 DEF SplitChunks
  <2> QED BY <1>1, <1>3, <1>5, <2>1, <2>2, FlatSome
<1> QED BY <1>1, <1>3, <1>5, <1>6 DEF n

(* Bags of feature vectors.                                                *)
LEMMA FeaturesTyped ==
  ASSUME NEW rows \in Seq(Rows)
  PROVE  /\ ExtractFeatures(rows) \in Seq(Feats)
         /\ Len(ExtractFeatures(rows)) = Len(rows)
         /\ \A i \in 1 .. Len(rows) : ExtractFeatures(rows)[i] = Feature[rows[i]]
<1>1. Len(rows) \in Nat /\ DOMAIN rows = 1 .. Len(rows) BY SeqAsFunction
<1>2. \A i \in 1 .. Len(rows) : rows[i] \in Rows BY ElementOfSeq
<1>3. \A r \in Rows : Feature[r] \in Feats BY DEF Feats
<1>4. ExtractFeatures(rows) = [i \in 1 .. Len(rows) |-> Feature[rows[i]]]
  BY <1>1 DEF ExtractFeatures
<1>5. ExtractFeatures(rows) \in [1 .. Len(rows) -> Feats] BY <1>2, <1>3, <1>4
<1> QED BY <1>1, <1>4, <1>5, FunctionAsSeq

LEMMA BagTyped ==
  ASSUME NEW series \in Seq(Feats)
  PROVE  BagOf(series) \in FeatureBags
<1>1. ToSet(series) \in SUBSET Feats
  BY SeqAsFunction, ElementOfSeq DEF ToSet
<1>2. Len(series) \in Nat /\ DOMAIN series = 1 .. Len(series) BY SeqAsFunction
<1>3. ASSUME NEW v PROVE Cardinality({i \in DOMAIN series : series[i] = v}) \in Nat
  <2>1. IsFiniteSet(1 .. Len(series)) BY <1>2, FS_Interval
  <2>2. {i \in DOMAIN series : series[i] = v} \subseteq 1 .. Len(series) BY <1>2
  <2>3. IsFiniteSet({i \in DOMAIN series : series[i] = v}) BY <2>1, <2>2, FS_Subset
  <2> QED BY <2>3, FS_CardinalityType
<1> DEFINE count(v) == Cardinality({i \in DOMAIN series : series[i] = v})
<1>4. BagOf(series) = [v \in ToSet(series) |-> count(v)] BY DEF BagOf
<1>5. \A v : count(v) \in Nat BY <1>3
<1> HIDE DEF count
<1>6. BagOf(series) \in [ToSet(series) -> Nat] BY <1>4, <1>5
<1> QED BY <1>1, <1>6 DEF FeatureBags

LEMMA PlusTyped ==
  ASSUME NEW a \in FeatureBags, NEW b \in FeatureBags
  PROVE  a (+) b \in FeatureBags
<1>1. PICK A \in SUBSET Feats : a \in [A -> Nat] BY DEF FeatureBags
<1>2. PICK B \in SUBSET Feats : b \in [B -> Nat] BY DEF FeatureBags
<1>3. a (+) b = [e \in A \cup B |-> (IF e \in A THEN a[e] ELSE 0)
                                   + (IF e \in B THEN b[e] ELSE 0)]
  BY <1>1, <1>2 DEF (+)
<1>4. a (+) b \in [A \cup B -> Nat] BY <1>1, <1>2, <1>3
<1> QED BY <1>1, <1>2, <1>4 DEF FeatureBags

LEMMA EmptyTyped == EmptyBag \in FeatureBags
<1>1. EmptyBag = [e \in {} |-> 1] BY DEF EmptyBag, SetToBag
<1>2. EmptyBag \in [{} -> Nat] BY <1>1
<1> QED BY <1>2 DEF FeatureBags

(* Rows on disk carry the scaler they were scaled with.                    *)
LEMMA ScaledTyped ==
  ASSUME NEW rows \in Seq(Rows), NEW by \in FeatureBags
  PROVE  /\ Scaled(rows, by) \in Seq(OutRows) /\ Len(Scaled(rows, by)) = Len(rows)
         /\ \A i \in 1 .. Len(rows) : Scaled(rows, by)[i] =
              [row |-> rows[i], features |-> Feature[rows[i]], scaler |-> by]
<1> DEFINE n == Len(rows)
           x == ExtractFeatures(rows)
<1>1. n \in Nat /\ DOMAIN rows = 1 .. n BY SeqAsFunction
<1>2. \A i \in 1 .. n : rows[i] \in Rows BY ElementOfSeq
<1>3. \A i \in 1 .. n : x[i] = Feature[rows[i]] BY FeaturesTyped
<1> HIDE DEF x, n
<1>4. Scaled(rows, by) = [i \in 1 .. n |-> [row |-> rows[i], features |-> x[i], scaler |-> by]]
  BY <1>1 DEF Scaled, x
<1>5. \A r \in Rows : Feature[r] \in Feats BY DEF Feats
<1>6. Scaled(rows, by) \in [1 .. n -> OutRows]
  BY <1>2, <1>3, <1>4, <1>5 DEF OutRows
<1>7. Scaled(rows, by) \in Seq(OutRows) /\ Len(Scaled(rows, by)) = n
  BY <1>1, <1>6, FunctionAsSeq
<1> QED BY <1>3, <1>4, <1>7 DEF n

-------------------------------------------------------------------------------
(* While a process runs: it has looked for files before it reads one, it   *)
(* reads a chunk that is there, and the files its phase has opened hold    *)
(* rows scaled with the scaler it has, for it is not fitting.              *)
Ready == \A s \in SplitNames : Files(s) # {}
AllBy(rows, by) == \A i \in DOMAIN rows : rows[i].scaler = by

OutputsTyped ==
  /\ DOMAIN outputs = SplitNames
  /\ \A s \in SplitNames : outputs[s] \in [Files(s) -> Seq(OutRows)]

PlanSound ==
  /\ plan \in Seq(PhaseType) /\ plan # <<>>
  /\ Phase.kind = "lookForFiles" \/ Ready
  /\ cursor \in Nat \ {0} /\ total \in Nat
  /\ Ready => cursor <= Len(Chunks(Phase.split))

OpenedBy ==
  /\ written # {} => Phase.kind = "transform"
  /\ \A f \in written : f \in Files(Phase.split) /\ AllBy(outputs[Phase.split][f], scaler)

PrepTyped ==
  /\ raw \in DataSets /\ scaler \in FeatureBags
  /\ status \in {"off", "running", "done", "failed"} /\ program \in {"sample", "full"}
  /\ OutputsTyped

HInv ==
  /\ PrepTyped
  /\ status = "running" => PlanSound /\ OpenedBy
  /\ FilesHomogeneous


(* What a step leaves alone when it leaves the raw data and the outputs.   *)
LEMMA RawKept ==
  ASSUME raw' = raw
  PROVE  /\ \A s : Files(s)' = Files(s)
         /\ Ready' = Ready
         /\ \A s : Chunks(s)' = Chunks(s)
<1>1. \A s : Files(s)' = Files(s) BY DEF Files
<1>2. Ready' = Ready BY <1>1 DEF Ready
<1>3. \A s : Chunks(s)' = Chunks(s) BY <1>1 DEF Chunks
<1> QED BY <1>1, <1>2, <1>3

LEMMA OutputsKept ==
  ASSUME raw' = raw, outputs' = outputs
  PROVE  /\ OutputsTyped => OutputsTyped'
         /\ FilesHomogeneous => FilesHomogeneous'
BY RawKept DEF OutputsTyped, FilesHomogeneous

(* A phase in the plan reads a split that is there.                        *)
LEMMA PhaseTyped ==
  ASSUME PlanSound, raw \in DataSets
  PROVE  /\ Phase \in PhaseType /\ Phase.split \in SplitNames
         /\ Phase = plan[1] /\ Len(plan) \in Nat \ {0} /\ Tail(plan) # plan
         /\ Ready => /\ cursor \in DOMAIN Chunks(Phase.split)
                     /\ Chunk \in ChunksOf(Phase.split)
                     /\ Clean \in Seq(Rows)
<1>1. plan \in Seq(PhaseType) /\ plan # <<>> BY DEF PlanSound
<1>2. /\ Head(plan) = plan[1] /\ Head(plan) \in PhaseType /\ Len(plan) \in Nat \ {0}
      /\ Len(Tail(plan)) = Len(plan) - 1
  BY <1>1, HeadFirst, Zenon
<1>3. Tail(plan) # plan
  <2> DEFINE k == Len(plan)
  <2>1. k \in Nat /\ Len(Tail(plan)) = k - 1 BY <1>2
  <2> HIDE DEF k
  <2>2. k - 1 # k BY <2>1
  <2>3. Len(Tail(plan)) # k BY <2>1, <2>2, Zenon
  <2> QED BY <2>3, Zenon DEF k
<1>4. Phase \in PhaseType /\ Phase.split \in SplitNames BY <1>2 DEF Phase, PhaseType
<1>5. ASSUME Ready
      PROVE  /\ cursor \in DOMAIN Chunks(Phase.split)
             /\ Chunk \in ChunksOf(Phase.split)
             /\ Clean \in Seq(Rows)
  <2> DEFINE q == Chunks(Phase.split)
  <2>1. q \in Seq(ChunksOf(Phase.split)) BY <1>4, ChunksTyped
  <2>2. cursor \in Nat \ {0} /\ cursor <= Len(q) BY <1>5 DEF PlanSound
  <2>3. Chunk = q[cursor] BY DEF Chunk
  <2> HIDE DEF q
  <2>4. Len(q) \in Nat /\ DOMAIN q = 1 .. Len(q) BY <2>1, SeqAsFunction
  <2>5. cursor \in 1 .. Len(q) BY <2>2, <2>4
  <2>6. q[cursor] \in ChunksOf(Phase.split) BY <2>1, <2>5, ElementOfSeq
  <2>7. Chunk.rows \in Seq(RawRows) BY <2>3, <2>6 DEF ChunksOf
  <2>8. Clean \in Seq(Rows) BY <2>7, CleanTyped DEF Clean
  <2> QED BY <2>3, <2>4, <2>5, <2>6, <2>8 DEF q
<1> QED BY <1>2, <1>3, <1>4, <1>5 DEF Phase

(* The next phase starts at the first chunk, with no file opened.          *)
LEMMA NextPhaseSound ==
  ASSUME PlanSound, raw \in DataSets, raw' = raw, Ready, NextPhase, status' = "running"
  PROVE  PlanSound' /\ OpenedBy'
<1>1. plan \in Seq(PhaseType) /\ plan # <<>> BY DEF PlanSound
<1>2. /\ Tail(plan) \in Seq(PhaseType) /\ Len(plan) \in Nat \ {0}
      /\ Len(Tail(plan)) = Len(plan) - 1
  BY <1>1, HeadFirst, Zenon
<1>3. plan' = Tail(plan) /\ cursor' = 1 /\ total' = 0 /\ written' = {} /\ Len(plan) # 1
  BY DEF NextPhase
<1>4. Len(Tail(plan)) # 0 BY <1>2, <1>3
<1>5. plan' \in Seq(PhaseType) /\ plan' # <<>> BY <1>2, <1>3, <1>4, LongerThanNone, Zenon
<1>6. Head(plan') \in PhaseType BY <1>5, HeadFirst, Zenon
<1> DEFINE s == Head(plan').split
<1>7. s \in SplitNames BY <1>6 DEF PhaseType
<1>8. Phase'.split = s BY DEF Phase
<1> HIDE DEF s
<1>9. Len(Chunks(s)) \in Nat /\ 1 <= Len(Chunks(s))
  <2>1. Chunks(s) \in Seq(ChunksOf(s)) /\ Chunks(s) # <<>>
    BY <1>7, ChunksTyped DEF Ready
  <2>2. Len(Chunks(s)) \in Nat \ {0} BY <2>1, HeadFirst, Zenon
  <2> QED BY <2>2
<1>10. Ready' /\ \A t : Chunks(t)' = Chunks(t) BY RawKept
<1>11. Chunks(Phase.split)' = Chunks(s) BY <1>8, <1>10 DEF Chunks, Files
<1>12. PlanSound' BY <1>3, <1>5, <1>9, <1>10, <1>11 DEF PlanSound
<1>13. OpenedBy' BY <1>3 DEF OpenedBy
<1> QED BY <1>12, <1>13

LEMMA NextChunkSound ==
  ASSUME PlanSound, raw \in DataSets, raw' = raw, Ready, status = "running",
         NEW kept \in Nat, NextChunk(kept)
  PROVE  \/ /\ status' = "running" /\ plan' = plan
            /\ PlanSound' /\ Phase' = Phase /\ cursor' = cursor + 1
            /\ total' = total + kept
            /\ cursor # Len(Chunks(Phase.split))
            /\ ~ (kept > 0 /\ Phase.limit > 0 /\ total + kept >= Phase.limit)
         \/ /\ NextPhase /\ plan' # plan
            /\ \/ cursor = Len(Chunks(Phase.split))
               \/ kept > 0 /\ Phase.limit > 0 /\ total + kept >= Phase.limit
<1>1. Phase.split \in SplitNames /\ Tail(plan) # plan BY PhaseTyped
<1>2. CASE NextPhase /\ (\/ cursor = Len(Chunks(Phase.split))
                         \/ kept > 0 /\ Phase.limit > 0 /\ total + kept >= Phase.limit)
  BY <1>1, <1>2 DEF NextPhase
<1>3. CASE /\ cursor # Len(Chunks(Phase.split))
           /\ ~ (kept > 0 /\ Phase.limit > 0 /\ total + kept >= Phase.limit)
           /\ cursor' = cursor + 1 /\ total' = total + kept
           /\ status' = status /\ plan' = plan
  <2>1. Phase' = Phase BY <1>3 DEF Phase
  <2>2. Chunks(Phase.split)' = Chunks(Phase.split) BY <2>1, RawKept DEF Chunks, Files
  <2>3. Len(Chunks(Phase.split)) \in Nat BY <1>1, ChunksTyped, SeqAsFunction
  <2>4. Ready' = Ready BY RawKept
  <2>5. PlanSound' BY <1>3, <2>1, <2>2, <2>3, <2>4 DEF PlanSound
  <2> QED BY <1>3, <2>1, <2>5
<1> QED BY <1>2, <1>3 DEF NextChunk


-------------------------------------------------------------------------------
(* The outputs after a chunk has been added to a file.                     *)
LEMMA SetTyped ==
  ASSUME OutputsTyped, NEW s \in SplitNames, NEW f \in Files(s), NEW rows \in Seq(OutRows),
         raw' = raw, outputs' = [outputs EXCEPT ![s][f] = rows]
  PROVE  /\ OutputsTyped' /\ outputs'[s][f] = rows
         /\ \A t \in SplitNames : \A g \in Files(t) :
              t # s \/ g # f => outputs'[t][g] = outputs[t][g]
<1>1. \A t \in SplitNames : outputs[t] \in [Files(t) -> Seq(OutRows)] /\ DOMAIN outputs = SplitNames
  BY DEF OutputsTyped
<1>2. DOMAIN outputs' = SplitNames BY <1>1
<1>3. ASSUME NEW t \in SplitNames
      PROVE  /\ outputs'[t] \in [Files(t) -> Seq(OutRows)]
             /\ \A g \in Files(t) : t # s \/ g # f => outputs'[t][g] = outputs[t][g]
             /\ t = s => outputs'[t][f] = rows
  <2>1. CASE t = s
    <3>1. outputs'[t] = [outputs[t] EXCEPT ![f] = rows] BY <1>1, <2>1
    <3> QED BY <1>1, <2>1, <3>1
  <2>2. CASE t # s BY <1>1, <2>2
  <2> QED BY <2>1, <2>2
<1> QED BY <1>2, <1>3, RawKept DEF OutputsTyped

LEMMA AllByHomogeneous ==
  ASSUME NEW rows \in Seq(OutRows), NEW by, AllBy(rows, by)
  PROVE  \A r \in ToSet(rows) : r.scaler = by
BY DEF AllBy, ToSet

LEMMA ScaledBy ==
  \A rows \in Seq(Rows), by \in FeatureBags :
    Scaled(rows, by) \in Seq(OutRows) /\ AllBy(Scaled(rows, by), by)
<1> TAKE rows \in Seq(Rows), by \in FeatureBags
<1> DEFINE a == Scaled(rows, by)
           n == Len(rows)
<1>1. /\ a \in Seq(OutRows) /\ Len(a) = n
      /\ \A i \in 1 .. n :
           a[i] = [row |-> rows[i], features |-> Feature[rows[i]], scaler |-> by]
  BY ScaledTyped
<1> HIDE DEF a, n
<1>2. \A i \in 1 .. n : a[i].scaler = by BY <1>1
<1>3. DOMAIN a = 1 .. n BY <1>1, SeqAsFunction
<1>4. AllBy(a, by) BY <1>2, <1>3 DEF AllBy
<1> QED BY <1>1, <1>4 DEF a

(* The rows a chunk adds, behind those its phase has written before.       *)
LEMMA AddedTyped ==
  ASSUME PrepTyped, PlanSound, OpenedBy, Ready, Phase.kind = "transform"
  PROVE  /\ Chunk.file \in Files(Phase.split) /\ Phase.split \in SplitNames
         /\ Opened \o Scaled(Clean, scaler) \in Seq(OutRows)
         /\ AllBy(Opened \o Scaled(Clean, scaler), scaler)
<1>1. raw \in DataSets /\ scaler \in FeatureBags /\ OutputsTyped BY DEF PrepTyped
<1>2. /\ Phase.split \in SplitNames /\ Chunk \in ChunksOf(Phase.split)
      /\ Clean \in Seq(Rows)
  BY <1>1, PhaseTyped
<1> DEFINE a == Scaled(Clean, scaler)
           old == outputs[Phase.split][Chunk.file]
<1>3. Chunk.file \in Files(Phase.split) BY <1>2 DEF ChunksOf
<1>4. a \in Seq(OutRows) /\ AllBy(a, scaler) BY <1>1, <1>2, ScaledBy, Zenon
<1>5. old \in Seq(OutRows) BY <1>1, <1>2, <1>3 DEF OutputsTyped
<1>6. Opened \in Seq(OutRows) /\ AllBy(Opened, scaler)
  <2>1. CASE Chunk.file \in written
    <3>1. Opened = old BY <2>1 DEF Opened
    <3>2. AllBy(old, scaler) BY <2>1 DEF OpenedBy
    <3> QED BY <1>5, <3>1, <3>2
  <2>2. CASE Chunk.file \notin written
    <3>1. Opened = <<>> BY <2>2 DEF Opened
    <3>2. <<>> \in Seq(OutRows) /\ DOMAIN <<>> = {} OBVIOUS
    <3> QED BY <3>1, <3>2 DEF AllBy
  <2> QED BY <2>1, <2>2
<1> HIDE DEF a
<1> DEFINE o == Opened
           new == o \o a
<1>7. new \in Seq(OutRows) /\ AllBy(new, scaler)
  <2> HIDE DEF o
  <2>1. /\ new \in Seq(OutRows) /\ DOMAIN new = 1 .. Len(o) + Len(a)
        /\ \A i \in 1 .. Len(o) : new[i] = o[i]
        /\ \A i \in 1 .. Len(a) : new[Len(o) + i] = a[i]
        /\ Len(o) \in Nat /\ DOMAIN o = 1 .. Len(o)
        /\ Len(a) \in Nat /\ DOMAIN a = 1 .. Len(a)
    BY <1>4, <1>6, ConcatParts, SeqAsFunction DEF o
  <2> HIDE DEF new
  <2>2. ASSUME NEW i \in DOMAIN new PROVE new[i].scaler = scaler
    <3>1. CASE i <= Len(o)
      <4>1. i \in 1 .. Len(o) BY <2>1, <3>1
      <4> QED BY <1>6, <2>1, <4>1 DEF AllBy, o
    <3>2. CASE i > Len(o)
      <4> DEFINE k == i - Len(o)
      <4>1. k \in 1 .. Len(a) /\ i = Len(o) + k BY <2>1, <3>2
      <4> HIDE DEF k
      <4>2. new[i] = a[k] BY <2>1, <4>1
      <4> QED BY <1>4, <2>1, <4>1, <4>2 DEF AllBy
    <3> QED BY <2>1, <3>1, <3>2
  <2> QED BY <2>1, <2>2 DEF AllBy
<1> QED BY <1>2, <1>3, <1>7 DEF a


-------------------------------------------------------------------------------
LEMMA HInit == PrepInit => HInv
<1> SUFFICES ASSUME PrepInit PROVE HInv OBVIOUS
<1>1. scaler \in FeatureBags /\ raw \in DataSets BY EmptyTyped DEF PrepInit
<1>2. status = "off" /\ program = "sample" BY DEF PrepInit
<1>3. outputs = [s \in SplitNames |-> [f \in Files(s) |-> <<>>]] BY DEF PrepInit
<1>4. <<>> \in Seq(OutRows) /\ ToSet(<<>>) = {} BY DEF ToSet
<1>5. OutputsTyped BY <1>3, <1>4 DEF OutputsTyped
<1>6. FilesHomogeneous BY <1>3, <1>4 DEF FilesHomogeneous
<1> QED BY <1>1, <1>2, <1>5, <1>6 DEF HInv, PrepTyped

(* A step to the next phase that changes no output.                        *)
LEMMA PhaseStep ==
  ASSUME HInv, status = "running", Ready, NextPhase, raw' = raw, outputs' = outputs,
         program' = program, scaler' \in FeatureBags
  PROVE  HInv'
<1>1. PlanSound /\ PrepTyped /\ FilesHomogeneous BY DEF HInv
<1>2. OutputsTyped' /\ FilesHomogeneous' BY <1>1, OutputsKept DEF PrepTyped
<1>3. status' \in {"running", "done"} BY DEF NextPhase
<1>4. PrepTyped' BY <1>1, <1>2, <1>3 DEF PrepTyped
<1>5. status' = "running" => PlanSound' /\ OpenedBy' BY <1>1, NextPhaseSound DEF PrepTyped
<1> QED BY <1>2, <1>4, <1>5 DEF HInv

(* The end of a process.                                                   *)
LEMMA EndStep ==
  ASSUME HInv, raw' = raw, NEW o \in {"off", "failed"}, EndWith(o)
  PROVE  HInv'
<1>1. PrepTyped /\ FilesHomogeneous BY DEF HInv
<1>2. outputs' = outputs /\ program' = program /\ scaler' = EmptyBag /\ status' = o
  BY DEF EndWith
<1>3. OutputsTyped' /\ FilesHomogeneous' BY <1>1, <1>2, OutputsKept DEF PrepTyped
<1>4. PrepTyped' BY <1>1, <1>2, <1>3, EmptyTyped DEF PrepTyped
<1> QED BY <1>2, <1>3, <1>4 DEF HInv

(* What runs has looked for files, unless it is about to.                  *)
LEMMA RunningReady ==
  ASSUME HInv, NEW k \in Kinds \ {"lookForFiles"}, At(k)
  PROVE  status = "running" /\ PlanSound /\ OpenedBy /\ PrepTyped /\ Ready /\ raw \in DataSets
BY DEF HInv, At, PlanSound, PrepTyped

LEMMA LaunchStep ==
  ASSUME HInv, raw' = raw, NEW p \in {"sample", "full"}, Launch(p)
  PROVE  HInv'
<1>1. PrepTyped /\ FilesHomogeneous BY DEF HInv
<1>2. /\ outputs' = outputs /\ program' = p /\ scaler' = EmptyBag /\ status' = "running"
      /\ plan' = Programs[p] /\ cursor' = 1 /\ total' = 0 /\ written' = {}
  BY DEF Launch
<1>3. OutputsTyped' /\ FilesHomogeneous' BY <1>1, <1>2, OutputsKept DEF PrepTyped
<1>4. PrepTyped' BY <1>1, <1>2, <1>3, EmptyTyped DEF PrepTyped
<1>5. plan' \in Seq(PhaseType) /\ plan' # <<>> /\ Phase'.kind = "lookForFiles"
  BY <1>2, ProgramsTyped DEF Starts, Phase
<1>6. Ready' => 1 <= Len(Chunks(Phase.split))'
  <2> SUFFICES ASSUME Ready PROVE 1 <= Len(Chunks(Phase.split))' BY RawKept
  <2> DEFINE s == Head(plan').split
  <2>1. Head(plan') \in PhaseType BY <1>5, HeadFirst, Zenon
  <2>2. s \in SplitNames BY <2>1 DEF PhaseType
  <2>3. Phase'.split = s BY DEF Phase
  <2> HIDE DEF s
  <2>4. Chunks(s) \in Seq(ChunksOf(s)) /\ Chunks(s) # <<>>
    BY <1>1, <2>2, ChunksTyped DEF Ready, PrepTyped
  <2>5. Len(Chunks(s)) \in Nat \ {0} BY <2>4, HeadFirst, Zenon
  <2>6. Chunks(Phase.split)' = Chunks(s) BY <2>3 DEF Chunks, Files
  <2> QED BY <2>5, <2>6
<1>7. PlanSound' BY <1>2, <1>5, <1>6 DEF PlanSound
<1>8. OpenedBy' BY <1>2 DEF OpenedBy
<1> QED BY <1>3, <1>4, <1>7, <1>8 DEF HInv

LEMMA FitStep ==
  ASSUME HInv, raw' = raw, FitChunk
  PROVE  HInv'
<1>1. /\ status = "running" /\ PlanSound /\ OpenedBy /\ PrepTyped /\ Ready
      /\ raw \in DataSets
  BY RunningReady DEF FitChunk, Kinds
<1>2. /\ outputs' = outputs /\ program' = program /\ written' = {}
      /\ scaler' = scaler (+) BagOf(ExtractFeatures(Clean)) /\ NextChunk(Len(Clean))
  BY DEF FitChunk
<1>3. Clean \in Seq(Rows) BY <1>1, PhaseTyped
<1>4. Len(Clean) \in Nat BY <1>3
<1>5. scaler' \in FeatureBags
  <2>1. BagOf(ExtractFeatures(Clean)) \in FeatureBags BY <1>3, FeaturesTyped, BagTyped
  <2> QED BY <1>1, <1>2, <2>1, PlusTyped DEF PrepTyped
<1>6. CASE NextPhase BY <1>1, <1>2, <1>5, <1>6, PhaseStep
<1>7. CASE status' = "running" /\ PlanSound'
  <2>1. FilesHomogeneous BY DEF HInv
  <2>2. OutputsTyped' /\ FilesHomogeneous' BY <1>1, <1>2, <2>1, OutputsKept DEF PrepTyped
  <2>3. PrepTyped' BY <1>1, <1>2, <1>5, <1>7, <2>2 DEF PrepTyped
  <2>4. OpenedBy' BY <1>2 DEF OpenedBy
  <2> QED BY <1>7, <2>2, <2>3, <2>4 DEF HInv
<1> QED BY <1>1, <1>2, <1>4, <1>6, <1>7, NextChunkSound


LEMMA TransformStep ==
  ASSUME HInv, raw' = raw, TransformChunk
  PROVE  HInv'
<1> DEFINE s == Phase.split
           f == Chunk.file
           rows == Opened \o Scaled(Clean, scaler)
<1>1. /\ status = "running" /\ PlanSound /\ OpenedBy /\ PrepTyped /\ Ready
      /\ raw \in DataSets /\ FilesHomogeneous /\ OutputsTyped
  BY RunningReady DEF TransformChunk, Kinds, HInv, PrepTyped
<1>2. /\ program' = program /\ scaler' = scaler /\ Phase.kind = "transform"
      /\ outputs' = IF Clean = <<>> THEN outputs ELSE [outputs EXCEPT ![s][f] = rows]
      /\ written' = IF plan' # plan THEN {}
                    ELSE IF Clean = <<>> THEN written ELSE written \cup {f}
      /\ NextChunk(Len(Clean))
  BY DEF TransformChunk, At
<1>3. f \in Files(s) /\ s \in SplitNames /\ rows \in Seq(OutRows) /\ AllBy(rows, scaler)
  BY <1>1, <1>2, AddedTyped
<1>4. Clean \in Seq(Rows) BY <1>1, PhaseTyped
<1>5. Len(Clean) \in Nat BY <1>4
<1> HIDE DEF s, f, rows
<1>6. /\ OutputsTyped' /\ FilesHomogeneous'
      /\ \A g \in Files(s) : outputs'[s][g] = IF Clean # <<>> /\ g = f THEN rows
                                              ELSE outputs[s][g]
  <2>1. CASE Clean = <<>>
    <3>1. outputs' = outputs BY <1>2, <2>1
    <3> QED BY <1>1, <2>1, <3>1, OutputsKept
  <2>2. CASE Clean # <<>>
    <3>1. /\ OutputsTyped' /\ outputs'[s][f] = rows
          /\ \A t \in SplitNames : \A g \in Files(t) :
               t # s \/ g # f => outputs'[t][g] = outputs[t][g]
      <4>1. outputs' = [outputs EXCEPT ![s][f] = rows] BY <1>2, <2>2
      <4>2. f \in Files(s) /\ s \in SplitNames /\ rows \in Seq(OutRows) BY <1>3
      <4>3. OutputsTyped BY <1>1
      <4> QED BY <4>1, <4>2, <4>3, SetTyped
    <3>2. \A r \in ToSet(rows) : r.scaler = scaler BY <1>3, AllByHomogeneous
    <3>3. ASSUME NEW t \in SplitNames, NEW g \in Files(t)
          PROVE  \A r1, r2 \in ToSet(outputs'[t][g]) : r1.scaler = r2.scaler
      <4>1. CASE t = s /\ g = f BY <3>1, <3>2, <4>1
      <4>2. CASE t # s \/ g # f BY <1>1, <3>1, <4>2 DEF FilesHomogeneous
      <4> QED BY <4>1, <4>2
    <3>4. FilesHomogeneous' BY <3>3, RawKept DEF FilesHomogeneous
    <3> QED BY <1>3, <2>2, <3>1, <3>4
  <2> QED BY <2>1, <2>2
<1>7. status' \in {"running", "done"} BY <1>1, <1>2 DEF NextChunk, NextPhase
<1>8. PrepTyped' BY <1>1, <1>2, <1>6, <1>7 DEF PrepTyped
<1>9. CASE NextPhase
  <2>1. status' = "running" => PlanSound' /\ OpenedBy' BY <1>1, <1>9, NextPhaseSound
  <2> QED BY <1>6, <1>8, <2>1 DEF HInv
<1>10. CASE status' = "running" /\ plan' = plan /\ PlanSound' /\ Phase' = Phase
  <2>1. \A g \in written' : g \in Files(s) /\ AllBy(outputs'[s][g], scaler)
    <3> TAKE g \in written'
    <3>1. g \in written \/ (Clean # <<>> /\ g = f) BY <1>2, <1>10
    <3>2. CASE Clean # <<>> /\ g = f BY <1>3, <1>6, <3>2
    <3>3. CASE g \in written /\ ~ (Clean # <<>> /\ g = f)
      <4>1. g \in Files(s) /\ AllBy(outputs[s][g], scaler) BY <1>1, <3>3 DEF OpenedBy, s
      <4> QED BY <1>6, <3>3, <4>1
    <3> QED BY <3>1, <3>2, <3>3
  <2>2. OpenedBy' BY <1>2, <1>10, <2>1, RawKept DEF OpenedBy, s
  <2> QED BY <1>6, <1>8, <1>10, <2>2 DEF HInv
<1> QED BY <1>1, <1>2, <1>5, <1>9, <1>10, NextChunkSound

LEMMA HNext == HInv /\ [PrepNext]_prepVars => HInv'
<1> SUFFICES ASSUME HInv, [PrepNext]_prepVars PROVE HInv' OBVIOUS
<1>0. PrepTyped /\ raw \in DataSets /\ scaler \in FeatureBags BY DEF HInv, PrepTyped
<1>1. ASSUME raw' = raw, NEW p \in {"sample", "full"}, Launch(p) PROVE HInv'
  BY <1>1, LaunchStep
<1>2. ASSUME raw' = raw, LookForFiles PROVE HInv'
  <2>1. status = "running" BY <1>2 DEF LookForFiles, At
  <2>2. CASE \A s \in SplitNames : Files(s) # {}
    <3>1. /\ NextPhase /\ program' = program /\ scaler' = scaler /\ outputs' = outputs
      BY <1>2, <2>2 DEF LookForFiles
    <3>2. Ready BY <2>2 DEF Ready
    <3> QED BY <1>0, <1>2, <2>1, <3>1, <3>2, PhaseStep
  <2>3. CASE ~ \A s \in SplitNames : Files(s) # {}
    <3>1. EndWith("failed") BY <1>2, <2>3 DEF LookForFiles
    <3> QED BY <1>2, <3>1, EndStep
  <2> QED BY <2>2, <2>3
<1>3. ASSUME raw' = raw, ResetStats PROVE HInv'
  <2>1. status = "running" /\ Ready BY <1>3, RunningReady DEF ResetStats, Kinds
  <2>2. NextPhase /\ program' = program /\ scaler' = scaler /\ outputs' = outputs
    BY <1>3 DEF ResetStats
  <2> QED BY <1>0, <1>3, <2>1, <2>2, PhaseStep
<1>4. ASSUME raw' = raw, FitChunk PROVE HInv' BY <1>4, FitStep
<1>5. ASSUME raw' = raw, TransformChunk PROVE HInv' BY <1>5, TransformStep
<1>6. ASSUME raw' = raw, TransformFails PROVE HInv'
  BY <1>6, EndStep DEF TransformFails
<1>7. ASSUME raw' = raw, SaveScaler PROVE HInv'
  <2>1. status = "running" /\ Ready BY <1>7, RunningReady DEF SaveScaler, Kinds
  <2>2. NextPhase /\ program' = program /\ scaler' = scaler /\ outputs' = outputs
    BY <1>7 DEF SaveScaler
  <2> QED BY <1>0, <1>7, <2>1, <2>2, PhaseStep
<1>8. ASSUME raw' = raw, SaveReport PROVE HInv'
  <2>1. status = "running" /\ Ready BY <1>8, RunningReady DEF SaveReport, Kinds
  <2>2. NextPhase /\ program' = program /\ scaler' = scaler /\ outputs' = outputs
    BY <1>8 DEF SaveReport
  <2> QED BY <1>0, <1>8, <2>1, <2>2, PhaseStep
<1>9. ASSUME raw' = raw, CheckOutputs PROVE HInv'
  <2>1. status = "running" /\ Ready BY <1>9, RunningReady DEF CheckOutputs, Kinds
  <2>2. CASE EndWith("failed") BY <1>9, <2>2, EndStep
  <2>3. CASE NextPhase /\ program' = program /\ scaler' = scaler /\ outputs' = outputs
    BY <1>0, <1>9, <2>1, <2>3, PhaseStep
  <2> QED BY <1>9, <2>2, <2>3 DEF CheckOutputs
<1>10. ASSUME raw' = raw, Kill PROVE HInv' BY <1>10, EndStep DEF Kill
<1>11. ASSUME UNCHANGED prepVars PROVE HInv'
  <2>1. /\ raw' = raw /\ status' = status /\ program' = program /\ outputs' = outputs
        /\ plan' = plan /\ cursor' = cursor /\ total' = total /\ written' = written
        /\ scaler' = scaler
    BY <1>11 DEF prepVars, memory
  <2>2. OutputsTyped' /\ FilesHomogeneous' BY <2>1, OutputsKept DEF HInv, PrepTyped
  <2>3. PrepTyped' BY <1>0, <2>1, <2>2 DEF PrepTyped
  <2>4. Phase' = Phase BY <2>1 DEF Phase
  <2>5. Chunks(Phase.split)' = Chunks(Phase.split) /\ Ready' = Ready
    BY <2>1, <2>4, RawKept DEF Chunks, Files
  <2>6. PlanSound => PlanSound' BY <2>1, <2>4, <2>5 DEF PlanSound
  <2>7. OpenedBy => OpenedBy' BY <2>1, <2>4, RawKept DEF OpenedBy
  <2> QED BY <2>1, <2>2, <2>3, <2>6, <2>7 DEF HInv
<1> QED BY <1>1, <1>2, <1>3, <1>4, <1>5, <1>6, <1>7, <1>8, <1>9, <1>10, <1>11 DEF PrepNext

(* The invariant of the outputs: while a process runs, the files its phase *)
(* has opened hold rows of the scaler it has and of no other.              *)
THEOREM HInvAlways == PrepSpec => []HInv
<1>1. PrepInit => HInv BY HInit
<1>2. HInv /\ [PrepNext]_prepVars => HInv' BY HNext
<1> QED BY <1>1, <1>2, PTL DEF PrepSpec

(* Whatever is killed and started again, no output file ever holds rows    *)
(* that were scaled with different scalers: the first chunk a phase writes *)
(* to a file truncates it, and no phase writes with more than one scaler.  *)
THEOREM OutputsHomogeneous == PrepSpec => []FilesHomogeneous
<1>1. HInv => FilesHomogeneous BY DEF HInv
<1> QED BY <1>1, HInvAlways, PTL


-------------------------------------------------------------------------------
(* Sequences that agree at every position are equal.                       *)
LEMMA SameSequences ==
  \A S : \A s, t \in Seq(S) :
    Len(s) = Len(t) /\ (\A i \in 1 .. Len(s) : s[i] = t[i]) => s = t
<1> SUFFICES ASSUME NEW S, NEW s \in Seq(S), NEW t \in Seq(S), Len(s) = Len(t),
                    \A i \in 1 .. Len(s) : s[i] = t[i]
             PROVE  s = t
  OBVIOUS
<1>1. s = [i \in 1 .. Len(s) |-> s[i]] /\ t = [i \in 1 .. Len(t) |-> t[i]]
  BY SeqAsFunction
<1> QED BY <1>1

(* A list of lists begins with its first lists.                            *)
LEMMA FlatPrefix ==
  ASSUME NEW V, NEW n \in Nat, NEW g \in [1 .. n -> Seq(V)], NEW k \in 0 .. n
  PROVE  Flat(g, k) \in Prefixes(Flat(g, n))
<1> DEFINE p == Flat(g, k)
           Begins(q) == Len(p) <= Len(q) /\ \A i \in 1 .. Len(p) : q[i] = p[i]
           Bad == {j \in Nat : k <= j /\ j <= n /\ ~ Begins(Flat(g, j))}
<1>1. p \in Seq(V) /\ Len(p) \in Nat
  <2>1. p \in Seq(V) BY FlatStep
  <2> HIDE DEF p
  <2> QED BY <2>1, SeqAsFunction
<1> HIDE DEF p
<1>2. \A s, t \in Seq(V) : Begins(s) => Begins(s \o t)
  <2> TAKE s, t \in Seq(V)
  <2>1. /\ Len(s \o t) = Len(s) + Len(t) /\ Len(s) \in Nat /\ Len(t) \in Nat
        /\ \A i \in 1 .. Len(s) : (s \o t)[i] = s[i]
    BY ConcatParts, SeqAsFunction
  <2> QED BY <1>1, <2>1
<1> HIDE DEF Begins
<1>3. Bad = {}
  <2> SUFFICES ASSUME Bad # {} PROVE FALSE OBVIOUS
  <2>1. PICK j \in Bad : \A y \in Bad : j <= y
    <3>1. Bad \in SUBSET Nat OBVIOUS
    <3> HIDE DEF Bad
    <3> QED BY <2>1, <3>1, LeastNatural
  <2>2. j \in Nat /\ k <= j /\ j <= n /\ ~ Begins(Flat(g, j)) OBVIOUS
  <2>3. j # k
    <3>1. Begins(p) BY <1>1 DEF Begins
    <3> QED BY <2>2, <3>1 DEF p
  <2>4. /\ j - 1 \in Nat /\ k <= j - 1 /\ j - 1 <= n /\ j \in 1 .. n /\ j - 1 \in 0 .. n
        /\ ~ (j <= j - 1)
    BY <2>2, <2>3
  <2>5. Begins(Flat(g, j - 1)) BY <2>1, <2>4
  <2>6. /\ Flat(g, j) = Flat(g, j - 1) \o g[j] /\ Flat(g, j - 1) \in Seq(V)
        /\ g[j] \in Seq(V)
    BY <2>4, FlatStep
  <2> QED BY <1>2, <2>2, <2>5, <2>6
<1> DEFINE q == Flat(g, n)
           t == SubSeq(q, 1, Len(p))
<1>4. q \in Seq(V) /\ Begins(q)
  <2>1. n \in 0 .. n /\ n \in Nat /\ k <= n /\ n <= n OBVIOUS
  <2>2. q \in Seq(V) BY <2>1, FlatStep
  <2>3. n \notin Bad BY <1>3
  <2> QED BY <2>1, <2>2, <2>3
<1> HIDE DEF q
<1>5. Len(p) \in 0 .. Len(q) /\ \A i \in 1 .. Len(p) : q[i] = p[i]
  BY <1>1, <1>4 DEF Begins
<1>6. t \in Seq(V) /\ Len(t) = Len(p) /\ \A i \in 1 .. Len(p) : t[i] = q[i]
  <2>1. \A i \in 1 .. Len(p) : q[i] \in V BY <1>1, <1>5, ElementOfSeq
  <2>2. 1 \in Int /\ Len(p) \in Int BY <1>1
  <2>3. /\ t \in Seq(V) /\ Len(t) = IF 1 <= Len(p) THEN Len(p) - 1 + 1 ELSE 0
        /\ \A i \in 1 .. Len(p) - 1 + 1 : t[i] = q[1 + i - 1]
    BY <2>1, <2>2, SubSeqProperties
  <2> HIDE DEF t
  <2>4. Len(t) = Len(p) BY <1>1, <2>3
  <2>5. ASSUME NEW i \in 1 .. Len(p) PROVE t[i] = q[i]
    <3>1. i \in 1 .. Len(p) - 1 + 1 /\ 1 + i - 1 = i BY <1>1
    <3> QED BY <2>3, <3>1
  <2> QED BY <2>3, <2>4, <2>5
<1>7. t = p
  <2> HIDE DEF t
  <2> QED BY <1>1, <1>5, <1>6, SameSequences
<1>8. t \in Prefixes(q) BY <1>5 DEF Prefixes
<1> QED BY <1>7, <1>8 DEF p, q

(* What a function makes of a sequence, element by element.                *)
Images(w, q) == [i \in DOMAIN q |-> w[q[i]]]

LEMMA ImagesTyped ==
  ASSUME NEW S, NEW T, NEW w \in Maps(S, T), NEW q \in Seq(S)
  PROVE  /\ Images(w, q) \in Seq(T) /\ Len(Images(w, q)) = Len(q)
         /\ \A i \in 1 .. Len(q) : Images(w, q)[i] = w[q[i]]
<1>1. Len(q) \in Nat /\ DOMAIN q = 1 .. Len(q) BY SeqAsFunction
<1>2. \A i \in 1 .. Len(q) : q[i] \in S BY ElementOfSeq
<1>3. Images(w, q) \in [1 .. Len(q) -> T] BY <1>1, <1>2 DEF Images, Maps
<1> QED BY <1>1, <1>3, FunctionAsSeq DEF Images

LEMMA ImagesAll ==
  \A S, T : \A w \in Maps(S, T) : \A q \in Seq(S) :
    /\ Images(w, q) \in Seq(T) /\ Len(Images(w, q)) = Len(q)
    /\ \A i \in 1 .. Len(q) : Images(w, q)[i] = w[q[i]]
BY ImagesTyped

LEMMA ImagesConcat ==
  ASSUME NEW S, NEW T, NEW w \in Maps(S, T), NEW a \in Seq(S), NEW b \in Seq(S)
  PROVE  Images(w, a \o b) = Images(w, a) \o Images(w, b)
<1> DEFINE c == a \o b
           m == Len(a)
           n == Len(b)
           xa == Images(w, a)
           xb == Images(w, b)
           xc == Images(w, c)
           x == xa \o xb
<1>1. /\ c \in Seq(S) /\ Len(c) = m + n /\ m \in Nat /\ n \in Nat
      /\ \A i \in 1 .. m : c[i] = a[i]
      /\ \A i \in 1 .. n : c[m + i] = b[i]
  BY ConcatParts, SeqAsFunction
<1>2. xa \in Seq(T) /\ Len(xa) = m /\ \A i \in 1 .. m : xa[i] = w[a[i]]
  BY ImagesAll
<1>3. xb \in Seq(T) /\ Len(xb) = n /\ \A i \in 1 .. n : xb[i] = w[b[i]]
  BY ImagesAll
<1>4. xc \in Seq(T) /\ Len(xc) = m + n /\ \A i \in 1 .. m + n : xc[i] = w[c[i]]
  <2> HIDE DEF c, m, n, xa, xb, x
  <2>0. c \in Seq(S) BY <1>1
  <2>1. /\ xc \in Seq(T) /\ Len(xc) = Len(c) /\ \A i \in 1 .. Len(c) : xc[i] = w[c[i]]
    BY <2>0, ImagesAll
  <2> HIDE DEF xc
  <2> QED BY <1>1, <2>1
<1> HIDE DEF c, m, n, xa, xb, xc
<1>5. /\ x \in Seq(T) /\ Len(x) = m + n
      /\ \A i \in 1 .. m : x[i] = xa[i]
      /\ \A i \in 1 .. n : x[m + i] = xb[i]
  <2>1. xa \in Seq(T) /\ xb \in Seq(T) BY <1>2, <1>3
  <2>2. /\ x \in Seq(T) /\ Len(x) = Len(xa) + Len(xb)
        /\ \A i \in 1 .. Len(xa) : x[i] = xa[i]
        /\ \A i \in 1 .. Len(xb) : x[Len(xa) + i] = xb[i]
    BY <2>1, ConcatParts
  <2> HIDE DEF x
  <2> QED BY <1>2, <1>3, <2>2
<1> HIDE DEF x
<1>6. ASSUME NEW i \in 1 .. m + n PROVE xc[i] = x[i]
  <2>1. CASE i \in 1 .. m
    <3>1. c[i] = a[i] /\ xa[i] = w[a[i]] /\ x[i] = xa[i] BY <1>1, <1>2, <1>5, <2>1
    <3> QED BY <1>4, <3>1
  <2>2. CASE i \notin 1 .. m
    <3> DEFINE j == i - m
    <3>1. j \in 1 .. n /\ i = m + j BY <1>1, <2>2
    <3> HIDE DEF j
    <3>2. c[i] = b[j] /\ x[i] = xb[j] /\ xb[j] = w[b[j]] BY <1>1, <1>3, <1>5, <3>1
    <3> QED BY <1>4, <3>2
  <2> QED BY <2>1, <2>2
<1>7. xc = x
  <2>1. xc \in Seq(T) /\ x \in Seq(T) /\ Len(xc) = Len(x) BY <1>4, <1>5
  <2>2. \A i \in 1 .. Len(xc) : xc[i] = x[i] BY <1>4, <1>6
  <2> QED BY <2>1, <2>2, SameSequences, Zenon
<1> QED BY <1>7 DEF xc, x, xa, xb, c

LEMMA ImagesConcatAll ==
  \A S, T : \A w \in Maps(S, T) : \A a, b \in Seq(S) :
    Images(w, a \o b) = Images(w, a) \o Images(w, b)
BY ImagesConcat

(* The features of rows behind others, and the bag of features behind      *)
(* others.                                                                 *)
LEMMA FeaturesConcat ==
  ASSUME NEW a \in Seq(Rows), NEW b \in Seq(Rows)
  PROVE  ExtractFeatures(a \o b) = ExtractFeatures(a) \o ExtractFeatures(b)
<1> DEFINE w == [r \in Rows |-> Feature[r]]
<1>1. \A r \in Rows : Feature[r] \in Feats BY DEF Feats
<1>2. w \in Maps(Rows, Feats) BY <1>1 DEF Maps
<1>3. \A q \in Seq(Rows) : ExtractFeatures(q) = Images(w, q)
  <2> TAKE q \in Seq(Rows)
  <2>1. DOMAIN q = 1 .. Len(q) BY SeqAsFunction
  <2>2. \A i \in DOMAIN q : q[i] \in Rows BY <2>1, ElementOfSeq
  <2>3. \A i \in DOMAIN q : w[q[i]] = Feature[q[i]] BY <2>2
  <2> HIDE DEF w
  <2> QED BY <2>3 DEF ExtractFeatures, Images
<1> HIDE DEF w
<1>4. a \o b \in Seq(Rows) BY ConcatParts
<1>5. Images(w, a \o b) = Images(w, a) \o Images(w, b) BY <1>2, ImagesConcatAll
<1> QED BY <1>3, <1>4, <1>5

Occurrences(series, v) == Cardinality({i \in DOMAIN series : series[i] = v})

LEMMA OccurrencesConcat ==
  ASSUME NEW S, NEW a \in Seq(S), NEW b \in Seq(S), NEW v
  PROVE  /\ Occurrences(a \o b, v) = Occurrences(a, v) + Occurrences(b, v)
         /\ Occurrences(a, v) \in Nat
         /\ v \notin ToSet(a) => Occurrences(a, v) = 0
<1> DEFINE c == a \o b
           m == Len(a)
           n == Len(b)
           A == {i \in DOMAIN a : a[i] = v}
           B == {i \in DOMAIN b : b[i] = v}
           C == {i \in DOMAIN c : c[i] = v}
           D == {i \in m + 1 .. m + n : c[i] = v}
<1>1. /\ m \in Nat /\ n \in Nat /\ DOMAIN a = 1 .. m /\ DOMAIN b = 1 .. n
      /\ DOMAIN c = 1 .. m + n
      /\ \A i \in 1 .. m : c[i] = a[i]
      /\ \A i \in 1 .. n : c[m + i] = b[i]
  BY ConcatParts, SeqAsFunction
<1> HIDE DEF c, m, n
<1>2. IsFiniteSet(A) /\ IsFiniteSet(B) /\ IsFiniteSet(D)
  <2>1. IsFiniteSet(1 .. m) /\ IsFiniteSet(1 .. n) /\ IsFiniteSet(m + 1 .. m + n)
    <3>1. \A x, y \in Int : IsFiniteSet(x .. y) BY FS_Interval
    <3>2. m \in Int /\ n \in Int /\ 1 \in Int /\ m + 1 \in Int /\ m + n \in Int BY <1>1
    <3> QED BY <3>1, <3>2, Zenon
  <2>2. A \in SUBSET (1 .. m) /\ B \in SUBSET (1 .. n) /\ D \in SUBSET (m + 1 .. m + n)
    BY <1>1
  <2> QED BY <2>1, <2>2, FS_Subset
<1>3. C = A \cup D /\ A \cap D = {} BY <1>1
<1> DEFINE f == [j \in B |-> m + j]
<1>4. f \in Bijection(B, D)
  <2>1. \A j \in B : m + j \in D
    <3> TAKE j \in B
    <3>1. j \in 1 .. n /\ b[j] = v BY <1>1
    <3>2. c[m + j] = v /\ m + j \in m + 1 .. m + n BY <1>1, <3>1
    <3> QED BY <3>2
  <2>2. \A i \in D : i - m \in B /\ m + (i - m) = i
    <3> TAKE i \in D
    <3> DEFINE j == i - m
    <3>1. j \in 1 .. n /\ m + j = i BY <1>1
    <3> HIDE DEF j
    <3>2. b[j] = v BY <1>1, <3>1
    <3> QED BY <1>1, <3>1, <3>2 DEF j
  <2>3. f \in [B -> D] BY <2>1
  <2>4. \A j, k \in B : f[j] = f[k] => j = k BY <1>1
  <2>5. \A i \in D : \E j \in B : f[j] = i BY <2>2
  <2> HIDE DEF f, B, D
  <2> QED BY <2>3, <2>4, <2>5 DEF Bijection, Injection, Surjection, IsInjective
<1> HIDE DEF A, B, C, D, f
<1>5. Cardinality(D) = Cardinality(B)
  <2>1. ExistsBijection(B, D) BY <1>4 DEF ExistsBijection
  <2> QED BY <1>2, <2>1, FS_Bijection
<1>6. Cardinality(C) = Cardinality(A) + Cardinality(B)
  <2>1. Cardinality(A \cup D) = Cardinality(A) + Cardinality(D) - Cardinality(A \cap D)
    BY <1>2, FS_Union
  <2>2. /\ Cardinality({}) = 0 /\ Cardinality(A) \in Nat /\ Cardinality(B) \in Nat
    BY <1>2, FS_EmptySet, FS_CardinalityType
  <2>3. Cardinality(C) = Cardinality(A) + Cardinality(B) - 0 BY <1>3, <1>5, <2>1, <2>2, Zenon
  <2> DEFINE x == Cardinality(A)
             y == Cardinality(B)
  <2>4. x \in Nat /\ y \in Nat BY <2>2
  <2> HIDE DEF x, y
  <2>5. x + y - 0 = x + y BY <2>4
  <2> QED BY <2>3, <2>5 DEF x, y
<1>7. Cardinality(A) \in Nat BY <1>2, FS_CardinalityType
<1>8. v \notin ToSet(a) => Cardinality(A) = 0
  <2>1. v \notin ToSet(a) => A = {} BY DEF A, ToSet
  <2> QED BY <2>1, FS_EmptySet
<1> QED BY <1>6, <1>7, <1>8 DEF Occurrences, A, B, C, c

LEMMA BagOfConcat ==
  ASSUME NEW S, NEW a \in Seq(S), NEW b \in Seq(S)
  PROVE  BagOf(a \o b) = BagOf(a) (+) BagOf(b)
<1> DEFINE c == a \o b
           A == ToSet(a)
           B == ToSet(b)
           N(v) == Occurrences(a, v)
           M(v) == Occurrences(b, v)
<1>1. /\ BagOf(a) = [v \in A |-> N(v)] /\ BagOf(b) = [v \in B |-> M(v)]
      /\ BagOf(c) = [v \in ToSet(c) |-> Occurrences(c, v)]
  BY DEF BagOf, Occurrences
<1>2. ToSet(c) = A \cup B
  <2>1. /\ DOMAIN a = 1 .. Len(a) /\ DOMAIN b = 1 .. Len(b) /\ Len(a) \in Nat
        /\ Len(b) \in Nat /\ DOMAIN c = 1 .. Len(a) + Len(b)
        /\ \A i \in 1 .. Len(a) : c[i] = a[i]
        /\ \A i \in 1 .. Len(b) : c[Len(a) + i] = b[i]
    BY ConcatParts, SeqAsFunction
  <2> HIDE DEF c
  <2>2. A \cup B \subseteq ToSet(c)
    <3>1. \A i \in DOMAIN a : i \in DOMAIN c /\ a[i] = c[i] BY <2>1
    <3>2. \A i \in DOMAIN b : Len(a) + i \in DOMAIN c /\ b[i] = c[Len(a) + i] BY <2>1
    <3>3. A \subseteq ToSet(c) BY <3>1 DEF ToSet
    <3>4. B \subseteq ToSet(c) BY <3>2, Zenon DEF ToSet
    <3> QED BY <3>3, <3>4
  <2>3. ASSUME NEW i \in DOMAIN c PROVE c[i] \in A \cup B
    <3>1. CASE i \in 1 .. Len(a) BY <2>1, <3>1 DEF ToSet
    <3>2. CASE i \notin 1 .. Len(a)
      <4> DEFINE j == i - Len(a)
      <4>1. j \in 1 .. Len(b) /\ i = Len(a) + j BY <2>1, <3>2
      <4> HIDE DEF j
      <4>2. c[i] = b[j] BY <2>1, <4>1
      <4> QED BY <2>1, <4>1, <4>2 DEF ToSet
    <3> QED BY <3>1, <3>2
  <2>4. ToSet(c) \subseteq A \cup B BY <2>3 DEF ToSet
  <2> QED BY <2>2, <2>4
<1>3. \A v : /\ Occurrences(c, v) = N(v) + M(v) /\ N(v) \in Nat /\ M(v) \in Nat
             /\ (v \notin A => N(v) = 0) /\ (v \notin B => M(v) = 0)
  BY OccurrencesConcat
<1> HIDE DEF A, B, N, M, c
<1>4. BagOf(a) (+) BagOf(b) = [v \in A \cup B |-> (IF v \in A THEN N(v) ELSE 0)
                                                 + (IF v \in B THEN M(v) ELSE 0)]
  BY <1>1 DEF (+)
<1>5. \A v \in A \cup B : Occurrences(c, v) = (IF v \in A THEN N(v) ELSE 0)
                                             + (IF v \in B THEN M(v) ELSE 0)
  BY <1>3
<1> QED BY <1>1, <1>2, <1>4, <1>5 DEF c

LEMMA BagOfNone == BagOf(<<>>) = EmptyBag
<1>1. ToSet(<<>>) = {} BY DEF ToSet
<1>2. BagOf(<<>>) = [v \in {} |-> 1] BY <1>1 DEF BagOf
<1>3. EmptyBag = [v \in {} |-> 1] BY DEF EmptyBag, SetToBag
<1> QED BY <1>2, <1>3

LEMMA PlusNone ==
  ASSUME NEW a \in FeatureBags
  PROVE  EmptyBag (+) a = a
<1>1. PICK A \in SUBSET Feats : a \in [A -> Nat] BY DEF FeatureBags
<1>2. EmptyBag = [v \in {} |-> 1] BY DEF EmptyBag, SetToBag
<1>3. DOMAIN EmptyBag = {} BY <1>2
<1>4. EmptyBag (+) a = [v \in {} \cup A |-> (IF v \in {} THEN EmptyBag[v] ELSE 0)
                                           + (IF v \in A THEN a[v] ELSE 0)]
  BY <1>1, <1>3 DEF (+)
<1>5. EmptyBag (+) a = [v \in A |-> 0 + a[v]] BY <1>4
<1>6. \A v \in A : 0 + a[v] = a[v] BY <1>1
<1>7. a = [v \in A |-> a[v]] BY <1>1
<1> QED BY <1>5, <1>6, <1>7

LEMMA PlusSwap ==
  ASSUME NEW a \in FeatureBags, NEW b \in FeatureBags, NEW c \in FeatureBags
  PROVE  (a (+) b) (+) c = (a (+) c) (+) b
<1>1. PICK A \in SUBSET Feats : a \in [A -> Nat] BY DEF FeatureBags
<1>2. PICK B \in SUBSET Feats : b \in [B -> Nat] BY DEF FeatureBags
<1>3. PICK C \in SUBSET Feats : c \in [C -> Nat] BY DEF FeatureBags
<1> DEFINE x(v) == IF v \in A THEN a[v] ELSE 0
           y(v) == IF v \in B THEN b[v] ELSE 0
           z(v) == IF v \in C THEN c[v] ELSE 0
           ab == [v \in A \cup B |-> x(v) + y(v)]
           ac == [v \in A \cup C |-> x(v) + z(v)]
<1>4. a (+) b = ab /\ a (+) c = ac BY <1>1, <1>2, <1>3 DEF (+)
<1>5. \A v : /\ x(v) \in Nat /\ y(v) \in Nat /\ z(v) \in Nat
             /\ (v \notin A => x(v) = 0) /\ (v \notin B => y(v) = 0) /\ (v \notin C => z(v) = 0)
  BY <1>1, <1>2, <1>3
<1>6. ab (+) c = [v \in (A \cup B) \cup C |-> (IF v \in A \cup B THEN ab[v] ELSE 0) + z(v)]
  BY <1>3 DEF (+)
<1>7. ac (+) b = [v \in (A \cup C) \cup B |-> (IF v \in A \cup C THEN ac[v] ELSE 0) + y(v)]
  BY <1>2 DEF (+)
<1>8. /\ \A v \in A \cup B : ab[v] = x(v) + y(v)
      /\ \A v \in A \cup C : ac[v] = x(v) + z(v)
  OBVIOUS
<1> HIDE DEF x, y, z, ab, ac
<1>9. \A v \in (A \cup B) \cup C :
        (IF v \in A \cup B THEN ab[v] ELSE 0) + z(v) = (x(v) + y(v)) + z(v)
  BY <1>5, <1>8
<1>10. \A v \in (A \cup C) \cup B :
        (IF v \in A \cup C THEN ac[v] ELSE 0) + y(v) = (x(v) + y(v)) + z(v)
  BY <1>5, <1>8
<1>11. (A \cup B) \cup C = (A \cup C) \cup B OBVIOUS
<1>12. ab (+) c = ac (+) b BY <1>6, <1>7, <1>9, <1>10, <1>11
<1> QED BY <1>4, <1>12

LEMMA ScaledConcat ==
  ASSUME NEW a \in Seq(Rows), NEW b \in Seq(Rows), NEW by \in FeatureBags
  PROVE  Scaled(a \o b, by) = Scaled(a, by) \o Scaled(b, by)
<1> DEFINE On(r) == [row |-> r, features |-> Feature[r], scaler |-> by]
           w == [r \in Rows |-> On(r)]
<1>1. \A r \in Rows : On(r) \in OutRows BY DEF Feats, OutRows
<1>2. w \in Maps(Rows, OutRows) BY <1>1 DEF Maps
<1>3. \A q \in Seq(Rows) : Scaled(q, by) = Images(w, q)
  <2> TAKE q \in Seq(Rows)
  <2>1. DOMAIN q = 1 .. Len(q) BY SeqAsFunction
  <2>2. \A i \in DOMAIN q : q[i] \in Rows BY <2>1, ElementOfSeq
  <2>3. \A i \in DOMAIN q : w[q[i]] = On(q[i]) BY <2>2
  <2>4. \A i \in DOMAIN q : ExtractFeatures(q)[i] = Feature[q[i]] BY DEF ExtractFeatures
  <2>5. Scaled(q, by) = [i \in DOMAIN q |-> On(q[i])] BY <2>4 DEF Scaled
  <2> HIDE DEF w, On
  <2> QED BY <2>3, <2>5 DEF Images
<1> HIDE DEF w, On
<1>4. a \o b \in Seq(Rows) BY ConcatParts
<1>5. Images(w, a \o b) = Images(w, a) \o Images(w, b) BY <1>2, ImagesConcatAll
<1> QED BY <1>3, <1>4, <1>5


-------------------------------------------------------------------------------
(* The clean rows of the first k chunks of a split, and those of one file  *)
(* among them.                                                             *)
AllRows(s)     == [c \in ChunksOf(s) |-> CleanChunk(c.rows)]
FileRows(s, f) == [c \in ChunksOf(s) |-> IF c.file = f THEN CleanChunk(c.rows) ELSE <<>>]
Taken(s, w)    == [i \in 1 .. Len(Chunks(s)) |-> w[Chunks(s)[i]]]
Read(s, k)        == Flat(Taken(s, AllRows(s)), k)
FileRead(s, f, k) == Flat(Taken(s, FileRows(s, f)), k)

Alone(g, n, k) == \A i \in 1 .. n : i # k => g[i] = <<>>

LEMMA FlatAlone ==
  \A V : \A n \in Nat : \A g \in Lists(V, n) : \A k \in 1 .. n :
    Alone(g, n, k) => Flat(g, n) = g[k]
BY FlatOnly DEF Lists, Alone

LEMMA TakenTyped ==
  ASSUME raw \in DataSets, NEW s \in SplitNames, NEW w \in [ChunksOf(s) -> Seq(Rows)]
  PROVE  LET n == Len(Chunks(s))
             g == Taken(s, w)
             h == [f \in Files(s) |-> Mapped(w, FileChunks(s, f))]
         IN  /\ n \in Nat /\ g \in [1 .. n -> Seq(Rows)]
             /\ Flat(g, n) = Flat(h, Len(raw[s]))
             /\ h \in [1 .. Len(raw[s]) -> Seq(Rows)]
<1> DEFINE q == Chunks(s)
           n == Len(q)
           g == Taken(s, w)
           h == [f \in Files(s) |-> Mapped(w, FileChunks(s, f))]
           cs == SplitChunks(s)
           m == Len(raw[s])
<1>1. /\ cs \in [1 .. m -> Seq(ChunksOf(s))] /\ m \in Nat /\ Files(s) = 1 .. m
      /\ q \in Seq(ChunksOf(s)) /\ q = Flat(cs, m)
  BY ChunksTyped
<1>2. cs \in Seq(Seq(ChunksOf(s))) /\ Len(cs) = m /\ DOMAIN cs = 1 .. m
  BY <1>1, FunctionAsSeq
<1>3. n \in Nat /\ DOMAIN q = 1 .. n BY <1>1, SeqAsFunction
<1>4. \A i \in 1 .. n : q[i] \in ChunksOf(s) BY <1>1, <1>3, ElementOfSeq
<1>5. g = [i \in 1 .. n |-> w[q[i]]] BY DEF Taken
<1>6. g \in [1 .. n -> Seq(Rows)] BY <1>4, <1>5
<1>7. q = FlattenSeq(cs)
  <2>1. FlattenSeq(cs) = Flat(cs, m) BY <1>1, FlattenTyped
  <2> QED BY <1>1, <2>1
<1>8. /\ Mapped(w, FlattenSeq(cs)) = Flat([f \in DOMAIN cs |-> Mapped(w, cs[f])], Len(cs))
      /\ \A f \in DOMAIN cs : Mapped(w, cs[f]) \in Seq(Rows)
  <2>1. w \in Maps(ChunksOf(s), Seq(Rows)) BY DEF Maps
  <2>2. cs \in Seq(Seq(ChunksOf(s))) BY <1>2
  <2> HIDE DEF cs
  <2>3. ListByList(w, cs, Rows) BY <2>1, <2>2, NestedListByList
  <2> QED BY <2>3 DEF ListByList
<1>9. \A f \in Files(s) : cs[f] = FileChunks(s, f) BY DEF SplitChunks
<1>10. [f \in DOMAIN cs |-> Mapped(w, cs[f])] = h BY <1>1, <1>2, <1>9
<1>11. Mapped(w, q) = FlattenSeq(g) BY <1>3, <1>5 DEF Mapped
<1>12. FlattenSeq(g) = Flat(g, n) BY <1>3, <1>6, FlattenTyped
<1>13. h \in [1 .. m -> Seq(Rows)] BY <1>1, <1>2, <1>8, <1>9
<1> HIDE DEF q, g, h, cs, m
<1>14. Flat(g, n) = Flat(h, m) BY <1>2, <1>7, <1>8, <1>10, <1>11, <1>12
<1> QED BY <1>3, <1>6, <1>13, <1>14 DEF q, g, h, m

LEMMA CleanRowsTyped ==
  ASSUME raw \in DataSets, NEW s \in SplitNames, NEW f \in Files(s)
  PROVE  CleanRows(s, f) \in Seq(Rows)
<1> DEFINE n == Len(raw[s][f])
           g == [c \in 1 .. n |-> CleanChunk(raw[s][f][c])]
<1>1. /\ n \in Nat /\ DOMAIN raw[s][f] = 1 .. n
      /\ \A c \in 1 .. n : raw[s][f][c] \in Seq(RawRows)
  BY RawTyped
<1>2. g \in [1 .. n -> Seq(Rows)] BY <1>1, CleanTyped
<1>3. CleanRows(s, f) = FlattenSeq(g) BY <1>1 DEF CleanRows
<1> HIDE DEF g, n
<1> QED BY <1>1, <1>2, <1>3, FlattenTyped

LEMMA ReadStep ==
  ASSUME raw \in DataSets, NEW s \in SplitNames
  PROVE  LET n == Len(Chunks(s))
         IN  /\ n \in Nat /\ Read(s, 0) = <<>>
             /\ \A k \in 0 .. n : Read(s, k) \in Seq(Rows)
             /\ \A k \in 1 .. n :
                  Read(s, k) = Read(s, k - 1) \o CleanChunk(Chunks(s)[k].rows)
             /\ Read(s, n) = CleanSplit(s)
             /\ \A k \in 0 .. n : Read(s, k) \in Prefixes(CleanSplit(s))
<1> DEFINE n == Len(Chunks(s))
           w == AllRows(s)
           g == Taken(s, w)
           h == [f \in Files(s) |-> Mapped(w, FileChunks(s, f))]
           m == Len(raw[s])
<1>1. \A c \in ChunksOf(s) : CleanChunk(c.rows) \in Seq(Rows) BY CleanTyped DEF ChunksOf
<1>2. w \in [ChunksOf(s) -> Seq(Rows)] BY <1>1 DEF AllRows
<1>3. /\ n \in Nat /\ g \in [1 .. n -> Seq(Rows)] /\ Flat(g, n) = Flat(h, m)
      /\ h \in [1 .. m -> Seq(Rows)]
  BY <1>2, TakenTyped
<1>4. /\ Chunks(s) \in Seq(ChunksOf(s)) /\ m \in Nat /\ Files(s) = 1 .. m
  BY ChunksTyped
<1>5. ASSUME NEW k \in 1 .. n PROVE g[k] = CleanChunk(Chunks(s)[k].rows)
  <2>1. Chunks(s)[k] \in ChunksOf(s) BY <1>4, ElementOfSeq
  <2>2. g[k] = w[Chunks(s)[k]] BY DEF Taken
  <2> QED BY <2>1, <2>2 DEF AllRows
<1>6. ASSUME NEW f \in Files(s) PROVE h[f] = CleanRows(s, f)
  <2> DEFINE q == FileChunks(s, f)
             d == DOMAIN raw[s][f]
  <2>1. q = [c \in d |-> [file |-> f, rows |-> raw[s][f][c]]] BY DEF FileChunks
  <2>2. \A c \in d : raw[s][f][c] \in Seq(RawRows) BY RawTyped
  <2>3. DOMAIN q = d BY <2>1
  <2>4. \A c \in d : w[q[c]] = CleanChunk(raw[s][f][c])
    <3> TAKE c \in d
    <3>1. q[c] = [file |-> f, rows |-> raw[s][f][c]] BY <2>1
    <3>2. q[c] \in ChunksOf(s) /\ q[c].rows = raw[s][f][c] BY <2>2, <3>1 DEF ChunksOf
    <3> QED BY <3>2 DEF AllRows
  <2> HIDE DEF q, w
  <2>5. [c \in DOMAIN q |-> w[q[c]]] = [c \in d |-> CleanChunk(raw[s][f][c])]
    BY <2>3, <2>4
  <2>6. Mapped(w, q) = CleanRows(s, f) BY <2>5, Zenon DEF Mapped, CleanRows
  <2> QED BY <2>6 DEF q
<1> HIDE DEF g, w, n
<1>7. /\ \A k \in 0 .. n : Flat(g, k) \in Seq(Rows)
      /\ Flat(g, 0) = <<>>
      /\ \A k \in 1 .. n : Flat(g, k) = Flat(g, k - 1) \o g[k]
  BY <1>3, FlatStep
<1>8. Flat(g, n) = CleanSplit(s)
  <2>1. [f \in 1 .. m |-> h[f]] = [f \in Files(s) |-> CleanRows(s, f)] BY <1>4, <1>6
  <2> HIDE DEF h, m
  <2>2. Flat(h, m) = CleanSplit(s) BY <2>1, Zenon DEF Flat, CleanSplit
  <2> QED BY <1>3, <2>2
<1>9. \A k \in 0 .. n : Flat(g, k) \in Prefixes(CleanSplit(s))
  BY <1>3, <1>8, FlatPrefix
<1>10. \A k : Read(s, k) = Flat(g, k) BY DEF Read, g, w
<1> HIDE DEF h, m
<1> QED BY <1>3, <1>5, <1>7, <1>8, <1>9, <1>10 DEF n

LEMMA FileReadStep ==
  ASSUME raw \in DataSets, NEW s \in SplitNames, NEW f \in Files(s)
  PROVE  LET n == Len(Chunks(s))
         IN  /\ n \in Nat /\ FileRead(s, f, 0) = <<>>
             /\ \A k \in 0 .. n : FileRead(s, f, k) \in Seq(Rows)
             /\ \A k \in 1 .. n :
                  FileRead(s, f, k) = FileRead(s, f, k - 1) \o
                    (IF Chunks(s)[k].file = f THEN CleanChunk(Chunks(s)[k].rows) ELSE <<>>)
             /\ FileRead(s, f, n) = CleanRows(s, f)
             /\ \A k \in 1 .. n :
                  Chunks(s)[k].file = f /\ CleanChunk(Chunks(s)[k].rows) # <<>>
                  => CleanRows(s, f) # <<>>
<1> DEFINE n == Len(Chunks(s))
           w == FileRows(s, f)
           g == Taken(s, w)
           h == [e \in Files(s) |-> Mapped(w, FileChunks(s, e))]
           m == Len(raw[s])
           Of(c) == IF c.file = f THEN CleanChunk(c.rows) ELSE <<>>
<1>1. \A c \in ChunksOf(s) : Of(c) \in Seq(Rows)
  <2>1. \A c \in ChunksOf(s) : CleanChunk(c.rows) \in Seq(Rows) BY CleanTyped DEF ChunksOf
  <2>2. <<>> \in Seq(Rows) OBVIOUS
  <2> QED BY <2>1, <2>2
<1>2. w \in [ChunksOf(s) -> Seq(Rows)] BY <1>1 DEF FileRows
<1>3. /\ n \in Nat /\ g \in [1 .. n -> Seq(Rows)] /\ Flat(g, n) = Flat(h, m)
      /\ h \in [1 .. m -> Seq(Rows)]
  BY <1>2, TakenTyped
<1>4. /\ Chunks(s) \in Seq(ChunksOf(s)) /\ m \in Nat /\ Files(s) = 1 .. m
  BY ChunksTyped
<1>5. ASSUME NEW k \in 1 .. n PROVE g[k] = Of(Chunks(s)[k])
  <2>1. Chunks(s)[k] \in ChunksOf(s) BY <1>4, ElementOfSeq
  <2>2. g[k] = w[Chunks(s)[k]] BY DEF Taken
  <2> QED BY <2>1, <2>2 DEF FileRows
<1>6. ASSUME NEW e \in Files(s)
      PROVE  h[e] = IF e = f THEN CleanRows(s, f) ELSE <<>>
  <2> DEFINE q == FileChunks(s, e)
             d == DOMAIN raw[s][e]
  <2>1. q = [c \in d |-> [file |-> e, rows |-> raw[s][e][c]]] BY DEF FileChunks
  <2>2. /\ \A c \in d : raw[s][e][c] \in Seq(RawRows)
        /\ d = 1 .. Len(raw[s][e]) /\ Len(raw[s][e]) \in Nat
    BY RawTyped
  <2>3. DOMAIN q = d BY <2>1
  <2>4. \A c \in d : w[q[c]] = IF e = f THEN CleanChunk(raw[s][e][c]) ELSE <<>>
    <3> TAKE c \in d
    <3>1. q[c] = [file |-> e, rows |-> raw[s][e][c]] BY <2>1
    <3>2. q[c] \in ChunksOf(s) /\ q[c].rows = raw[s][e][c] /\ q[c].file = e
      BY <2>2, <3>1 DEF ChunksOf
    <3> QED BY <3>2 DEF FileRows
  <2> HIDE DEF q, w
  <2>5. CASE e = f
    <3>1. [c \in DOMAIN q |-> w[q[c]]] = [c \in d |-> CleanChunk(raw[s][f][c])]
      BY <2>3, <2>4, <2>5
    <3>2. Mapped(w, q) = CleanRows(s, f) BY <2>5, <3>1, Zenon DEF Mapped, CleanRows
    <3> QED BY <2>5, <3>2 DEF q
  <2>6. CASE e # f
    <3> DEFINE z == [c \in d |-> w[q[c]]]
               l == Len(raw[s][e])
    <3>1. l \in Nat /\ d = 1 .. l BY <2>2
    <3>2. \A c \in 1 .. l : z[c] = <<>> BY <2>4, <2>6, <3>1
    <3>3. [c \in 1 .. l |-> z[c]] = [c \in DOMAIN q |-> w[q[c]]] BY <2>3, <3>1
    <3> HIDE DEF z, l
    <3>4. Flat(z, l) = <<>> BY <3>1, <3>2, FlatEmpty
    <3>5. Mapped(w, q) = <<>> BY <3>3, <3>4, Zenon DEF Mapped, Flat
    <3> QED BY <2>6, <3>5 DEF q
  <2> QED BY <2>5, <2>6
<1> HIDE DEF g, w, n
<1>7. /\ \A k \in 0 .. n : Flat(g, k) \in Seq(Rows)
      /\ Flat(g, 0) = <<>>
      /\ \A k \in 1 .. n : Flat(g, k) = Flat(g, k - 1) \o g[k]
  BY <1>3, FlatStep
<1>8. Flat(g, n) = CleanRows(s, f)
  <2> HIDE DEF h, m
  <2>1. f \in 1 .. m /\ \A e \in 1 .. m : e # f => h[e] = <<>> BY <1>4, <1>6
  <2>2. h \in Lists(Rows, m) /\ Alone(h, m, f) /\ m \in Nat /\ f \in 1 .. m
    BY <1>3, <1>4, <2>1 DEF Lists, Alone
  <2>3. Flat(h, m) = h[f] BY <2>2, FlatAlone
  <2> QED BY <1>3, <1>6, <2>3
<1>9. \A k : FileRead(s, f, k) = Flat(g, k) BY DEF FileRead, g, w
<1> HIDE DEF h, m
<1>10. \A k \in 1 .. n : g[k] # <<>> => CleanRows(s, f) # <<>> BY <1>3, <1>8, FlatSome
<1> QED BY <1>3, <1>5, <1>7, <1>8, <1>9, <1>10 DEF n


-------------------------------------------------------------------------------
(* What the counts and the artifacts are, and that an output file holds    *)
(* rows only if its raw file does.                                         *)
StatsType == [SplitNames -> [raw : Nat, cleaned : Nat, dropped : Int]]

Backed(o) ==
  \A s \in SplitNames : \A f \in Files(s) : o[s][f] # <<>> => CleanRows(s, f) # <<>>

Shapes ==
  /\ stats \in StatsType
  /\ artifacts \in [scaler : FeatureBags, report : StatsType]
  /\ Backed(outputs)

(* The full pass, phase by phase: the phases have the positions 1 to 18    *)
(* in the program, 19 is its end, and k chunks of the phase have been read. *)
TransformAt == [train |-> 14, validation |-> 15, test |-> 16]
FeatureBag(rows) == BagOf(ExtractFeatures(rows))

ScalerIs(b, t, pos, k) ==
  /\ pos <= 2 => b = EmptyBag
  /\ pos = 3 => b = FeatureBag(Read("train", k)) /\ t = Len(Read("train", k))
  /\ pos \in 4 .. 10 => b \in SampleBags
  /\ pos = 11 => \E sample \in SampleBags : b = FeatureBag(Read("train", k)) (+) sample
  /\ pos >= 12 => \E sample \in SampleBags :
       b = FeatureBag(CleanSplit("train")) (+) sample

(* The rows of a split that the phase at a position has counted.           *)
CountedAt(s, at0, pos, k) ==
  IF pos < at0 THEN 0 ELSE IF pos = at0 THEN Len(Read(s, k)) ELSE Len(CleanSplit(s))

CountsAre(st, pos, k) ==
  pos >= 11 =>
    \A s \in SplitNames :
      st[s].cleaned = (IF s = "train" THEN CountedAt(s, 11, pos, k) ELSE 0)
                      + CountedAt(s, TransformAt[s], pos, k)

(* An output file during the phase that writes it, and from then on.       *)
WrittenUpTo(o, w, b, s, k) ==
  \A f \in Files(s) :
    IF FileRead(s, f, k) = <<>> THEN f \notin w
    ELSE f \in w /\ o[s][f] = Scaled(FileRead(s, f, k), b)

Complete(o, b, s) == \A f \in Files(s) : o[s][f] = Scaled(CleanRows(s, f), b)

OutputsAre(o, w, b, pos, k) ==
  \A s \in SplitNames :
    /\ pos = TransformAt[s] => WrittenUpTo(o, w, b, s, k)
    /\ pos > TransformAt[s] => Complete(o, b, s)

ArtifactsAre(a, b, st, pos) ==
  /\ pos >= 18 => a.scaler = b
  /\ pos >= 19 => a.report = st

Full == Programs["full"]

PlanAt(pos, k) ==
  /\ pos + Len(plan) = 19 /\ k + 1 = cursor
  /\ \A i \in 1 .. Len(plan) : plan[i] = Full[pos + i - 1]

FullAt(pos, k) ==
  /\ PlanAt(pos, k)
  /\ ScalerIs(scaler, total, pos, k)
  /\ CountsAre(stats, pos, k)
  /\ OutputsAre(outputs, written, scaler, pos, k)
  /\ ArtifactsAre(artifacts, scaler, stats, pos)

FullSomewhere == \E pos \in 1 .. 19, k \in Nat : FullAt(pos, k)

FInv ==
  /\ Shapes
  /\ status = "done" => plan = <<>>
  /\ status \in {"running", "done"} /\ program = "full" => FullSomewhere

(* The phases of the program.                                              *)
LEMMA FullPhases ==
  /\ Full \in Seq(PhaseType) /\ Len(Full) = 18
  /\ Full[1] = Simple("lookForFiles") /\ Full[2] = Simple("reset")
  /\ Full[3] = Fit(SampleSize)
  /\ Full[4].kind = "transform" /\ Full[5].kind = "transform" /\ Full[6].kind = "transform"
  /\ Full[7] = Simple("saveScaler") /\ Full[8] = Simple("saveReport")
  /\ Full[9] = Simple("checkOutputs") /\ Full[10] = Simple("reset") /\ Full[11] = Fit(0)
  /\ Full[12] = Simple("saveScaler") /\ Full[13] = Simple("saveReport")
  /\ Full[14] = Transform("train", 0) /\ Full[15] = Transform("validation", 0)
  /\ Full[16] = Transform("test", 0)
  /\ Full[17] = Simple("saveScaler") /\ Full[18] = Simple("saveReport")
<1> DEFINE v == RunVerification(SampleSize)
           w == RunFull
           T == {Simple(k) : k \in Kinds} \cup {Fit(SampleSize), Fit(0)}
                \cup {Transform(s, l) : s \in SplitNames, l \in {SampleSize, 0}}
<1>1. /\ \A k \in {"lookForFiles", "reset", "saveScaler", "saveReport", "checkOutputs"} :
           Simple(k) \in T
      /\ Fit(SampleSize) \in T /\ Fit(0) \in T
      /\ \A s \in {"train", "validation", "test"} :
           Transform(s, SampleSize) \in T /\ Transform(s, 0) \in T
  BY DEF Kinds, SplitNames
<1> HIDE DEF T
<1>2. /\ Len(v) = 9 /\ v[1] = Simple("lookForFiles") /\ v[2] = Simple("reset")
      /\ v[3] = Fit(SampleSize) /\ v[4] = Transform("train", SampleSize)
      /\ v[5] = Transform("validation", SampleSize) /\ v[6] = Transform("test", SampleSize)
      /\ v[7] = Simple("saveScaler") /\ v[8] = Simple("saveReport")
      /\ v[9] = Simple("checkOutputs")
  BY <1>1, NineOf DEF RunVerification
<1>3. /\ Len(w) = 9 /\ w[1] = Simple("reset") /\ w[2] = Fit(0) /\ w[3] = Simple("saveScaler")
      /\ w[4] = Simple("saveReport") /\ w[5] = Transform("train", 0)
      /\ w[6] = Transform("validation", 0) /\ w[7] = Transform("test", 0)
      /\ w[8] = Simple("saveScaler") /\ w[9] = Simple("saveReport")
  BY <1>1, NineOf DEF RunFull
<1>4. v \in Seq(PhaseType) /\ w \in Seq(PhaseType) BY VerificationTyped, RunFullTyped
<1>5. Full = v \o w BY DEF Full, Programs
<1> HIDE DEF v, w
<1> DEFINE x == v \o w
<1>6. /\ x \in Seq(PhaseType) /\ Len(x) = Len(v) + Len(w)
      /\ \A i \in 1 .. Len(v) : x[i] = v[i]
      /\ \A i \in 1 .. Len(w) : x[Len(v) + i] = w[i]
  BY <1>4, ConcatParts
<1> HIDE DEF x
<1>7. /\ x \in Seq(PhaseType) /\ Len(x) = 18
      /\ \A i \in 1 .. 9 : x[i] = v[i] /\ x[9 + i] = w[i]
  BY <1>2, <1>3, <1>6
<1>8. /\ x[1] = v[1] /\ x[2] = v[2] /\ x[3] = v[3] /\ x[4] = v[4] /\ x[5] = v[5]
      /\ x[6] = v[6] /\ x[7] = v[7] /\ x[8] = v[8] /\ x[9] = v[9]
      /\ x[10] = w[1] /\ x[11] = w[2] /\ x[12] = w[3] /\ x[13] = w[4] /\ x[14] = w[5]
      /\ x[15] = w[6] /\ x[16] = w[7] /\ x[17] = w[8] /\ x[18] = w[9]
  BY <1>7
<1>9. v[4].kind = "transform" /\ v[5].kind = "transform" /\ v[6].kind = "transform"
  BY <1>2 DEF Transform
<1> QED BY <1>2, <1>3, <1>5, <1>7, <1>8, <1>9 DEF x

LEMMA KindAt ==
  ASSUME NEW pos \in 1 .. 18
  PROVE  /\ Full[pos].kind = "lookForFiles" => pos = 1
         /\ Full[pos].kind = "reset" => pos \in {2, 10}
         /\ Full[pos].kind = "fit" => pos \in {3, 11}
         /\ Full[pos].kind = "transform" => pos \in {4, 5, 6, 14, 15, 16}
         /\ Full[pos].kind = "saveScaler" => pos \in {7, 12, 17}
         /\ Full[pos].kind = "saveReport" => pos \in {8, 13, 18}
         /\ Full[pos].kind = "checkOutputs" => pos = 9
         /\ pos = 3 => Full[pos].split = "train" /\ Full[pos].limit = SampleSize
         /\ pos = 11 => Full[pos].split = "train" /\ Full[pos].limit = 0
         /\ \A s \in SplitNames :
              pos = TransformAt[s] => Full[pos].split = s /\ Full[pos].limit = 0
         /\ pos \in 14 .. 16 => \E s \in SplitNames : pos = TransformAt[s]
<1> DEFINE q == Full
<1>1. /\ q[1].kind = "lookForFiles" /\ q[2].kind = "reset" /\ q[3].kind = "fit"
      /\ q[4].kind = "transform" /\ q[5].kind = "transform" /\ q[6].kind = "transform"
      /\ q[7].kind = "saveScaler" /\ q[8].kind = "saveReport" /\ q[9].kind = "checkOutputs"
  BY FullPhases DEF Simple, Fit
<1>2. /\ q[10].kind = "reset" /\ q[11].kind = "fit" /\ q[12].kind = "saveScaler"
      /\ q[13].kind = "saveReport" /\ q[14].kind = "transform" /\ q[15].kind = "transform"
      /\ q[16].kind = "transform" /\ q[17].kind = "saveScaler" /\ q[18].kind = "saveReport"
  BY FullPhases DEF Simple, Fit, Transform
<1>3. /\ q[3].split = "train" /\ q[3].limit = SampleSize
      /\ q[11].split = "train" /\ q[11].limit = 0
      /\ q[14].split = "train" /\ q[14].limit = 0
      /\ q[15].split = "validation" /\ q[15].limit = 0
      /\ q[16].split = "test" /\ q[16].limit = 0
  BY FullPhases DEF Fit, Transform
<1> HIDE DEF q
<1>4. /\ TransformAt["train"] = 14 /\ TransformAt["validation"] = 15
      /\ TransformAt["test"] = 16
  BY DEF TransformAt
<1>5. pos \in {1, 2, 3, 4, 5, 6, 7, 8, 9, 10, 11, 12, 13, 14, 15, 16, 17, 18} OBVIOUS
<1>6. /\ q[pos].kind = "lookForFiles" => pos = 1
      /\ q[pos].kind = "reset" => pos \in {2, 10}
      /\ q[pos].kind = "fit" => pos \in {3, 11}
      /\ q[pos].kind = "transform" => pos \in {4, 5, 6, 14, 15, 16}
      /\ q[pos].kind = "saveScaler" => pos \in {7, 12, 17}
      /\ q[pos].kind = "saveReport" => pos \in {8, 13, 18}
      /\ q[pos].kind = "checkOutputs" => pos = 9
  BY <1>1, <1>2, <1>5
<1>7. /\ \A s \in SplitNames :
           pos = TransformAt[s] => q[pos].split = s /\ q[pos].limit = 0
      /\ pos \in 14 .. 16 => \E s \in SplitNames : pos = TransformAt[s]
  BY <1>3, <1>4, <1>5 DEF SplitNames
<1> QED BY <1>3, <1>6, <1>7 DEF q

LEMMA TransformPlaces ==
  /\ TransformAt["train"] = 14 /\ TransformAt["validation"] = 15 /\ TransformAt["test"] = 16
  /\ \A s \in SplitNames : TransformAt[s] \in 14 .. 16
  /\ \A s, t \in SplitNames : TransformAt[s] = TransformAt[t] => s = t
BY DEF TransformAt, SplitNames

(* What depends on the raw data alone.                                     *)
LEMMA RigidKept ==
  ASSUME raw' = raw
  PROVE  /\ \A s, k : Read(s, k)' = Read(s, k)
         /\ \A s, f, k : FileRead(s, f, k)' = FileRead(s, f, k)
         /\ \A s, f : CleanRows(s, f)' = CleanRows(s, f)
         /\ \A s : CleanSplit(s)' = CleanSplit(s)
         /\ SampleBags' = SampleBags
<1>1. \A s, f : CleanRows(s, f)' = CleanRows(s, f) BY DEF CleanRows
<1>2. \A s : CleanSplit(s)' = CleanSplit(s) BY <1>1 DEF CleanSplit, CleanRows, Files
<1>3. \A s, k : Read(s, k)' = Read(s, k)
  BY DEF Read, Flat, Taken, AllRows, ChunksOf, Chunks, Files
<1>4. \A s, f, k : FileRead(s, f, k)' = FileRead(s, f, k)
  BY DEF FileRead, Flat, Taken, FileRows, ChunksOf, Chunks, Files
<1>5. SampleBags' = SampleBags BY Zenon DEF SampleBags, CleanSplit, CleanRows, Files
<1> QED BY <1>1, <1>2, <1>3, <1>4, <1>5

(* The phase at work has its position in the program.                      *)
LEMMA Place ==
  ASSUME PlanSound, NEW pos \in 1 .. 19, NEW k \in Nat, PlanAt(pos, k)
  PROVE  /\ pos \in 1 .. 18 /\ pos + 1 \in 1 .. 19 /\ Phase = Full[pos]
         /\ cursor = k + 1 /\ Len(plan) \in Nat
<1>1. plan \in Seq(PhaseType) /\ plan # <<>> BY DEF PlanSound
<1>2. Head(plan) = plan[1] /\ Len(plan) \in Nat \ {0} BY <1>1, HeadFirst, Zenon
<1> DEFINE n == Len(plan)
           p == plan
<1>3. /\ n \in Nat \ {0} /\ pos + n = 19 /\ Head(plan) = p[1] /\ cursor = k + 1
      /\ \A i \in 1 .. n : p[i] = Full[pos + i - 1]
  BY <1>2 DEF PlanAt
<1> HIDE DEF n, p
<1>4. pos \in 1 .. 18 /\ pos + 1 \in 1 .. 19 BY <1>3
<1>5. Phase = Full[pos]
  <2>1. 1 \in 1 .. n /\ pos + 1 - 1 = pos BY <1>3
  <2> QED BY <1>3, <2>1 DEF Phase
<1> QED BY <1>3, <1>4, <1>5 DEF n

LEMMA FullSame == Full' = Full
BY DEF Full, Programs, RunVerification, RunFull, Simple, Fit, Transform

(* The last phase leaves no phase behind.                                  *)
LEMMA DoneAtEnd ==
  ASSUME PlanSound, NextPhase, status' = "done"
  PROVE  plan' = <<>>
<1>1. plan \in Seq(PhaseType) /\ plan # <<>> BY DEF PlanSound
<1>2. /\ Len(plan) \in Nat \ {0} /\ Len(Tail(plan)) = Len(plan) - 1
      /\ Tail(plan) \in Seq(PhaseType)
  BY <1>1, HeadFirst, Zenon
<1>3. Len(plan) = 1 /\ plan' = Tail(plan) BY DEF NextPhase
<1>4. Len(Tail(plan)) = 0 BY <1>2, <1>3
<1>5. \A q \in Seq(PhaseType) : Len(q) = 0 => q = <<>> OBVIOUS
<1> QED BY <1>2, <1>3, <1>4, <1>5

LEMMA Advance ==
  ASSUME PlanSound, NEW pos \in 1 .. 19, NEW k \in Nat, PlanAt(pos, k), NextPhase
  PROVE  PlanAt(pos + 1, 0)'
<1>1. plan \in Seq(PhaseType) /\ plan # <<>> BY DEF PlanSound
<1>2. /\ Len(plan) \in Nat \ {0} /\ Len(Tail(plan)) = Len(plan) - 1
      /\ \A i \in 1 .. Len(plan) - 1 : Tail(plan)[i] = plan[i + 1]
  BY <1>1, HeadFirst, Zenon
<1> DEFINE n == Len(plan)
           p == plan
           q == Tail(plan)
<1>3. /\ n \in Nat \ {0} /\ Len(q) = n - 1 /\ pos + n = 19
      /\ \A i \in 1 .. n : p[i] = Full[pos + i - 1]
      /\ \A i \in 1 .. n - 1 : q[i] = p[i + 1]
  BY <1>2 DEF PlanAt
<1>4. plan' = q /\ cursor' = 1 BY DEF NextPhase
<1> HIDE DEF n, p, q
<1>5. pos + 1 + (n - 1) = 19 BY <1>3
<1>6. ASSUME NEW i \in 1 .. n - 1 PROVE q[i] = Full[pos + 1 + i - 1]
  <2>1. i + 1 \in 1 .. n /\ pos + (i + 1) - 1 = pos + 1 + i - 1 BY <1>3
  <2> QED BY <1>3, <2>1
<1>7. pos + 1 + Len(plan') = 19 BY <1>3, <1>4, <1>5
<1>8. 0 + 1 = cursor' BY <1>4
<1>9. \A i \in 1 .. Len(plan') : plan'[i] = Full[pos + 1 + i - 1] BY <1>3, <1>4, <1>6
<1> QED BY <1>7, <1>8, <1>9, FullSame DEF PlanAt
-------------------------------------------------------------------------------
(* The scaler: the phase after this one, and one more chunk of this one.   *)
LEMMA SampleTyped ==
  ASSUME raw \in DataSets
  PROVE  SampleBags \subseteq FeatureBags
<1>1. "train" \in SplitNames BY DEF SplitNames
<1>2. CleanSplit("train") \in Seq(Rows)
  <2>1. LET n == Len(Chunks("train"))
        IN  /\ n \in Nat /\ \A k \in 0 .. n : Read("train", k) \in Seq(Rows)
            /\ Read("train", n) = CleanSplit("train")
    BY <1>1, ReadStep
  <2> QED BY <2>1
<1>3. ASSUME NEW p \in Prefixes(CleanSplit("train")) PROVE p \in Seq(Rows)
  <2> DEFINE q == CleanSplit("train")
  <2>1. q \in Seq(Rows) /\ Len(q) \in Nat BY <1>2, SeqAsFunction
  <2>2. PICK n \in 0 .. Len(q) : p = SubSeq(q, 1, n) BY DEF Prefixes
  <2> HIDE DEF q
  <2>3. \A i \in 1 .. n : q[i] \in Rows BY <2>1, ElementOfSeq
  <2>4. SubSeq(q, 1, n) \in Seq(Rows) BY <2>1, <2>3, SubSeqProperties
  <2> QED BY <2>2, <2>4
<1>4. \A p \in Seq(Rows) : BagOf(ExtractFeatures(p)) \in FeatureBags
  BY FeaturesTyped, BagTyped
<1> QED BY <1>3, <1>4 DEF SampleBags

FitOver(t, pos, k) ==
  /\ pos = 3 => k = Len(Chunks("train")) \/ t >= SampleSize
  /\ pos = 11 => k = Len(Chunks("train"))

LEMMA ScalerOver ==
  ASSUME raw \in DataSets, NEW b \in FeatureBags, NEW t, NEW pos \in 1 .. 18,
         NEW k \in Nat, pos = 3 => k <= Len(Chunks("train")), FitOver(t, pos, k),
         ScalerIs(b, t, pos, k)
  PROVE  ScalerIs(b, 0, pos + 1, 0)
<1> DEFINE n == Len(Chunks("train"))
           S == SampleBags
           X(sample) == FeatureBag(CleanSplit("train")) (+) sample
           Y(sample) == FeatureBag(Read("train", 0)) (+) sample
<1>1. "train" \in SplitNames BY DEF SplitNames
<1>2. /\ n \in Nat /\ Read("train", 0) = <<>> /\ Read("train", n) = CleanSplit("train")
      /\ \A i \in 0 .. n : Read("train", i) \in Prefixes(CleanSplit("train"))
  BY <1>1, ReadStep
<1>3. FeatureBag(Read("train", 0)) = EmptyBag /\ Len(Read("train", 0)) = 0
  <2>1. ExtractFeatures(<<>>) = <<>> BY DEF ExtractFeatures
  <2> QED BY <1>2, <2>1, BagOfNone DEF FeatureBag
<1>4. CASE pos = 1 BY <1>4 DEF ScalerIs
<1>5. CASE pos = 2
  <2>1. b = EmptyBag BY <1>5 DEF ScalerIs
  <2> QED BY <1>3, <1>5, <2>1 DEF ScalerIs
<1>6. CASE pos = 3
  <2> DEFINE p == Read("train", k)
  <2>1. b = BagOf(ExtractFeatures(p)) /\ t = Len(p) BY <1>6 DEF ScalerIs, FeatureBag
  <2>2. p \in Prefixes(CleanSplit("train")) /\ (k = n => p = CleanSplit("train"))
    BY <1>2, <1>6
  <2>3. Len(p) >= SampleSize \/ p = CleanSplit("train") BY <1>6, <2>1, <2>2 DEF FitOver
  <2> HIDE DEF p
  <2>4. b \in SampleBags BY <2>1, <2>2, <2>3 DEF SampleBags
  <2> QED BY <1>6, <2>4 DEF ScalerIs
<1>7. CASE pos \in 4 .. 9 BY <1>7 DEF ScalerIs
<1>8. CASE pos = 10
  <2>1. b \in S BY <1>8 DEF ScalerIs
  <2>2. Y(b) = b BY <1>3, PlusNone
  <2>3. \E sample \in S : b = Y(sample) BY <2>1, <2>2
  <2> HIDE DEF Y
  <2> QED BY <1>8, <2>3 DEF ScalerIs, Y
<1>9. CASE pos = 11
  <2>1. k = n BY <1>9 DEF FitOver
  <2>2. \E sample \in S : b = X(sample) BY <1>2, <1>9, <2>1 DEF ScalerIs
  <2> HIDE DEF X
  <2> QED BY <1>9, <2>2 DEF ScalerIs, X
<1>10. CASE pos >= 12
  <2>1. \E sample \in S : b = X(sample) BY <1>10 DEF ScalerIs
  <2> HIDE DEF X
  <2> QED BY <1>10, <2>1 DEF ScalerIs, X
<1>11. pos \in 4 .. 9 \/ pos \in {1, 2, 3, 10, 11} \/ pos >= 12 OBVIOUS
<1> QED BY <1>4, <1>5, <1>6, <1>7, <1>8, <1>9, <1>10, <1>11

LEMMA ScalerRead ==
  ASSUME raw \in DataSets, NEW b \in FeatureBags, NEW t, NEW pos \in {3, 11},
         NEW k \in Nat, k + 1 <= Len(Chunks("train")), ScalerIs(b, t, pos, k)
  PROVE  LET clean == CleanChunk(Chunks("train")[k + 1].rows)
         IN  ScalerIs(b (+) BagOf(ExtractFeatures(clean)), t + Len(clean), pos, k + 1)
<1> DEFINE n == Len(Chunks("train"))
           r == Chunks("train")[k + 1].rows
           clean == CleanChunk(r)
           p == Read("train", k)
           x == FeatureBag(clean)
           S == SampleBags
           Y(sample) == FeatureBag(Read("train", k + 1)) (+) sample
<1>1. "train" \in SplitNames BY DEF SplitNames
<1>2. /\ n \in Nat /\ p \in Seq(Rows) /\ Read("train", k + 1) = p \o clean
  <2>1. /\ n \in Nat /\ \A i \in 0 .. n : Read("train", i) \in Seq(Rows)
        /\ \A i \in 1 .. n :
             Read("train", i) = Read("train", i - 1) \o CleanChunk(Chunks("train")[i].rows)
    BY <1>1, ReadStep
  <2>2. k \in 0 .. n /\ k + 1 \in 1 .. n /\ k + 1 - 1 = k BY <2>1
  <2> QED BY <2>1, <2>2
<1>3. clean \in Seq(Rows)
  <2>1. Chunks("train") \in Seq(ChunksOf("train")) BY <1>1, ChunksTyped
  <2>2. k + 1 \in 1 .. n BY <1>2
  <2>3. Chunks("train")[k + 1] \in ChunksOf("train") BY <2>1, <2>2, ElementOfSeq
  <2>4. r \in Seq(RawRows) BY <2>3 DEF ChunksOf
  <2> QED BY <2>4, CleanTyped
<1> HIDE DEF r, clean, p, n
<1>4. /\ ExtractFeatures(p) \in Seq(Feats) /\ ExtractFeatures(clean) \in Seq(Feats)
  BY <1>2, <1>3, FeaturesTyped
<1>5. FeatureBag(p \o clean) = FeatureBag(p) (+) x
  <2>1. ExtractFeatures(p \o clean) = ExtractFeatures(p) \o ExtractFeatures(clean)
    BY <1>2, <1>3, FeaturesConcat
  <2> QED BY <1>4, <2>1, BagOfConcat DEF FeatureBag
<1>6. x \in FeatureBags /\ FeatureBag(p) \in FeatureBags BY <1>4, BagTyped DEF FeatureBag
<1>7. Len(p \o clean) = Len(p) + Len(clean) BY <1>2, <1>3, ConcatParts
<1>8. CASE pos = 3
  <2>1. b = FeatureBag(p) /\ t = Len(p) BY <1>8 DEF ScalerIs, p
  <2>2. b (+) x = FeatureBag(Read("train", k + 1)) BY <1>2, <1>5, <2>1
  <2>3. t + Len(clean) = Len(Read("train", k + 1)) BY <1>2, <1>7, <2>1
  <2>4. ScalerIs(b (+) x, t + Len(clean), pos, k + 1)
    BY <1>8, <2>2, <2>3 DEF ScalerIs
  <2> QED BY <2>4 DEF clean, r, x, FeatureBag
<1>9. CASE pos = 11
  <2>1. PICK sample \in S : b = FeatureBag(p) (+) sample BY <1>9 DEF ScalerIs, p
  <2>2. sample \in FeatureBags BY SampleTyped
  <2>3. b (+) x = (FeatureBag(p) (+) x) (+) sample BY <1>6, <2>1, <2>2, PlusSwap
  <2>4. b (+) x = Y(sample) BY <1>2, <1>5, <2>3
  <2>5. \E q \in S : b (+) x = Y(q) BY <2>1, <2>4
  <2> HIDE DEF Y
  <2>6. ScalerIs(b (+) x, t + Len(clean), pos, k + 1) BY <1>9, <2>5 DEF ScalerIs, Y
  <2> QED BY <2>6 DEF clean, r, x, FeatureBag
<1> QED BY <1>8, <1>9

-------------------------------------------------------------------------------
(* The counts.                                                             *)
SplitOf == [p \in {11, 14, 15, 16} |->
  IF p = 15 THEN "validation" ELSE IF p = 16 THEN "test" ELSE "train"]

AllRead(pos, k) == pos \in {11, 14, 15, 16} => k = Len(Chunks(SplitOf[pos]))

LEMMA SplitOfPlaces ==
  /\ \A s \in SplitNames : SplitOf[TransformAt[s]] = s /\ TransformAt[s] \in {14, 15, 16}
  /\ SplitOf[11] = "train"
  /\ \A p \in {11, 14, 15, 16} : SplitOf[p] \in SplitNames
  /\ \A p \in {14, 15, 16} : TransformAt[SplitOf[p]] = p
BY DEF SplitOf, TransformAt, SplitNames

LEMMA CountedNext ==
  ASSUME raw \in DataSets, NEW s \in SplitNames, NEW at0 \in Nat, NEW pos \in Nat,
         NEW k \in Nat, pos = at0 => k = Len(Chunks(s))
  PROVE  CountedAt(s, at0, pos + 1, 0) = CountedAt(s, at0, pos, k)
<1>1. Read(s, 0) = <<>> /\ Read(s, Len(Chunks(s))) = CleanSplit(s) BY ReadStep
<1>2. Len(Read(s, 0)) = 0 BY <1>1
<1>3. CASE pos + 1 < at0 BY <1>3 DEF CountedAt
<1>4. CASE pos + 1 = at0 BY <1>2, <1>4 DEF CountedAt
<1>5. CASE pos = at0 BY <1>1, <1>5 DEF CountedAt
<1>6. CASE pos > at0 BY <1>6 DEF CountedAt
<1> QED BY <1>3, <1>4, <1>5, <1>6

LEMMA CountedMore ==
  ASSUME raw \in DataSets, NEW s \in SplitNames, NEW at0 \in Nat, NEW pos \in Nat,
         NEW k \in Nat, k + 1 <= Len(Chunks(s))
  PROVE  CountedAt(s, at0, pos, k + 1) = CountedAt(s, at0, pos, k)
           + (IF pos = at0 THEN Len(CleanChunk(Chunks(s)[k + 1].rows)) ELSE 0)
<1> DEFINE n == Len(Chunks(s))
           clean == CleanChunk(Chunks(s)[k + 1].rows)
           p == Read(s, k)
<1>1. /\ n \in Nat /\ p \in Seq(Rows) /\ Read(s, k + 1) = p \o clean
      /\ CleanSplit(s) \in Seq(Rows) /\ k + 1 \in 1 .. n
  <2>1. /\ n \in Nat /\ \A i \in 0 .. n : Read(s, i) \in Seq(Rows)
        /\ \A i \in 1 .. n :
             Read(s, i) = Read(s, i - 1) \o CleanChunk(Chunks(s)[i].rows)
        /\ Read(s, n) = CleanSplit(s)
    BY ReadStep
  <2>2. k \in 0 .. n /\ k + 1 \in 1 .. n /\ k + 1 - 1 = k /\ n \in 0 .. n BY <2>1
  <2> QED BY <2>1, <2>2
<1>2. clean \in Seq(Rows)
  <2>1. Chunks(s) \in Seq(ChunksOf(s)) BY ChunksTyped
  <2>2. Chunks(s)[k + 1] \in ChunksOf(s) BY <1>1, <2>1, ElementOfSeq
  <2>3. Chunks(s)[k + 1].rows \in Seq(RawRows) BY <2>2 DEF ChunksOf
  <2> QED BY <2>3, CleanTyped
<1> HIDE DEF clean, p, n
<1>3. Len(p \o clean) = Len(p) + Len(clean) /\ Len(p) \in Nat /\ Len(clean) \in Nat
  BY <1>1, <1>2, ConcatParts, SeqAsFunction
<1>4. Len(CleanSplit(s)) \in Nat BY <1>1, SeqAsFunction
<1>5. CASE pos = at0
  <2>1. CountedAt(s, at0, pos, k + 1) = Len(p \o clean) BY <1>1, <1>5 DEF CountedAt
  <2>2. CountedAt(s, at0, pos, k) = Len(p) BY <1>5 DEF CountedAt, p
  <2> QED BY <1>3, <1>5, <2>1, <2>2 DEF clean
<1>6. CASE pos # at0 BY <1>4, <1>6 DEF CountedAt
<1> QED BY <1>5, <1>6

LEMMA CountsOver ==
  ASSUME raw \in DataSets, NEW st, NEW pos \in 1 .. 18, pos # 10, NEW k \in Nat,
         AllRead(pos, k), CountsAre(st, pos, k)
  PROVE  CountsAre(st, pos + 1, 0)
<1> SUFFICES ASSUME pos >= 11, NEW s \in SplitNames
             PROVE  st[s].cleaned = (IF s = "train" THEN CountedAt(s, 11, pos + 1, 0) ELSE 0)
                                    + CountedAt(s, TransformAt[s], pos + 1, 0)
  BY DEF CountsAre
<1>1. TransformAt[s] \in Nat /\ 11 \in Nat /\ pos \in Nat BY TransformPlaces
<1>2. pos = TransformAt[s] => k = Len(Chunks(s)) BY SplitOfPlaces DEF AllRead
<1>3. pos = 11 => k = Len(Chunks("train")) BY SplitOfPlaces DEF AllRead
<1>4. CountedAt(s, TransformAt[s], pos + 1, 0) = CountedAt(s, TransformAt[s], pos, k)
  BY <1>1, <1>2, CountedNext
<1>5. s = "train" => CountedAt(s, 11, pos + 1, 0) = CountedAt(s, 11, pos, k)
  BY <1>1, <1>3, CountedNext
<1> QED BY <1>4, <1>5 DEF CountsAre

LEMMA CountsRead ==
  ASSUME raw \in DataSets, NEW st \in StatsType, NEW pos \in {11, 14, 15, 16},
         NEW k \in Nat, k + 1 <= Len(Chunks(SplitOf[pos])), CountsAre(st, pos, k),
         NEW st2 \in StatsType,
         \A s \in SplitNames : st2[s].cleaned = st[s].cleaned +
            (IF s = SplitOf[pos] THEN Len(CleanChunk(Chunks(s)[k + 1].rows)) ELSE 0)
  PROVE  CountsAre(st2, pos, k + 1)
<1> SUFFICES ASSUME NEW s \in SplitNames
             PROVE  st2[s].cleaned = (IF s = "train" THEN CountedAt(s, 11, pos, k + 1) ELSE 0)
                                     + CountedAt(s, TransformAt[s], pos, k + 1)
  BY DEF CountsAre
<1> DEFINE more == Len(CleanChunk(Chunks(s)[k + 1].rows))
           a(j) == IF s = "train" THEN CountedAt(s, 11, pos, j) ELSE 0
           b(j) == CountedAt(s, TransformAt[s], pos, j)
           old == st[s].cleaned
           new == st2[s].cleaned
<1>1. TransformAt[s] \in Nat /\ TransformAt[s] \in {14, 15, 16} /\ 11 \in Nat /\ pos \in Nat
  BY TransformPlaces
<1>2. /\ pos = TransformAt[s] => SplitOf[pos] = s
      /\ pos = 11 => SplitOf[pos] = "train"
      /\ pos # 11 => pos = TransformAt[SplitOf[pos]]
  BY SplitOfPlaces
<1>3. old = a(k) + b(k) /\ old \in Int BY DEF CountsAre, StatsType
<1>4. new = old + (IF s = SplitOf[pos] THEN more ELSE 0) OBVIOUS
<1>5. CASE s = SplitOf[pos]
  <2>1. /\ CountedAt(s, 11, pos, k + 1) =
             CountedAt(s, 11, pos, k) + (IF pos = 11 THEN more ELSE 0)
        /\ b(k + 1) = b(k) + (IF pos = TransformAt[s] THEN more ELSE 0)
    BY <1>1, <1>5, CountedMore
  <2>2. more \in Nat
    <3>1. k + 1 \in 1 .. Len(Chunks(s))
      BY <1>5, ChunksTyped, SeqAsFunction
    <3>2. Chunks(s)[k + 1] \in ChunksOf(s) BY <3>1, ChunksTyped, ElementOfSeq
    <3>3. Chunks(s)[k + 1].rows \in Seq(RawRows) BY <3>2 DEF ChunksOf
    <3>4. CleanChunk(Chunks(s)[k + 1].rows) \in Seq(Rows) BY <3>3, CleanTyped
    <3> QED BY <3>4, SeqAsFunction
  <2>3. \A at0 \in Nat : CountedAt(s, at0, pos, k) \in Int
    <3>1. \A i \in 0 .. Len(Chunks(s)) : Read(s, i) \in Seq(Rows) BY ReadStep
    <3>2. Read(s, Len(Chunks(s))) = CleanSplit(s) /\ Len(Chunks(s)) \in Nat BY ReadStep
    <3>3. k \in 0 .. Len(Chunks(s)) /\ Len(Chunks(s)) \in 0 .. Len(Chunks(s))
      BY <1>5, <3>2
    <3>4. Len(Read(s, k)) \in Nat /\ Len(CleanSplit(s)) \in Nat
      BY <3>1, <3>2, <3>3, SeqAsFunction
    <3> QED BY <3>4 DEF CountedAt
  <2>4. a(k) \in Int /\ b(k) \in Int /\ CountedAt(s, 11, pos, k) \in Int
    <3>1. CountedAt(s, 11, pos, k) \in Int /\ CountedAt(s, TransformAt[s], pos, k) \in Int
      BY <1>1, <2>3
    <3> QED BY <3>1
  <2>5. CASE pos = 11
    <3>1. s = "train" /\ pos # TransformAt[s] BY <1>1, <1>2, <1>5, <2>5
    <3>2. a(k + 1) = a(k) + more /\ b(k + 1) = b(k) + 0 BY <2>1, <2>5, <3>1
    <3> HIDE DEF a, b, more, old, new
    <3>3. new = a(k + 1) + b(k + 1) BY <1>3, <1>4, <1>5, <2>2, <2>4, <3>2
    <3> QED BY <3>3 DEF a, b, new
  <2>6. CASE pos # 11
    <3>1. pos = TransformAt[s] BY <1>2, <1>5, <2>6
    <3>2. a(k + 1) = a(k) /\ b(k + 1) = b(k) + more BY <2>1, <2>4, <2>6, <3>1
    <3> HIDE DEF a, b, more, old, new
    <3>3. new = a(k + 1) + b(k + 1) BY <1>3, <1>4, <1>5, <2>2, <2>4, <3>2
    <3> QED BY <3>3 DEF a, b, new
  <2> QED BY <2>5, <2>6
<1>6. CASE s # SplitOf[pos]
  <2>1. pos # TransformAt[s] /\ (s = "train" => pos # 11) BY <1>2, <1>6
  <2>2. a(k + 1) = a(k) /\ b(k + 1) = b(k) BY <2>1 DEF CountedAt
  <2> HIDE DEF a, b, old, new
  <2>3. new = a(k + 1) + b(k + 1) BY <1>3, <1>4, <1>6, <2>2
  <2> QED BY <2>3 DEF a, b, new
<1> QED BY <1>5, <1>6

LEMMA CountsReset ==
  ASSUME raw \in DataSets
  PROVE  CountsAre(NoStats, 11, 0) /\ NoStats \in StatsType
<1>1. NoStats \in StatsType BY DEF NoStats, StatsType
<1>2. \A s \in SplitNames : Len(Read(s, 0)) = 0
  <2>1. \A s \in SplitNames : Read(s, 0) = <<>> BY ReadStep
  <2> QED BY <2>1
<1>3. \A s \in SplitNames : NoStats[s].cleaned = 0 BY DEF NoStats
<1>4. \A s \in SplitNames : 11 < TransformAt[s] BY TransformPlaces
<1>5. \A s \in SplitNames : CountedAt(s, 11, 11, 0) = 0 /\ CountedAt(s, TransformAt[s], 11, 0) = 0
  BY <1>2, <1>4 DEF CountedAt
<1> QED BY <1>1, <1>3, <1>5 DEF CountsAre

-------------------------------------------------------------------------------
(* The outputs.                                                            *)
LEMMA ScaledNone == \A b : Scaled(<<>>, b) = <<>>
BY DEF Scaled

LEMMA OutputsOver ==
  ASSUME raw \in DataSets, NEW o, Backed(o), NEW w, NEW b, NEW pos \in 1 .. 18,
         NEW k \in Nat, AllRead(pos, k), OutputsAre(o, w, b, pos, k)
  PROVE  OutputsAre(o, {}, b, pos + 1, 0)
<1> SUFFICES ASSUME NEW s \in SplitNames
             PROVE  /\ pos + 1 = TransformAt[s] => WrittenUpTo(o, {}, b, s, 0)
                    /\ pos + 1 > TransformAt[s] => Complete(o, b, s)
  BY DEF OutputsAre
<1>1. \A f \in Files(s) : /\ FileRead(s, f, 0) = <<>>
                          /\ FileRead(s, f, Len(Chunks(s))) = CleanRows(s, f)
  BY FileReadStep
<1>2. WrittenUpTo(o, {}, b, s, 0) BY <1>1 DEF WrittenUpTo
<1>3. TransformAt[s] \in 14 .. 16 BY TransformPlaces
<1>4. CASE pos = TransformAt[s]
  <2>1. k = Len(Chunks(s)) BY <1>4, SplitOfPlaces DEF AllRead
  <2>2. WrittenUpTo(o, w, b, s, k) BY <1>4 DEF OutputsAre
  <2>3. ASSUME NEW f \in Files(s) PROVE o[s][f] = Scaled(CleanRows(s, f), b)
    <3>1. FileRead(s, f, k) = CleanRows(s, f) BY <1>1, <2>1
    <3>2. CASE CleanRows(s, f) = <<>>
      <4>1. o[s][f] = <<>> BY <3>2 DEF Backed
      <4> QED BY <3>2, <4>1, ScaledNone
    <3>3. CASE CleanRows(s, f) # <<>> BY <2>2, <3>1, <3>3 DEF WrittenUpTo
    <3> QED BY <3>2, <3>3
  <2> QED BY <1>4, <2>3 DEF Complete
<1>5. CASE pos > TransformAt[s] BY <1>3, <1>5 DEF OutputsAre
<1>6. CASE pos < TransformAt[s] BY <1>2, <1>3, <1>6
<1> QED BY <1>3, <1>4, <1>5, <1>6

(* One more chunk of a split, with or without a clean row.                 *)
ReadInto(o, w, b, s, c, o2, w2) ==
  LET clean == CleanChunk(c.rows)
      old   == IF c.file \in w THEN o[s][c.file] ELSE <<>>
  IN  /\ w2 = IF clean = <<>> THEN w ELSE w \cup {c.file}
      /\ clean # <<>> => o2[s][c.file] = old \o Scaled(clean, b)
      /\ \A t \in SplitNames : \A f \in Files(t) :
           clean = <<>> \/ t # s \/ f # c.file => o2[t][f] = o[t][f]

LEMMA OutputsRead ==
  ASSUME raw \in DataSets, NEW b \in FeatureBags, NEW pos \in {14, 15, 16}, NEW k \in Nat,
         k + 1 <= Len(Chunks(SplitOf[pos])), NEW o, NEW w, OutputsAre(o, w, b, pos, k),
         NEW o2, NEW w2,
         ReadInto(o, w, b, SplitOf[pos], Chunks(SplitOf[pos])[k + 1], o2, w2)
  PROVE  OutputsAre(o2, w2, b, pos, k + 1)
<1> DEFINE s     == SplitOf[pos]
           c     == Chunks(s)[k + 1]
           f0    == c.file
           clean == CleanChunk(c.rows)
           n     == Len(Chunks(s))
           old   == IF f0 \in w THEN o[s][f0] ELSE <<>>
<1>1. /\ w2 = IF clean = <<>> THEN w ELSE w \cup {f0}
      /\ clean # <<>> => o2[s][f0] = old \o Scaled(clean, b)
      /\ \A t \in SplitNames : \A f \in Files(t) :
           clean = <<>> \/ t # s \/ f # f0 => o2[t][f] = o[t][f]
  BY DEF ReadInto
<1>2. s \in SplitNames /\ TransformAt[s] = pos BY SplitOfPlaces
<1>3. /\ Chunks(s) \in Seq(ChunksOf(s)) /\ n \in Nat /\ k + 1 <= n
  <2>1. Chunks(s) \in Seq(ChunksOf(s)) BY <1>2, ChunksTyped
  <2>2. Len(Chunks(s)) \in Nat BY <2>1, SeqAsFunction
  <2> QED BY <2>1, <2>2
<1>4. k + 1 \in 1 .. n /\ k \in 0 .. n /\ (k + 1) - 1 = k BY <1>3
<1>5. c \in ChunksOf(s) BY <1>3, <1>4, ElementOfSeq
<1>6. f0 \in Files(s) /\ c.rows \in Seq(RawRows) BY <1>5 DEF ChunksOf
<1>7. clean \in Seq(Rows) BY <1>6, CleanTyped
<1>8. ASSUME NEW f \in Files(s)
      PROVE  /\ FileRead(s, f, k) \in Seq(Rows)
             /\ FileRead(s, f, k + 1) =
                  FileRead(s, f, k) \o (IF f0 = f THEN clean ELSE <<>>)
  <2>1. /\ \A i \in 0 .. n : FileRead(s, f, i) \in Seq(Rows)
        /\ \A i \in 1 .. n :
             FileRead(s, f, i) = FileRead(s, f, i - 1) \o
               (IF Chunks(s)[i].file = f THEN CleanChunk(Chunks(s)[i].rows) ELSE <<>>)
    BY <1>2, FileReadStep
  <2> QED BY <1>4, <2>1
<1>9. WrittenUpTo(o, w, b, s, k) BY <1>2 DEF OutputsAre
<1> HIDE DEF c, f0, clean, old, n
<1>10. \A p \in Seq(Rows) : p \o <<>> = p OBVIOUS
<1>11. ASSUME NEW f \in Files(s)
       PROVE  IF FileRead(s, f, k + 1) = <<>> THEN f \notin w2
              ELSE f \in w2 /\ o2[s][f] = Scaled(FileRead(s, f, k + 1), b)
  <2> DEFINE p == FileRead(s, f, k)
             p2 == FileRead(s, f, k + 1)
  <2>1. p \in Seq(Rows) /\ p2 = p \o (IF f0 = f THEN clean ELSE <<>>) BY <1>8
  <2>2. IF p = <<>> THEN f \notin w ELSE f \in w /\ o[s][f] = Scaled(p, b)
    BY <1>9 DEF WrittenUpTo
  <2> HIDE DEF p, p2
  <2>3. CASE f # f0 \/ clean = <<>>
    <3>1. p2 = p BY <1>10, <2>1, <2>3
    <3>2. o2[s][f] = o[s][f] BY <1>1, <1>2, <2>3
    <3>3. f \in w2 <=> f \in w BY <1>1, <2>3
    <3> QED BY <2>2, <3>1, <3>2, <3>3 DEF p2
  <2>4. CASE f = f0 /\ clean # <<>>
    <3>1. p2 = p \o clean BY <2>1, <2>4
    <3>2. Len(clean) \in Nat \ {0} BY <1>7, <2>4, HeadFirst, Zenon
    <3>3. Len(p \o clean) = Len(p) + Len(clean) BY <1>7, <2>1, ConcatLonger, Zenon
    <3>4. p2 # <<>>
      <4>0. Len(p) \in Nat BY <2>1, SeqAsFunction
      <4>1. Len(p2) # 0 BY <3>1, <3>2, <3>3, <4>0
      <4> QED BY <4>1, LongerThanNone, Zenon
    <3>5. old = Scaled(p, b)
      <4>1. CASE p = <<>> BY <2>2, <2>4, <4>1, ScaledNone DEF old
      <4>2. CASE p # <<>> BY <2>2, <2>4, <4>2 DEF old
      <4> QED BY <4>1, <4>2
    <3>6. o2[s][f] = Scaled(p, b) \o Scaled(clean, b) BY <1>1, <2>4, <3>5
    <3>7. o2[s][f] = Scaled(p2, b) BY <1>7, <2>1, <3>1, <3>6, ScaledConcat
    <3>8. f \in w2 BY <1>1, <2>4
    <3> QED BY <3>4, <3>7, <3>8 DEF p2
  <2> QED BY <2>3, <2>4
<1>12. WrittenUpTo(o2, w2, b, s, k + 1) BY <1>11 DEF WrittenUpTo
<1>13. ASSUME NEW t \in SplitNames, pos > TransformAt[t] PROVE Complete(o2, b, t)
  <2>1. t # s BY <1>2, <1>13, TransformPlaces
  <2>2. \A f \in Files(t) : o2[t][f] = o[t][f] BY <1>1, <2>1
  <2>3. Complete(o, b, t) BY <1>13 DEF OutputsAre
  <2> QED BY <2>2, <2>3 DEF Complete
<1>14. \A t \in SplitNames : pos = TransformAt[t] => t = s BY <1>2, TransformPlaces
<1> QED BY <1>12, <1>13, <1>14 DEF OutputsAre

-------------------------------------------------------------------------------
(* PerSplit step of the full pass, put together.                                *)
LEMMA FullAtNext ==
  ASSUME raw' = raw, NEW pos, NEW k, PlanAt(pos, k)',
         ScalerIs(scaler', total', pos, k), CountsAre(stats', pos, k),
         OutputsAre(outputs', written', scaler', pos, k),
         ArtifactsAre(artifacts', scaler', stats', pos)
  PROVE  FullAt(pos, k)'
<1>1. ScalerIs(scaler, total, pos, k)' BY RigidKept DEF ScalerIs, FeatureBag
<1>2. CountsAre(stats, pos, k)' BY RigidKept DEF CountsAre, CountedAt
<1>3. OutputsAre(outputs, written, scaler, pos, k)'
  BY RigidKept, RawKept DEF OutputsAre, WrittenUpTo, Complete
<1>4. ArtifactsAre(artifacts, scaler, stats, pos)' BY DEF ArtifactsAre
<1> QED BY <1>1, <1>2, <1>3, <1>4 DEF FullAt

LEMMA ShapesNext ==
  ASSUME raw' = raw, stats' \in StatsType, Backed(outputs'),
         artifacts' \in [scaler : FeatureBags, report : StatsType]
  PROVE  Shapes'
<1>1. Backed(outputs)' BY RigidKept, RawKept DEF Backed
<1> QED BY <1>1 DEF Shapes

(* A phase is over after j chunks.                                         *)
LEMMA FullPhase ==
  ASSUME raw \in DataSets, raw' = raw, PlanSound, NextPhase, Backed(outputs'),
         NEW pos \in 1 .. 19, NEW k \in Nat, PlanAt(pos, k), NEW j \in Nat, NEW t, NEW w,
         scaler' \in FeatureBags, FitOver(t, pos, j),
         pos = 3 => j <= Len(Chunks("train")),
         ScalerIs(scaler', t, pos, j), CountsAre(stats', pos + 1, 0), AllRead(pos, j),
         OutputsAre(outputs', w, scaler', pos, j),
         ArtifactsAre(artifacts', scaler', stats', pos + 1)
  PROVE  FullSomewhere'
<1>1. pos \in 1 .. 18 /\ pos + 1 \in 1 .. 19 BY Place
<1>2. PlanAt(pos + 1, 0)' BY Advance
<1>3. ScalerIs(scaler', 0, pos + 1, 0) BY <1>1, ScalerOver
<1>4. OutputsAre(outputs', {}, scaler', pos + 1, 0) BY <1>1, OutputsOver
<1>5. total' = 0 /\ written' = {} BY DEF NextPhase
<1>6. FullAt(pos + 1, 0)' BY <1>2, <1>3, <1>4, <1>5, FullAtNext
<1>7. 0 \in Nat OBVIOUS
<1> QED BY <1>1, <1>6, <1>7 DEF FullSomewhere

(* What the counts of a chunk add.                                         *)
LEMMA CountChunkAdds ==
  ASSUME stats \in StatsType, Phase.split \in SplitNames, Clean \in Seq(Rows),
         Chunk.rows \in Seq(RawRows), CountChunk
  PROVE  /\ stats' \in StatsType
         /\ \A s \in SplitNames : stats'[s].cleaned = stats[s].cleaned +
              (IF s = Phase.split THEN Len(Clean) ELSE 0)
<1> DEFINE c == Len(Clean)
           r == Len(Chunk.rows)
           s0 == Phase.split
           PerSplit == [raw : Nat, cleaned : Nat, dropped : Int]
           new == [ raw |-> stats[s0].raw + r, cleaned |-> stats[s0].cleaned + c,
                    dropped |-> stats[s0].dropped + r - c ]
<1>1. c \in Nat /\ r \in Nat BY SeqAsFunction
<1>2. stats' = [stats EXCEPT ![s0] = new] BY DEF CountChunk
<1>3. s0 \in SplitNames OBVIOUS
<1> HIDE DEF c, r, s0
<1>4. stats \in [SplitNames -> PerSplit] BY DEF StatsType
<1>5. \A s \in SplitNames : stats[s] \in PerSplit /\ stats[s].cleaned \in Nat BY <1>4
<1>6. new \in PerSplit /\ new.cleaned = stats[s0].cleaned + c BY <1>1, <1>3, <1>5
<1> HIDE DEF new
<1>7. /\ stats' \in [SplitNames -> PerSplit] /\ stats'[s0] = new
      /\ \A s \in SplitNames : s # s0 => stats'[s] = stats[s]
  <2> HIDE DEF PerSplit
  <2> QED BY <1>2, <1>3, <1>4, <1>6
<1>8. \A s \in SplitNames : stats'[s].cleaned = stats[s].cleaned + (IF s = s0 THEN c ELSE 0)
  <2> TAKE s \in SplitNames
  <2>1. CASE s = s0 BY <1>6, <1>7, <2>1
  <2>2. CASE s # s0
    <3>1. stats[s].cleaned + 0 = stats[s].cleaned BY <1>5
    <3> QED BY <1>7, <2>2, <3>1
  <2> QED BY <2>1, <2>2
<1> QED BY <1>7, <1>8 DEF StatsType, s0, c

(* A phase that reads no chunk.                                            *)
Quiet(pos) == pos \notin {3, 11, 14, 15, 16}

LEMMA QuietPhase ==
  ASSUME HInv, FInv, status = "running", program = "full", Ready, NextPhase, raw' = raw,
         scaler' = scaler, outputs' = outputs,
         NEW pos \in 1 .. 19, NEW k \in Nat, FullAt(pos, k), Quiet(pos),
         \/ stats' = stats /\ pos # 10
         \/ stats' = NoStats /\ pos = 10,
         ArtifactsAre(artifacts', scaler', stats', pos + 1)
  PROVE  FullSomewhere'
<1>1. raw \in DataSets /\ scaler \in FeatureBags /\ PlanSound /\ Shapes
  BY DEF HInv, PrepTyped, FInv
<1>2. /\ PlanAt(pos, k) /\ ScalerIs(scaler, total, pos, k) /\ CountsAre(stats, pos, k)
      /\ OutputsAre(outputs, written, scaler, pos, k)
  BY DEF FullAt
<1>3. pos \in 1 .. 18 BY <1>1, <1>2, Place
<1>4. FitOver(total, pos, k) /\ AllRead(pos, k) BY DEF FitOver, AllRead, Quiet
<1>5. CountsAre(stats', pos + 1, 0)
  <2>1. CASE pos # 10 BY <1>1, <1>2, <1>3, <1>4, <2>1, CountsOver
  <2>2. CASE pos = 10 BY <1>1, <2>2, CountsReset
  <2> QED BY <2>1, <2>2
<1>6. Backed(outputs') BY <1>1 DEF Shapes
<1> QED BY <1>1, <1>2, <1>4, <1>5, <1>6, FullPhase DEF Quiet

LEMMA EarlyOutputs ==
  ASSUME NEW pos \in 1 .. 13
  PROVE  \A o, w, b, k : OutputsAre(o, w, b, pos, k)
<1>1. \A s \in SplitNames : pos < TransformAt[s] BY TransformPlaces
<1> QED BY <1>1, TransformPlaces DEF OutputsAre

(* One more chunk of the phase.                                            *)
LEMMA StayAt ==
  ASSUME NEW pos \in 1 .. 19, NEW k \in Nat, PlanAt(pos, k), plan' = plan,
         cursor' = cursor + 1
  PROVE  PlanAt(pos, k + 1)'
BY FullSame DEF PlanAt

(* What a reading phase has before it.                                     *)
LEMMA ReadsChunk ==
  ASSUME PlanSound, Ready, raw \in DataSets, stats \in StatsType, CountChunk
  PROVE  /\ Phase.split \in SplitNames /\ Chunk \in ChunksOf(Phase.split)
         /\ Clean \in Seq(Rows) /\ Len(Clean) \in Nat
         /\ stats' \in StatsType
         /\ \A s \in SplitNames : stats'[s].cleaned = stats[s].cleaned +
              (IF s = Phase.split THEN Len(Clean) ELSE 0)
<1>1. Phase.split \in SplitNames /\ Chunk \in ChunksOf(Phase.split) /\ Clean \in Seq(Rows)
  BY PhaseTyped
<1>2. Len(Clean) \in Nat BY <1>1, SeqAsFunction
<1>3. Chunk.rows \in Seq(RawRows) BY <1>1 DEF ChunksOf
<1>4. /\ stats' \in StatsType
      /\ \A s \in SplitNames : stats'[s].cleaned = stats[s].cleaned +
           (IF s = Phase.split THEN Len(Clean) ELSE 0)
  BY <1>1, <1>3, CountChunkAdds
<1> QED BY <1>1, <1>2, <1>4

(* The chunk a phase reads, by its position in the program.                *)
LEMMA ReadsAt ==
  ASSUME PlanSound, Ready, raw \in DataSets, NEW pos \in 1 .. 19, NEW k \in Nat,
         PlanAt(pos, k), NEW s \in SplitNames, Phase.split = s
  PROVE  /\ k + 1 <= Len(Chunks(s)) /\ Chunk = Chunks(s)[k + 1]
         /\ Clean = CleanChunk(Chunks(s)[k + 1].rows)
         /\ cursor = Len(Chunks(Phase.split)) => k + 1 = Len(Chunks(s))
<1>1. cursor = k + 1 BY Place
<1>2. cursor <= Len(Chunks(s)) BY DEF PlanSound
<1> QED BY <1>1, <1>2 DEF Chunk, Clean

LEMMA FitFull ==
  ASSUME HInv, FInv, raw' = raw, FitChunk
  PROVE  FInv'
<1>1. /\ status = "running" /\ PlanSound /\ PrepTyped /\ Ready /\ raw \in DataSets
      /\ Shapes /\ stats \in StatsType
  BY RunningReady DEF FitChunk, Kinds, FInv, Shapes
<1>2. /\ outputs' = outputs /\ program' = program /\ written' = {} /\ artifacts' = artifacts
      /\ scaler' = scaler (+) BagOf(ExtractFeatures(Clean)) /\ NextChunk(Len(Clean))
      /\ CountChunk /\ Phase.kind = "fit"
  BY DEF FitChunk, At
<1>3. /\ Phase.split \in SplitNames /\ Clean \in Seq(Rows) /\ Len(Clean) \in Nat
      /\ stats' \in StatsType
      /\ \A s \in SplitNames : stats'[s].cleaned = stats[s].cleaned +
           (IF s = Phase.split THEN Len(Clean) ELSE 0)
  BY <1>1, <1>2, ReadsChunk
<1>4. Shapes' BY <1>1, <1>2, <1>3, ShapesNext DEF Shapes
<1> DEFINE over == \/ cursor = Len(Chunks(Phase.split))
                   \/ Len(Clean) > 0 /\ Phase.limit > 0 /\ total + Len(Clean) >= Phase.limit
           stays == /\ status' = "running" /\ plan' = plan /\ cursor' = cursor + 1
                    /\ total' = total + Len(Clean)
<1>5. stays \/ (NextPhase /\ over) BY <1>1, <1>2, <1>3, NextChunkSound
<1> HIDE DEF over
<1>6. status' = "done" => plan' = <<>> BY <1>1, <1>5, DoneAtEnd
<1>7. ASSUME program = "full" PROVE FullSomewhere'
  <2>1. PICK pos \in 1 .. 19, k \in Nat : FullAt(pos, k)
    BY <1>1, <1>7 DEF FInv, FullSomewhere
  <2>2. PlanAt(pos, k) /\ ScalerIs(scaler, total, pos, k) /\ CountsAre(stats, pos, k)
    BY <2>1 DEF FullAt
  <2>3. pos \in 1 .. 18 /\ Phase = Full[pos] BY <1>1, <2>2, Place
  <2>4. /\ pos \in {3, 11} /\ Phase.split = "train" /\ "train" \in SplitNames
        /\ pos = 3 => Phase.limit = SampleSize
        /\ pos = 11 => Phase.limit = 0
    BY <1>2, <2>3, KindAt DEF SplitNames
  <2>5. /\ k + 1 <= Len(Chunks("train")) /\ k + 1 \in Nat
        /\ Clean = CleanChunk(Chunks("train")[k + 1].rows)
        /\ cursor = Len(Chunks(Phase.split)) => k + 1 = Len(Chunks("train"))
    BY <1>1, <2>2, <2>4, ReadsAt
  <2>6. ScalerIs(scaler', total + Len(Clean), pos, k + 1)
    <3>1. scaler \in FeatureBags BY <1>1 DEF PrepTyped
    <3> QED BY <1>1, <1>2, <2>2, <2>4, <2>5, <3>1, ScalerRead
  <2>7. scaler' \in FeatureBags
    <3>1. BagOf(ExtractFeatures(Clean)) \in FeatureBags BY <1>3, FeaturesTyped, BagTyped
    <3> QED BY <1>1, <1>2, <3>1, PlusTyped DEF PrepTyped
  <2>8. CountsAre(stats', pos, k + 1)
    <3>1. CASE pos = 3 BY <3>1 DEF CountsAre
    <3>2. CASE pos = 11
      <4>1. SplitOf[pos] = "train" BY <3>2, SplitOfPlaces
      <4>2. pos \in {11, 14, 15, 16} BY <3>2
      <4>3. \A s \in SplitNames : stats'[s].cleaned = stats[s].cleaned +
              (IF s = SplitOf[pos] THEN Len(CleanChunk(Chunks(s)[k + 1].rows)) ELSE 0)
        BY <1>3, <2>4, <2>5, <4>1
      <4> QED BY <1>1, <1>3, <2>2, <2>5, <4>1, <4>2, <4>3, CountsRead
    <3> QED BY <2>4, <3>1, <3>2
  <2>9. pos \in 1 .. 13 /\ pos + 1 \in 1 .. 13 BY <2>4
  <2>10. \A o, w, b, j : OutputsAre(o, w, b, pos, j) BY <2>9, EarlyOutputs
  <2>11. \A a, b, st : ArtifactsAre(a, b, st, pos) /\ ArtifactsAre(a, b, st, pos + 1)
    BY <2>9 DEF ArtifactsAre
  <2>12. CASE stays
    <3>1. PlanAt(pos, k + 1)' BY <2>2, <2>12, StayAt
    <3>2. total' = total + Len(Clean) BY <2>12
    <3>3. FullAt(pos, k + 1)' BY <2>6, <2>8, <2>10, <2>11, <3>1, <3>2, FullAtNext
    <3> QED BY <2>5, <3>3 DEF FullSomewhere
  <2>13. CASE NextPhase /\ over
    <3>1. FitOver(total + Len(Clean), pos, k + 1)
      BY <2>4, <2>5, <2>13 DEF FitOver, over
    <3>2. AllRead(pos, k + 1) BY <2>4, <3>1, SplitOfPlaces DEF AllRead, FitOver
    <3>3. CountsAre(stats', pos + 1, 0)
      BY <1>1, <2>3, <2>4, <2>5, <2>8, <3>2, CountsOver
    <3>4. Backed(outputs') BY <1>1, <1>2 DEF Shapes
    <3> HIDE DEF stays
    <3> QED BY <1>1, <2>2, <2>5, <2>6, <2>7, <2>10, <2>11, <2>13, <3>1, <3>2, <3>3, <3>4,
               FullPhase
  <2> QED BY <1>5, <2>12, <2>13
<1> QED BY <1>2, <1>4, <1>6, <1>7 DEF FInv

(* Only a file with a clean row gets an output.                            *)
LEMMA BackedNext ==
  ASSUME HInv, FInv, raw' = raw, TransformChunk
  PROVE  /\ Backed(outputs')
         /\ ReadInto(outputs, written, scaler, Phase.split, Chunk, outputs',
                     IF Clean = <<>> THEN written ELSE written \cup {Chunk.file})
<1> DEFINE s == Phase.split
           f == Chunk.file
           rows == Opened \o Scaled(Clean, scaler)
<1>1. /\ status = "running" /\ PlanSound /\ OpenedBy /\ PrepTyped /\ Ready
      /\ raw \in DataSets /\ OutputsTyped /\ Backed(outputs)
  BY RunningReady DEF TransformChunk, Kinds, PrepTyped, FInv, Shapes
<1>2. /\ Phase.kind = "transform"
      /\ outputs' = IF Clean = <<>> THEN outputs ELSE [outputs EXCEPT ![s][f] = rows]
  BY DEF TransformChunk, At
<1>3. f \in Files(s) /\ s \in SplitNames /\ rows \in Seq(OutRows)
  BY <1>1, <1>2, AddedTyped
<1>4. Clean # <<>> => CleanRows(s, f) # <<>>
  <2>1. /\ cursor \in DOMAIN Chunks(s) /\ Chunks(s) \in Seq(ChunksOf(s))
    BY <1>1, <1>3, PhaseTyped, ChunksTyped
  <2>2. cursor \in 1 .. Len(Chunks(s)) BY <2>1, SeqAsFunction
  <2>3. Chunks(s)[cursor].file = f /\ CleanChunk(Chunks(s)[cursor].rows) = Clean
    BY DEF Chunk, Clean
  <2> QED BY <1>1, <1>3, <2>2, <2>3, FileReadStep
<1>5. rows = (IF f \in written THEN outputs[s][f] ELSE <<>>) \o Scaled(Clean, scaler)
  BY DEF Opened
<1> HIDE DEF s, f, rows
<1>6. /\ Clean # <<>> => outputs'[s][f] = rows
      /\ \A t \in SplitNames : \A g \in Files(t) :
           Clean = <<>> \/ t # s \/ g # f => outputs'[t][g] = outputs[t][g]
  <2>1. CASE Clean = <<>> BY <1>2, <2>1
  <2>2. CASE Clean # <<>>
    <3>1. outputs' = [outputs EXCEPT ![s][f] = rows] BY <1>2, <2>2
    <3>2. f \in Files(s) /\ s \in SplitNames /\ rows \in Seq(OutRows) BY <1>3
    <3>3. OutputsTyped BY <1>1
    <3>4. /\ OutputsTyped' /\ outputs'[s][f] = rows
          /\ \A t \in SplitNames : \A g \in Files(t) :
               t # s \/ g # f => outputs'[t][g] = outputs[t][g]
      BY <3>1, <3>2, <3>3, SetTyped
    <3> QED BY <2>2, <3>4
  <2> QED BY <2>1, <2>2
<1>7. Backed(outputs')
  <2> SUFFICES ASSUME NEW t \in SplitNames, NEW g \in Files(t), outputs'[t][g] # <<>>
               PROVE  CleanRows(t, g) # <<>>
    BY DEF Backed
  <2>1. CASE Clean # <<>> /\ t = s /\ g = f BY <1>4, <2>1
  <2>2. CASE ~ (Clean # <<>> /\ t = s /\ g = f) BY <1>1, <1>6, <2>2 DEF Backed
  <2> QED BY <2>1, <2>2
<1>8. ReadInto(outputs, written, scaler, s, Chunk, outputs',
               IF Clean = <<>> THEN written ELSE written \cup {f})
  BY <1>5, <1>6 DEF ReadInto, Clean, f
<1> QED BY <1>7, <1>8 DEF s, f

LEMMA TransformFull ==
  ASSUME HInv, FInv, raw' = raw, TransformChunk
  PROVE  FInv'
<1> DEFINE more == IF Clean = <<>> THEN written ELSE written \cup {Chunk.file}
<1>1. /\ status = "running" /\ PlanSound /\ PrepTyped /\ Ready /\ raw \in DataSets
      /\ Shapes /\ stats \in StatsType /\ scaler \in FeatureBags
  BY RunningReady DEF TransformChunk, Kinds, FInv, Shapes, PrepTyped
<1>2. /\ program' = program /\ artifacts' = artifacts /\ scaler' = scaler
      /\ NextChunk(Len(Clean)) /\ CountChunk /\ Phase.kind = "transform"
      /\ plan' = plan => written' = more
  BY DEF TransformChunk, At
<1>3. /\ Phase.split \in SplitNames /\ Clean \in Seq(Rows) /\ Len(Clean) \in Nat
      /\ stats' \in StatsType
      /\ \A s \in SplitNames : stats'[s].cleaned = stats[s].cleaned +
           (IF s = Phase.split THEN Len(Clean) ELSE 0)
  BY <1>1, <1>2, ReadsChunk
<1>4. /\ Backed(outputs')
      /\ ReadInto(outputs, written, scaler, Phase.split, Chunk, outputs', more)
  BY BackedNext
<1> HIDE DEF more
<1>5. Shapes' BY <1>1, <1>2, <1>3, <1>4, ShapesNext DEF Shapes
<1> DEFINE over == \/ cursor = Len(Chunks(Phase.split))
                   \/ Len(Clean) > 0 /\ Phase.limit > 0 /\ total + Len(Clean) >= Phase.limit
           stays == /\ status' = "running" /\ plan' = plan /\ cursor' = cursor + 1
                    /\ total' = total + Len(Clean)
<1>6. stays \/ (NextPhase /\ over) BY <1>1, <1>2, <1>3, NextChunkSound
<1> HIDE DEF over
<1>7. status' = "done" => plan' = <<>> BY <1>1, <1>6, DoneAtEnd
<1>8. ASSUME program = "full" PROVE FullSomewhere'
  <2>1. PICK pos \in 1 .. 19, k \in Nat : FullAt(pos, k)
    BY <1>1, <1>8 DEF FInv, FullSomewhere
  <2>2. /\ PlanAt(pos, k) /\ ScalerIs(scaler, total, pos, k) /\ CountsAre(stats, pos, k)
        /\ OutputsAre(outputs, written, scaler, pos, k)
    BY <2>1 DEF FullAt
  <2>3. pos \in 1 .. 18 /\ Phase = Full[pos] BY <1>1, <2>2, Place
  <2>4. pos \in {4, 5, 6, 14, 15, 16} BY <1>2, <2>3, KindAt
  <2>5. /\ k + 1 \in Nat /\ pos # 10 /\ pos # 3 /\ pos # 11
        /\ \A a, b, st : ArtifactsAre(a, b, st, pos) /\ ArtifactsAre(a, b, st, pos + 1)
    BY <2>4 DEF ArtifactsAre
  <2>6. \A t, i : ScalerIs(scaler', t, pos, i) BY <1>2, <2>2, <2>5 DEF ScalerIs
  <2>7. /\ CountsAre(stats', pos, k + 1)
        /\ OutputsAre(outputs', more, scaler', pos, k + 1)
        /\ over => AllRead(pos, k + 1)
    <3>1. CASE pos \in {4, 5, 6}
      <4>1. pos \in 1 .. 13 /\ pos < 11 /\ pos \notin {11, 14, 15, 16} BY <3>1
      <4> QED BY <4>1, EarlyOutputs DEF CountsAre, AllRead
    <3>2. CASE pos \in {14, 15, 16}
      <4> DEFINE s == SplitOf[pos]
      <4>1. s \in SplitNames /\ pos = TransformAt[s] BY <3>2, SplitOfPlaces
      <4>2. Phase.split = s /\ Phase.limit = 0 BY <2>3, <4>1, KindAt
      <4>3. pos \in {11, 14, 15, 16} BY <3>2
      <4>4. /\ k + 1 <= Len(Chunks(s)) /\ Chunk = Chunks(s)[k + 1]
            /\ Clean = CleanChunk(Chunks(s)[k + 1].rows)
            /\ cursor = Len(Chunks(Phase.split)) => k + 1 = Len(Chunks(s))
        BY <1>1, <2>2, <4>1, <4>2, ReadsAt
      <4> HIDE DEF s
      <4>5. \A t \in SplitNames : stats'[t].cleaned = stats[t].cleaned +
              (IF t = s THEN Len(CleanChunk(Chunks(t)[k + 1].rows)) ELSE 0)
        BY <1>3, <4>2, <4>4
      <4>6. CountsAre(stats', pos, k + 1)
        BY <1>1, <1>3, <2>2, <4>3, <4>4, <4>5, CountsRead DEF s
      <4>7. ReadInto(outputs, written, scaler, s, Chunks(s)[k + 1], outputs', more)
        BY <1>4, <4>2, <4>4
      <4>8. OutputsAre(outputs', more, scaler, pos, k + 1)
        BY <1>1, <2>2, <3>2, <4>4, <4>7, OutputsRead DEF s
      <4>9. over => AllRead(pos, k + 1) BY <4>2, <4>4 DEF over, AllRead, s
      <4> QED BY <1>2, <4>6, <4>8, <4>9
    <3> QED BY <2>4, <3>1, <3>2
  <2>8. CASE stays
    <3>1. PlanAt(pos, k + 1)' BY <2>2, <2>8, StayAt
    <3>2. written' = more BY <1>2, <2>8
    <3>3. FullAt(pos, k + 1)' BY <2>5, <2>6, <2>7, <3>1, <3>2, FullAtNext
    <3> QED BY <2>5, <3>3 DEF FullSomewhere
  <2>9. CASE NextPhase /\ over
    <3>1. FitOver(total, pos, k + 1) BY <2>5 DEF FitOver
    <3>2. AllRead(pos, k + 1) BY <2>7, <2>9
    <3>3. CountsAre(stats', pos + 1, 0)
      BY <1>1, <2>3, <2>5, <2>7, <3>2, CountsOver
    <3> HIDE DEF stays
    <3> QED BY <1>1, <1>2, <1>4, <2>2, <2>5, <2>6, <2>7, <2>9, <3>1, <3>2, <3>3, FullPhase
  <2> QED BY <1>6, <2>8, <2>9
<1> QED BY <1>2, <1>5, <1>7, <1>8 DEF FInv

-------------------------------------------------------------------------------
LEMMA FInit == PrepInit => FInv
<1> SUFFICES ASSUME PrepInit PROVE FInv OBVIOUS
<1>1. /\ raw \in DataSets /\ status = "off" /\ stats = NoStats
      /\ artifacts = [scaler |-> EmptyBag, report |-> NoStats]
      /\ outputs = [s \in SplitNames |-> [f \in Files(s) |-> <<>>]]
  BY DEF PrepInit
<1>2. NoStats \in StatsType BY DEF NoStats, StatsType
<1>3. Backed(outputs) BY <1>1 DEF Backed
<1>4. Shapes BY <1>1, <1>2, <1>3, EmptyTyped DEF Shapes
<1> QED BY <1>1, <1>4 DEF FInv

(* The end of a process, and the end of a phase that reads no chunk.       *)
LEMMA EndFull ==
  ASSUME FInv, raw' = raw, NEW o \in {"off", "failed"}, EndWith(o)
  PROVE  FInv'
<1>1. /\ outputs' = outputs /\ artifacts' = artifacts /\ status' = o /\ stats' = NoStats
      /\ Shapes
  BY DEF EndWith, FInv
<1>2. NoStats \in StatsType BY DEF NoStats, StatsType
<1>3. Shapes' BY <1>1, <1>2, ShapesNext DEF Shapes
<1> QED BY <1>1, <1>3 DEF FInv

LEMMA QuietFull ==
  ASSUME HInv, FInv, status = "running", Ready, NextPhase, raw' = raw, program' = program,
         scaler' = scaler, outputs' = outputs, stats' \in StatsType,
         artifacts' \in [scaler : FeatureBags, report : StatsType],
         ASSUME NEW pos \in 1 .. 18, NEW k \in Nat, FullAt(pos, k), Phase = Full[pos]
         PROVE  /\ Quiet(pos)
                /\ \/ stats' = stats /\ pos # 10
                   \/ stats' = NoStats /\ pos = 10
                /\ ArtifactsAre(artifacts', scaler', stats', pos + 1)
  PROVE  FInv'
<1>1. PlanSound /\ Shapes BY DEF HInv, FInv
<1>2. Shapes' BY <1>1, ShapesNext DEF Shapes
<1>3. status' = "done" => plan' = <<>> BY <1>1, DoneAtEnd
<1>4. ASSUME program = "full" PROVE FullSomewhere'
  <2>1. PICK pos \in 1 .. 19, k \in Nat : FullAt(pos, k)
    BY <1>4 DEF FInv, FullSomewhere
  <2>2. PlanAt(pos, k) BY <2>1 DEF FullAt
  <2>3. pos \in 1 .. 18 /\ Phase = Full[pos] BY <1>1, <2>2, Place
  <2> QED BY <1>4, <2>1, <2>3, QuietPhase
<1> QED BY <1>2, <1>3, <1>4 DEF FInv

LEMMA FNext == HInv /\ FInv /\ [PrepNext]_prepVars => FInv'
<1> SUFFICES ASSUME HInv, FInv, [PrepNext]_prepVars PROVE FInv' OBVIOUS
<1>0. /\ stats \in StatsType /\ artifacts \in [scaler : FeatureBags, report : StatsType]
      /\ Shapes /\ raw \in DataSets /\ scaler \in FeatureBags
      /\ status = "running" => PlanSound
  BY DEF HInv, PrepTyped, FInv, Shapes
<1>1. ASSUME raw' = raw, NEW p \in {"sample", "full"}, Launch(p) PROVE FInv'
  <2>1. /\ outputs' = outputs /\ artifacts' = artifacts /\ program' = p /\ stats' = NoStats
        /\ scaler' = EmptyBag /\ status' = "running" /\ plan' = Programs[p] /\ cursor' = 1
    BY <1>1 DEF Launch
  <2>2. NoStats \in StatsType BY DEF NoStats, StatsType
  <2>3. Shapes' BY <1>0, <1>1, <2>1, <2>2, ShapesNext DEF Shapes
  <2>4. ASSUME p = "full" PROVE FullSomewhere'
    <3>1. plan' = Full BY <2>1, <2>4 DEF Full
    <3>2. Len(Full) = 18 BY FullPhases
    <3>3. PlanAt(1, 0)'
      <4>1. 1 + Len(plan') = 19 /\ 0 + 1 = cursor' BY <2>1, <3>1, <3>2
      <4>2. \A i \in 1 .. Len(plan') : plan'[i] = Full[1 + i - 1] BY <3>1, <3>2
      <4> QED BY <4>1, <4>2, FullSame DEF PlanAt
    <3>4. \A t : ScalerIs(scaler', t, 1, 0) BY <2>1 DEF ScalerIs
    <3>5. \A o, w, b : OutputsAre(o, w, b, 1, 0) BY EarlyOutputs
    <3>6. \A a, b, st : CountsAre(st, 1, 0) /\ ArtifactsAre(a, b, st, 1)
      BY DEF CountsAre, ArtifactsAre
    <3>7. FullAt(1, 0)' BY <1>1, <3>3, <3>4, <3>5, <3>6, FullAtNext
    <3>8. 1 \in 1 .. 19 /\ 0 \in Nat OBVIOUS
    <3> QED BY <3>7, <3>8 DEF FullSomewhere
  <2> QED BY <2>1, <2>3, <2>4 DEF FInv
<1>2. ASSUME raw' = raw, LookForFiles PROVE FInv'
  <2>1. status = "running" /\ Phase.kind = "lookForFiles" BY <1>2 DEF LookForFiles, At
  <2>2. CASE \A s \in SplitNames : Files(s) # {}
    <3>1. /\ NextPhase /\ program' = program /\ scaler' = scaler /\ outputs' = outputs
          /\ stats' = stats /\ artifacts' = artifacts
      BY <1>2, <2>2 DEF LookForFiles
    <3>2. Ready BY <2>2 DEF Ready
    <3>3. ASSUME NEW pos \in 1 .. 18, NEW k \in Nat, FullAt(pos, k), Phase = Full[pos]
          PROVE  /\ Quiet(pos)
                 /\ \/ stats' = stats /\ pos # 10
                    \/ stats' = NoStats /\ pos = 10
                 /\ ArtifactsAre(artifacts', scaler', stats', pos + 1)
      <4>1. pos = 1 BY <2>1, <3>3, KindAt
      <4> QED BY <3>1, <4>1 DEF Quiet, ArtifactsAre
    <3> QED BY <1>0, <1>2, <2>1, <3>1, <3>2, <3>3, QuietFull
  <2>3. CASE ~ \A s \in SplitNames : Files(s) # {}
    <3>1. EndWith("failed") BY <1>2, <2>3 DEF LookForFiles
    <3> QED BY <1>2, <3>1, EndFull
  <2> QED BY <2>2, <2>3
<1>3. ASSUME raw' = raw, ResetStats PROVE FInv'
  <2>1. status = "running" /\ Ready BY <1>3, RunningReady DEF ResetStats, Kinds
  <2>2. /\ NextPhase /\ program' = program /\ scaler' = scaler /\ outputs' = outputs
        /\ stats' = NoStats /\ artifacts' = artifacts /\ Phase.kind = "reset"
    BY <1>3 DEF ResetStats, At
  <2>3. NoStats \in StatsType BY DEF NoStats, StatsType
  <2>4. Shapes' BY <1>0, <1>3, <2>2, <2>3, ShapesNext DEF Shapes
  <2>5. status' = "done" => plan' = <<>> BY <1>0, <2>1, <2>2, DoneAtEnd
  <2>6. ASSUME program = "full" PROVE FullSomewhere'
    <3>1. PICK pos \in 1 .. 19, k \in Nat : FullAt(pos, k)
      BY <2>1, <2>6 DEF FInv, FullSomewhere
    <3>2. /\ PlanAt(pos, k) /\ ScalerIs(scaler, total, pos, k) /\ CountsAre(stats, pos, k)
          /\ OutputsAre(outputs, written, scaler, pos, k)
      BY <3>1 DEF FullAt
    <3>3. pos \in 1 .. 18 /\ Phase = Full[pos] BY <1>0, <2>1, <3>2, Place
    <3>4. pos \in {2, 10} BY <2>2, <3>3, KindAt
    <3>5. /\ CountsAre(stats', pos + 1, 0)
      <4>1. CASE pos = 2 BY <4>1 DEF CountsAre
      <4>2. CASE pos = 10
        <5>1. pos + 1 = 11 BY <4>2
        <5> QED BY <1>0, <2>2, <5>1, CountsReset
      <4> QED BY <3>4, <4>1, <4>2
    <3>6. /\ FitOver(total, pos, k) /\ AllRead(pos, k) /\ pos # 3
          /\ \A a, b, st : ArtifactsAre(a, b, st, pos + 1)
      BY <3>4 DEF FitOver, AllRead, ArtifactsAre
    <3>7. Backed(outputs') BY <1>0, <2>2 DEF Shapes
    <3> QED BY <1>0, <1>3, <2>1, <2>2, <3>2, <3>5, <3>6, <3>7, FullPhase
  <2> QED BY <2>2, <2>4, <2>5, <2>6 DEF FInv
<1>4. ASSUME raw' = raw, FitChunk PROVE FInv' BY <1>4, FitFull
<1>5. ASSUME raw' = raw, TransformChunk PROVE FInv' BY <1>5, TransformFull
<1>6. ASSUME raw' = raw, TransformFails PROVE FInv' BY <1>6, EndFull DEF TransformFails
<1>7. ASSUME raw' = raw, SaveScaler PROVE FInv'
  <2>1. status = "running" /\ Ready BY <1>7, RunningReady DEF SaveScaler, Kinds
  <2>2. /\ NextPhase /\ program' = program /\ scaler' = scaler /\ outputs' = outputs
        /\ stats' = stats /\ artifacts' = [artifacts EXCEPT !.scaler = scaler]
        /\ Phase.kind = "saveScaler"
    BY <1>7 DEF SaveScaler, At
  <2>3. /\ artifacts' \in [scaler : FeatureBags, report : StatsType]
        /\ artifacts'.scaler = scaler
    BY <1>0, <2>2
  <2>4. ASSUME NEW pos \in 1 .. 18, NEW k \in Nat, FullAt(pos, k), Phase = Full[pos]
        PROVE  /\ Quiet(pos)
               /\ \/ stats' = stats /\ pos # 10
                  \/ stats' = NoStats /\ pos = 10
               /\ ArtifactsAre(artifacts', scaler', stats', pos + 1)
    <3>1. pos \in {7, 12, 17} BY <2>2, <2>4, KindAt
    <3> QED BY <2>2, <2>3, <3>1 DEF Quiet, ArtifactsAre
  <2> QED BY <1>0, <1>7, <2>1, <2>2, <2>3, <2>4, QuietFull
<1>8. ASSUME raw' = raw, SaveReport PROVE FInv'
  <2>1. status = "running" /\ Ready BY <1>8, RunningReady DEF SaveReport, Kinds
  <2>2. /\ NextPhase /\ program' = program /\ scaler' = scaler /\ outputs' = outputs
        /\ stats' = stats /\ artifacts' = [artifacts EXCEPT !.report = stats]
        /\ Phase.kind = "saveReport"
    BY <1>8 DEF SaveReport, At
  <2>3. /\ artifacts' \in [scaler : FeatureBags, report : StatsType]
        /\ artifacts'.scaler = artifacts.scaler /\ artifacts'.report = stats
    BY <1>0, <2>2
  <2>4. ASSUME NEW pos \in 1 .. 18, NEW k \in Nat, FullAt(pos, k), Phase = Full[pos]
        PROVE  /\ Quiet(pos)
               /\ \/ stats' = stats /\ pos # 10
                  \/ stats' = NoStats /\ pos = 10
               /\ ArtifactsAre(artifacts', scaler', stats', pos + 1)
    <3>1. pos \in {8, 13, 18} BY <2>2, <2>4, KindAt
    <3>2. ArtifactsAre(artifacts, scaler, stats, pos) BY <2>4 DEF FullAt
    <3> QED BY <2>2, <2>3, <3>1, <3>2 DEF Quiet, ArtifactsAre
  <2> QED BY <1>0, <1>8, <2>1, <2>2, <2>3, <2>4, QuietFull
<1>9. ASSUME raw' = raw, CheckOutputs PROVE FInv'
  <2>1. status = "running" /\ Ready BY <1>9, RunningReady DEF CheckOutputs, Kinds
  <2>2. Phase.kind = "checkOutputs" BY <1>9 DEF CheckOutputs, At
  <2>3. CASE EndWith("failed") BY <1>9, <2>3, EndFull
  <2>4. CASE /\ NextPhase /\ program' = program /\ scaler' = scaler /\ outputs' = outputs
             /\ stats' = stats /\ artifacts' = artifacts
    <3>1. ASSUME NEW pos \in 1 .. 18, NEW k \in Nat, FullAt(pos, k), Phase = Full[pos]
          PROVE  /\ Quiet(pos)
                 /\ \/ stats' = stats /\ pos # 10
                    \/ stats' = NoStats /\ pos = 10
                 /\ ArtifactsAre(artifacts', scaler', stats', pos + 1)
      <4>1. pos = 9 BY <2>2, <3>1, KindAt
      <4> QED BY <2>4, <4>1 DEF Quiet, ArtifactsAre
    <3> QED BY <1>0, <1>9, <2>1, <2>4, <3>1, QuietFull
  <2> QED BY <1>9, <2>3, <2>4 DEF CheckOutputs
<1>10. ASSUME raw' = raw, Kill PROVE FInv' BY <1>10, EndFull DEF Kill
<1>11. ASSUME UNCHANGED prepVars PROVE FInv'
  <2>1. /\ raw' = raw /\ status' = status /\ program' = program /\ outputs' = outputs
        /\ plan' = plan /\ cursor' = cursor /\ total' = total /\ written' = written
        /\ scaler' = scaler /\ stats' = stats /\ artifacts' = artifacts
    BY <1>11 DEF prepVars, memory
  <2>2. Shapes' BY <1>0, <2>1, ShapesNext DEF Shapes
  <2>3. ASSUME NEW pos \in 1 .. 19, NEW k \in Nat, FullAt(pos, k) PROVE FullAt(pos, k)'
    <3>1. PlanAt(pos, k)' BY <2>1, <2>3, FullSame DEF PlanAt, FullAt
    <3> QED BY <2>1, <2>3, <3>1, FullAtNext DEF FullAt
  <2>4. FullSomewhere => FullSomewhere' BY <2>3 DEF FullSomewhere
  <2> QED BY <2>1, <2>2, <2>4 DEF FInv
<1> QED BY <1>1, <1>2, <1>3, <1>4, <1>5, <1>6, <1>7, <1>8, <1>9, <1>10, <1>11 DEF PrepNext

(* What the invariant says at the end of the program, chunk by chunk.      *)
LEMMA FullEnd ==
  ASSUME HInv, FInv, FullPassDone
  PROVE  /\ \A s \in SplitNames : \A f \in Files(s) :
              outputs[s][f] = Scaled(CleanRows(s, f), artifacts.scaler)
         /\ \E sample \in SampleBags : artifacts.scaler =
              BagOf(ExtractFeatures(CleanSplit("train"))) (+) sample
         /\ \A s \in SplitNames : artifacts.report[s].cleaned =
              (IF s = "train" THEN 2 ELSE 1) * Len(CleanSplit(s))
<1>0. status = "done" /\ program = "full" BY DEF FullPassDone
<1>1. raw \in DataSets /\ plan = <<>> BY <1>0 DEF HInv, PrepTyped, FInv
<1>2. PICK pos \in 1 .. 19, k \in Nat : FullAt(pos, k) BY <1>0 DEF FInv, FullSomewhere
<1>3. pos = 19
  <2>1. Len(plan) = 0 BY <1>1
  <2>2. pos + Len(plan) = 19 BY <1>2 DEF FullAt, PlanAt
  <2> QED BY <2>1, <2>2
<1>4. artifacts.scaler = scaler /\ artifacts.report = stats
  BY <1>2, <1>3 DEF FullAt, ArtifactsAre
<1>5. \A s \in SplitNames : Complete(outputs, scaler, s)
  <2>1. \A s \in SplitNames : 19 > TransformAt[s] BY TransformPlaces
  <2> QED BY <1>2, <1>3, <2>1 DEF FullAt, OutputsAre
<1>6. \A s \in SplitNames : \A f \in Files(s) :
        outputs[s][f] = Scaled(CleanRows(s, f), artifacts.scaler)
  BY <1>4, <1>5 DEF Complete
<1>7. \E sample \in SampleBags :
        artifacts.scaler = BagOf(ExtractFeatures(CleanSplit("train"))) (+) sample
  <2> DEFINE X(sample) == FeatureBag(CleanSplit("train")) (+) sample
  <2>1. \E sample \in SampleBags : scaler = X(sample)
    BY <1>2, <1>3 DEF FullAt, ScalerIs
  <2>2. \A sample : X(sample) = BagOf(ExtractFeatures(CleanSplit("train"))) (+) sample
    BY DEF FeatureBag
  <2> HIDE DEF X
  <2> QED BY <1>4, <2>1, <2>2
<1>8. ASSUME NEW s \in SplitNames
      PROVE  artifacts.report[s].cleaned =
               (IF s = "train" THEN 2 ELSE 1) * Len(CleanSplit(s))
  <2> DEFINE n == Len(CleanSplit(s))
  <2>1. n \in Nat
    <3>1. /\ Read(s, Len(Chunks(s))) = CleanSplit(s)
          /\ Len(Chunks(s)) \in Nat
          /\ \A i \in 0 .. Len(Chunks(s)) : Read(s, i) \in Seq(Rows)
      BY <1>1, ReadStep
    <3>2. CleanSplit(s) \in Seq(Rows) BY <3>1
    <3> QED BY <3>2, SeqAsFunction
  <2>2. 19 > TransformAt[s] /\ TransformAt[s] # 19 BY TransformPlaces
  <2>3. CountedAt(s, 11, 19, k) = n /\ CountedAt(s, TransformAt[s], 19, k) = n
    BY <2>2, TransformPlaces DEF CountedAt
  <2>4. stats[s].cleaned = (IF s = "train" THEN n ELSE 0) + n
    BY <1>2, <1>3, <2>3 DEF FullAt, CountsAre
  <2> HIDE DEF n
  <2>5. stats[s].cleaned = (IF s = "train" THEN 2 ELSE 1) * n BY <2>1, <2>4
  <2> QED BY <1>4, <2>5 DEF n
<1> QED BY <1>6, <1>7, <1>8

(* The elements of a concatenation, and of lists flattened.                *)
LEMMA ConcatElements ==
  ASSUME NEW V, NEW a \in Seq(V), NEW b \in Seq(V)
  PROVE  ToSet(a \o b) = ToSet(a) \cup ToSet(b)
<1> DEFINE c == a \o b
           m == Len(a)
           n == Len(b)
<1>1. /\ m \in Nat /\ n \in Nat /\ DOMAIN a = 1 .. m /\ DOMAIN b = 1 .. n
      /\ DOMAIN c = 1 .. m + n
      /\ \A i \in 1 .. m : c[i] = a[i]
      /\ \A i \in 1 .. n : c[m + i] = b[i]
  BY ConcatParts, SeqAsFunction
<1> HIDE DEF c, m, n
<1>2. ToSet(a) \subseteq ToSet(c)
  <2>1. \A i \in DOMAIN a : i \in DOMAIN c /\ c[i] = a[i] BY <1>1
  <2> QED BY <2>1 DEF ToSet
<1>3. ToSet(b) \subseteq ToSet(c)
  <2>1. \A i \in DOMAIN b : m + i \in DOMAIN c /\ c[m + i] = b[i] BY <1>1
  <2> QED BY <2>1, Zenon DEF ToSet
<1>4. ASSUME NEW i \in DOMAIN c PROVE c[i] \in ToSet(a) \cup ToSet(b)
  <2>1. CASE i \in 1 .. m BY <1>1, <2>1 DEF ToSet
  <2>2. CASE i \notin 1 .. m
    <3> DEFINE j == i - m
    <3>1. j \in 1 .. n /\ i = m + j BY <1>1, <2>2
    <3> HIDE DEF j
    <3>2. c[i] = b[j] BY <1>1, <3>1
    <3> QED BY <1>1, <3>1, <3>2 DEF ToSet
  <2> QED BY <2>1, <2>2
<1>5. ToSet(c) \subseteq ToSet(a) \cup ToSet(b) BY <1>4 DEF ToSet
<1> QED BY <1>2, <1>3, <1>5 DEF c

LEMMA FlatElements ==
  ASSUME NEW V, NEW n \in Nat, NEW g \in [1 .. n -> Seq(V)]
  PROVE  ToSet(Flat(g, n)) = UNION {ToSet(g[i]) : i \in 1 .. n}
<1> DEFINE Among(k) == UNION {ToSet(g[i]) : i \in 1 .. k}
           Bad == {k \in Nat : k <= n /\ ToSet(Flat(g, k)) # Among(k)}
<1>1. Bad = {}
  <2> SUFFICES ASSUME Bad # {} PROVE FALSE OBVIOUS
  <2>1. PICK k \in Bad : \A y \in Bad : k <= y
    <3>1. Bad \in SUBSET Nat OBVIOUS
    <3> HIDE DEF Bad
    <3> QED BY <2>1, <3>1, LeastNatural
  <2>2. k \in Nat /\ k <= n /\ ToSet(Flat(g, k)) # Among(k) OBVIOUS
  <2>3. k # 0
    <3>1. Flat(g, 0) = <<>> BY FlatStep
    <3>2. ToSet(<<>>) = {} BY DEF ToSet
    <3>3. Among(0) = {} OBVIOUS
    <3> QED BY <2>2, <3>1, <3>2, <3>3
  <2>4. /\ k - 1 \in Nat /\ k - 1 <= n /\ k \in 1 .. n /\ k - 1 \in 0 .. n
        /\ ~ (k <= k - 1)
    BY <2>2, <2>3
  <2>5. ToSet(Flat(g, k - 1)) = Among(k - 1) BY <2>1, <2>4
  <2>6. /\ Flat(g, k) = Flat(g, k - 1) \o g[k] /\ Flat(g, k - 1) \in Seq(V)
        /\ g[k] \in Seq(V)
    BY <2>4, FlatStep
  <2>7. ToSet(Flat(g, k)) = Among(k - 1) \cup ToSet(g[k])
    BY <2>5, <2>6, ConcatElements
  <2>8. Among(k) = Among(k - 1) \cup ToSet(g[k])
    <3>1. \A i : i \in 1 .. k <=> i \in 1 .. k - 1 \/ i = k BY <2>4
    <3> QED BY <3>1
  <2> QED BY <2>2, <2>7, <2>8
<1>2. n \notin Bad /\ n <= n BY <1>1
<1> QED BY <1>2

(* clean_chunk keeps every valid row: the first of its duplicates stays.   *)
LEMMA CleanElements ==
  ASSUME NEW rows \in Seq(RawRows)
  PROVE  ToSet(CleanChunk(rows)) = ToSet(rows) \ {Invalid}
<1> DEFINE g == [i \in DOMAIN rows |-> IF Keeps(rows, i) THEN <<rows[i]>> ELSE <<>>]
           n == Len(rows)
<1>1. n \in Nat /\ DOMAIN rows = 1 .. n BY SeqAsFunction
<1>2. \A i \in 1 .. n : rows[i] \in RawRows BY ElementOfSeq
<1>3. \A i \in 1 .. n : ToSet(g[i]) = IF Keeps(rows, i) THEN {rows[i]} ELSE {}
  <2> TAKE i \in 1 .. n
  <2>1. ToSet(<<>>) = {} BY DEF ToSet
  <2>2. ToSet(<<rows[i]>>) = {rows[i]} BY DEF ToSet
  <2>3. g[i] = IF Keeps(rows, i) THEN <<rows[i]>> ELSE <<>> BY <1>1
  <2> HIDE DEF g
  <2> QED BY <2>1, <2>2, <2>3
<1>4. g \in [1 .. n -> Seq(RawRows)]
  <2>1. <<>> \in Seq(RawRows) /\ \A r \in RawRows : <<r>> \in Seq(RawRows) OBVIOUS
  <2> QED BY <1>1, <1>2, <2>1
<1>5. CleanChunk(rows) = FlattenSeq(g) BY DEF CleanChunk
<1> HIDE DEF g
<1>6. ToSet(CleanChunk(rows)) = UNION {ToSet(g[i]) : i \in 1 .. n}
  <2>1. FlattenSeq(g) = Flat(g, n) BY <1>1, <1>4, FlattenTyped
  <2>2. ToSet(Flat(g, n)) = UNION {ToSet(g[i]) : i \in 1 .. n}
    <3> HIDE DEF n
    <3> QED BY <1>1, <1>4, FlatElements
  <2> QED BY <1>5, <2>1, <2>2
<1>7. ASSUME NEW i \in 1 .. n, rows[i] # Invalid
      PROVE  \E j \in 1 .. n : Keeps(rows, j) /\ rows[j] = rows[i]
  <2> DEFINE Same == {j \in Nat : 1 <= j /\ j <= n /\ rows[j] = rows[i]}
  <2>1. i \in Same BY <1>1
  <2>2. PICK j \in Same : \A y \in Same : j <= y
    <3>1. Same \in SUBSET Nat /\ Same # {} BY <2>1
    <3> HIDE DEF Same
    <3> QED BY <3>1, LeastNatural
  <2>3. j \in 1 .. n /\ rows[j] = rows[i] BY <1>1
  <2>4. ASSUME NEW y \in 1 .. j - 1 PROVE rows[y] # rows[j]
    <3>1. y \in Nat /\ 1 <= y /\ y <= n /\ ~ (j <= y) BY <1>1, <2>3
    <3>2. y \notin Same BY <2>2, <3>1
    <3> QED BY <2>3, <3>1, <3>2
  <2> QED BY <1>7, <2>3, <2>4 DEF Keeps
<1>8. \A i \in 1 .. n : Keeps(rows, i) => rows[i] # Invalid BY DEF Keeps
<1>9. \A r : r \in ToSet(rows) <=> \E i \in 1 .. n : rows[i] = r BY <1>1 DEF ToSet
<1> HIDE DEF n
<1>10. ASSUME NEW r
       PROVE  r \in ToSet(CleanChunk(rows))
                <=> \E i \in 1 .. n : Keeps(rows, i) /\ rows[i] = r
  <2>1. r \in ToSet(CleanChunk(rows)) <=> \E i \in 1 .. n : r \in ToSet(g[i])
    BY <1>6, Zenon
  <2>2. \A i \in 1 .. n : r \in ToSet(g[i]) <=> Keeps(rows, i) /\ rows[i] = r
    BY <1>3
  <2> QED BY <2>1, <2>2, Zenon
<1>11. \A r : r \in ToSet(CleanChunk(rows)) <=> r \in ToSet(rows) /\ r # Invalid
  BY <1>7, <1>8, <1>9, <1>10
<1> QED BY <1>11

LEMMA CleanRowsElements ==
  ASSUME raw \in DataSets, NEW s \in SplitNames, NEW f \in Files(s)
  PROVE  ToSet(CleanRows(s, f)) = ValidRows(s, f)
<1> DEFINE n == Len(raw[s][f])
           g == [c \in 1 .. n |-> CleanChunk(raw[s][f][c])]
<1>1. /\ n \in Nat /\ DOMAIN raw[s][f] = 1 .. n
      /\ \A c \in 1 .. n : raw[s][f][c] \in Seq(RawRows)
  BY RawTyped
<1>2. g \in [1 .. n -> Seq(Rows)] BY <1>1, CleanTyped
<1>3. CleanRows(s, f) = FlattenSeq(g) BY <1>1 DEF CleanRows
<1>4. \A c \in 1 .. n : ToSet(g[c]) = ToSet(raw[s][f][c]) \ {Invalid}
  BY <1>1, CleanElements
<1> HIDE DEF g, n
<1>5. FlattenSeq(g) = Flat(g, n) BY <1>1, <1>2, FlattenTyped
<1>6. ToSet(CleanRows(s, f)) = UNION {ToSet(g[c]) : c \in 1 .. n}
  BY <1>1, <1>2, <1>3, <1>5, FlatElements
<1>7. ASSUME NEW r
      PROVE  r \in ToSet(CleanRows(s, f)) <=> r \in ValidRows(s, f)
  <2>1. r \in ToSet(CleanRows(s, f)) <=> \E c \in 1 .. n : r \in ToSet(g[c])
    BY <1>6, Zenon
  <2>2. \A c \in 1 .. n : r \in ToSet(g[c]) <=> r \in ToSet(raw[s][f][c]) /\ r # Invalid
    BY <1>4
  <2>3. r \in ValidRows(s, f) <=> /\ \E c \in 1 .. n : r \in ToSet(raw[s][f][c])
                                 /\ r # Invalid
    BY <1>1, Zenon DEF ValidRows
  <2> QED BY <2>1, <2>2, <2>3, Zenon
<1> QED BY <1>7

LEMMA CleanSplitElements ==
  ASSUME raw \in DataSets, NEW s \in SplitNames
  PROVE  ToSet(CleanSplit(s)) = UNION {ValidRows(s, f) : f \in Files(s)}
<1> DEFINE m == Len(raw[s])
           h == [f \in Files(s) |-> CleanRows(s, f)]
<1>1. m \in Nat /\ Files(s) = 1 .. m BY RawTyped
<1>2. h \in [1 .. m -> Seq(Rows)] BY <1>1, CleanRowsTyped
<1>3. CleanSplit(s) = FlattenSeq(h) BY DEF CleanSplit
<1>4. \A f \in 1 .. m : ToSet(h[f]) = ValidRows(s, f) BY <1>1, CleanRowsElements
<1> HIDE DEF h, m
<1>5. FlattenSeq(h) = Flat(h, m) BY <1>1, <1>2, FlattenTyped
<1>6. ToSet(CleanSplit(s)) = UNION {ToSet(h[f]) : f \in 1 .. m}
  BY <1>1, <1>2, <1>3, <1>5, FlatElements
<1> QED BY <1>1, <1>4, <1>6

(* Lists of lists of the same lengths are as long when flattened.          *)
LEMMA FlatLengths ==
  ASSUME NEW V, NEW W, NEW n \in Nat, NEW g \in [1 .. n -> Seq(V)],
         NEW h \in [1 .. n -> Seq(W)], \A i \in 1 .. n : Len(g[i]) = Len(h[i])
  PROVE  Len(Flat(g, n)) = Len(Flat(h, n))
<1> DEFINE Bad == {k \in Nat : k <= n /\ Len(Flat(g, k)) # Len(Flat(h, k))}
<1>1. Bad = {}
  <2> SUFFICES ASSUME Bad # {} PROVE FALSE OBVIOUS
  <2>1. PICK k \in Bad : \A y \in Bad : k <= y
    <3>1. Bad \in SUBSET Nat OBVIOUS
    <3> HIDE DEF Bad
    <3> QED BY <2>1, <3>1, LeastNatural
  <2>2. k \in Nat /\ k <= n /\ Len(Flat(g, k)) # Len(Flat(h, k)) OBVIOUS
  <2>3. k # 0
    <3>1. Flat(g, 0) = <<>> /\ Flat(h, 0) = <<>> BY FlatStep
    <3> QED BY <2>2, <3>1
  <2>4. /\ k - 1 \in Nat /\ k - 1 <= n /\ k \in 1 .. n /\ k - 1 \in 0 .. n
        /\ ~ (k <= k - 1)
    BY <2>2, <2>3
  <2>5. Len(Flat(g, k - 1)) = Len(Flat(h, k - 1)) BY <2>1, <2>4
  <2>6. Len(Flat(g, k)) = Len(Flat(g, k - 1)) + Len(g[k])
    <3>1. /\ Flat(g, k) = Flat(g, k - 1) \o g[k] /\ Flat(g, k - 1) \in Seq(V)
          /\ g[k] \in Seq(V)
      BY <2>4, FlatStep
    <3> QED BY <3>1, ConcatParts
  <2>7. Len(Flat(h, k)) = Len(Flat(h, k - 1)) + Len(h[k])
    <3>1. /\ Flat(h, k) = Flat(h, k - 1) \o h[k] /\ Flat(h, k - 1) \in Seq(W)
          /\ h[k] \in Seq(W)
      BY <2>4, FlatStep
    <3> QED BY <3>1, ConcatParts
  <2>8. Len(g[k]) = Len(h[k]) BY <2>4
  <2> QED BY <2>2, <2>5, <2>6, <2>7, <2>8
<1>2. n \notin Bad BY <1>1, Zenon
<1>3. n <= n OBVIOUS
<1> QED BY <1>2, <1>3

LEMMA FlatLengthsAll ==
  \A V, W : \A n \in Nat : \A g \in Lists(V, n), h \in Lists(W, n) :
    (\A i \in 1 .. n : Len(g[i]) = Len(h[i])) => Len(Flat(g, n)) = Len(Flat(h, n))
BY FlatLengths DEF Lists

(* The rows of an output file, and the vectors a scaler was fitted on.     *)
LEMMA ScaledElements ==
  ASSUME NEW rows \in Seq(Rows), NEW by \in FeatureBags
  PROVE  /\ {r.row : r \in ToSet(Scaled(rows, by))} = ToSet(rows)
         /\ \A r \in ToSet(Scaled(rows, by)) : r.scaler = by
<1> DEFINE x == Scaled(rows, by)
           n == Len(rows)
<1>1. /\ x \in Seq(OutRows) /\ Len(x) = n
      /\ \A i \in 1 .. n :
           x[i] = [row |-> rows[i], features |-> Feature[rows[i]], scaler |-> by]
  BY ScaledTyped
<1>2. DOMAIN rows = 1 .. n BY SeqAsFunction
<1> HIDE DEF x, n
<1>3. DOMAIN x = 1 .. n BY <1>1, SeqAsFunction
<1>4. \A i \in 1 .. n : x[i].row = rows[i] /\ x[i].scaler = by BY <1>1
<1>5. ToSet(x) = {x[i] : i \in 1 .. n} /\ ToSet(rows) = {rows[i] : i \in 1 .. n}
  BY <1>2, <1>3 DEF ToSet
<1> QED BY <1>4, <1>5 DEF x

LEMMA FeatureBagDomain ==
  ASSUME NEW rows \in Seq(Rows)
  PROVE  DOMAIN BagOf(ExtractFeatures(rows)) = {Feature[r] : r \in ToSet(rows)}
<1> DEFINE x == ExtractFeatures(rows)
           n == Len(rows)
<1>1. x \in Seq(Feats) /\ Len(x) = n /\ \A i \in 1 .. n : x[i] = Feature[rows[i]]
  BY FeaturesTyped
<1>2. DOMAIN rows = 1 .. n BY SeqAsFunction
<1> HIDE DEF x, n
<1>3. DOMAIN x = 1 .. n BY <1>1, SeqAsFunction
<1>4. DOMAIN BagOf(x) = ToSet(x) BY DEF BagOf
<1>5. ToSet(x) = {x[i] : i \in 1 .. n} /\ ToSet(rows) = {rows[i] : i \in 1 .. n}
  BY <1>2, <1>3 DEF ToSet
<1>6. ToSet(x) = {Feature[r] : r \in ToSet(rows)} BY <1>1, <1>5
<1> QED BY <1>4, <1>6 DEF x

LEMMA PlusDomain ==
  ASSUME NEW a, NEW b
  PROVE  DOMAIN (a (+) b) = DOMAIN a \cup DOMAIN b
BY DEF (+)

(* The sample is of training rows.                                         *)
LEMMA SampleDomain ==
  ASSUME raw \in DataSets, NEW sample \in SampleBags
  PROVE  DOMAIN sample \subseteq {Feature[r] : r \in ToSet(CleanSplit("train"))}
<1> DEFINE q == CleanSplit("train")
<1>1. q \in Seq(Rows)
  <2>1. "train" \in SplitNames BY DEF SplitNames
  <2>2. LET n == Len(Chunks("train"))
        IN  /\ n \in Nat /\ \A k \in 0 .. n : Read("train", k) \in Seq(Rows)
            /\ Read("train", n) = CleanSplit("train")
    BY <2>1, ReadStep
  <2> QED BY <2>2
<1>2. PICK p \in Prefixes(q) : sample = BagOf(ExtractFeatures(p)) BY DEF SampleBags
<1> HIDE DEF q
<1>3. p \in Seq(Rows) /\ ToSet(p) \subseteq ToSet(q)
  <2>1. Len(q) \in Nat /\ DOMAIN q = 1 .. Len(q) BY <1>1, SeqAsFunction
  <2>2. PICK k \in 0 .. Len(q) : p = SubSeq(q, 1, k) BY DEF Prefixes
  <2>3. \A i \in 1 .. k : q[i] \in Rows BY <1>1, <2>1, ElementOfSeq
  <2>4. k \in Int /\ 1 \in Int BY <2>1
  <2>5. /\ p \in Seq(Rows) /\ Len(p) = IF 1 <= k THEN k - 1 + 1 ELSE 0
        /\ \A i \in 1 .. k - 1 + 1 : p[i] = q[1 + i - 1]
    BY <2>2, <2>3, <2>4, SubSeqProperties
  <2>6. Len(p) = k BY <2>1, <2>5
  <2>7. DOMAIN p = 1 .. k BY <2>5, <2>6, SeqAsFunction
  <2>8. \A i \in 1 .. k : p[i] = q[i] /\ i \in DOMAIN q
    <3> TAKE i \in 1 .. k
    <3>1. i \in 1 .. k - 1 + 1 /\ 1 + i - 1 = i /\ i \in DOMAIN q BY <2>1
    <3> QED BY <2>5, <3>1
  <2> QED BY <2>5, <2>7, <2>8 DEF ToSet
<1>4. DOMAIN sample = {Feature[r] : r \in ToSet(p)} BY <1>2, <1>3, FeatureBagDomain
<1> QED BY <1>3, <1>4 DEF q

(* What the chunks leave on disk is what the raw files hold.               *)
LEMMA FullExact ==
  ASSUME HInv, FInv
  PROVE  FullPassExact
<1> SUFFICES ASSUME FullPassDone
             PROVE  /\ \A s \in SplitNames : \A f \in Files(s) :
                         /\ {r.row : r \in ToSet(outputs[s][f])} = ValidRows(s, f)
                         /\ \A r \in ToSet(outputs[s][f]) : r.scaler = artifacts.scaler
                    /\ DOMAIN artifacts.scaler =
                         {Feature[r] : r \in UNION {ValidRows("train", f) : f \in Files("train")}}
                    /\ \A s \in {"validation", "test"} :
                         artifacts.report[s].cleaned = Retained(s)
  BY DEF FullPassExact
<1> DEFINE b == artifacts.scaler
<1>1. raw \in DataSets /\ "train" \in SplitNames /\ b \in FeatureBags
  BY DEF HInv, PrepTyped, FInv, Shapes, SplitNames
<1>2. /\ \A s \in SplitNames : \A f \in Files(s) : outputs[s][f] = Scaled(CleanRows(s, f), b)
      /\ \E sample \in SampleBags :
           b = BagOf(ExtractFeatures(CleanSplit("train"))) (+) sample
      /\ \A s \in SplitNames : artifacts.report[s].cleaned =
           (IF s = "train" THEN 2 ELSE 1) * Len(CleanSplit(s))
  BY FullEnd
<1> HIDE DEF b
<1>3. \A s \in SplitNames : \A f \in Files(s) :
        /\ CleanRows(s, f) \in Seq(Rows) /\ ToSet(CleanRows(s, f)) = ValidRows(s, f)
  BY <1>1, CleanRowsTyped, CleanRowsElements
<1>4. ASSUME NEW s \in SplitNames, NEW f \in Files(s)
      PROVE  /\ {r.row : r \in ToSet(outputs[s][f])} = ValidRows(s, f)
             /\ \A r \in ToSet(outputs[s][f]) : r.scaler = b
  BY <1>1, <1>2, <1>3, ScaledElements
<1>5. DOMAIN b = {Feature[r] : r \in UNION {ValidRows("train", f) : f \in Files("train")}}
  <2> DEFINE q == CleanSplit("train")
             whole == BagOf(ExtractFeatures(q))
             all == {Feature[r] : r \in ToSet(q)}
  <2>1. PICK sample \in SampleBags : b = whole (+) sample BY <1>2
  <2>2. q \in Seq(Rows)
    <3>1. LET n == Len(Chunks("train"))
          IN  /\ n \in Nat /\ \A k \in 0 .. n : Read("train", k) \in Seq(Rows)
              /\ Read("train", n) = CleanSplit("train")
      BY <1>1, ReadStep
    <3> QED BY <3>1
  <2>3. DOMAIN sample \subseteq all BY <1>1, SampleDomain
  <2>4. ToSet(q) = UNION {ValidRows("train", f) : f \in Files("train")}
    BY <1>1, CleanSplitElements
  <2> HIDE DEF q
  <2>5. DOMAIN whole = all BY <2>2, FeatureBagDomain
  <2> HIDE DEF whole, all
  <2>6. DOMAIN b = all BY <2>1, <2>3, <2>5, PlusDomain
  <2> QED BY <2>4, <2>6 DEF all
<1>6. ASSUME NEW s \in {"validation", "test"}
      PROVE  artifacts.report[s].cleaned = Retained(s)
  <2> DEFINE m == Len(raw[s])
             g == outputs[s]
             h == [f \in Files(s) |-> CleanRows(s, f)]
  <2>1. s \in SplitNames /\ s # "train" BY DEF SplitNames
  <2>2. m \in Nat /\ Files(s) = 1 .. m BY <1>1, <2>1, RawTyped
  <2>3. h \in [1 .. m -> Seq(Rows)] /\ \A f \in 1 .. m : h[f] = CleanRows(s, f)
    BY <1>3, <2>1, <2>2
  <2>4. CleanSplit(s) = FlattenSeq(h) BY DEF CleanSplit
  <2>5. \A f \in 1 .. m : /\ Scaled(h[f], b) \in Seq(OutRows)
                          /\ Len(Scaled(h[f], b)) = Len(h[f])
    BY <1>1, <2>3, ScaledTyped
  <2>6. \A f \in 1 .. m : g[f] = Scaled(h[f], b) BY <1>2, <2>1, <2>2, <2>3
  <2>7. g \in [1 .. m -> Seq(OutRows)]
    <3>1. DOMAIN g = 1 .. m /\ g = [f \in DOMAIN g |-> g[f]]
      BY <2>1, <2>2 DEF HInv, PrepTyped, OutputsTyped
    <3> HIDE DEF g
    <3> QED BY <2>5, <2>6, <3>1
  <2> HIDE DEF g, h, m
  <2>8. FlattenSeq(h) = Flat(h, m) BY <2>2, <2>3, FlattenTyped
  <2>9. FlattenSeq(g) = Flat(g, m) BY <2>2, <2>7, FlattenTyped
  <2>10. Len(Flat(g, m)) = Len(Flat(h, m))
    <3>1. \A f \in 1 .. m : Len(g[f]) = Len(h[f]) BY <2>5, <2>6
    <3>2. g \in Lists(OutRows, m) /\ h \in Lists(Rows, m) BY <2>3, <2>7 DEF Lists
    <3> QED BY <2>2, <3>1, <3>2, FlatLengthsAll
  <2>11. FlattenSeq(h) \in Seq(Rows) BY <2>2, <2>3, FlattenTyped
  <2>12. Len(FlattenSeq(h)) \in Nat BY <2>11, SeqAsFunction
  <2>13. artifacts.report[s].cleaned = 1 * Len(CleanSplit(s)) BY <1>2, <2>1
  <2>14. artifacts.report[s].cleaned = Len(FlattenSeq(g))
    BY <2>4, <2>8, <2>9, <2>10, <2>12, <2>13
  <2> QED BY <2>14 DEF g, Retained
<1> QED BY <1>4, <1>5, <1>6 DEF b

(* The invariant of the full pass: where in its program the process is     *)
(* decides what the scaler was fitted on, which rows have been counted,    *)
(* what the files of each split hold and what the artifacts say.           *)
THEOREM FInvAlways == PrepSpec => []FInv
<1>1. PrepInit => FInv BY FInit
<1>2. HInv /\ FInv /\ [PrepNext]_prepVars => FInv' BY FNext
<1> QED BY <1>1, <1>2, HInvAlways, PTL DEF PrepSpec

(* run_full: once it is through, whatever was killed before it, the files  *)
(* and the artifacts are those of one complete pass: every valid row of    *)
(* every file and no other, scaled with the scaler on disk, which has seen *)
(* every training row and no row of another split, and counts of the other *)
(* splits that say so.                                                     *)
THEOREM FullPassesExact == PrepSpec => []FullPassExact
<1>1. HInv /\ FInv => FullPassExact BY FullExact
<1> QED BY <1>1, HInvAlways, FInvAlways, PTL

-------------------------------------------------------------------------------
(* The records of a node in a list of records.                             *)
Here(e, n) == IF e.node = n THEN <<e>> ELSE <<>>

LEMMA OfNodeAppend ==
  \A S : \A L \in Seq(S) : \A e \in S : \A n :
    /\ OfNode(L, n) \in Seq(S)
    /\ OfNode(Append(L, e), n) = IF e.node = n THEN Append(OfNode(L, n), e) ELSE OfNode(L, n)
<1> SUFFICES ASSUME NEW S, NEW L \in Seq(S), NEW e \in S, NEW n
             PROVE  /\ OfNode(L, n) \in Seq(S)
                    /\ OfNode(Append(L, e), n)
                         = IF e.node = n THEN Append(OfNode(L, n), e) ELSE OfNode(L, n)
  OBVIOUS
<1> DEFINE M == Append(L, e)
           m == Len(L)
           g == [i \in 1 .. m |-> Here(L[i], n)]
           h == [i \in 1 .. m + 1 |-> Here(M[i], n)]
<1>1. m \in Nat /\ DOMAIN L = 1 .. m /\ \A i \in 1 .. m : L[i] \in S
  BY SeqAsFunction, ElementOfSeq
<1>2. /\ M \in Seq(S) /\ DOMAIN M = 1 .. m + 1 /\ \A i \in 1 .. m : M[i] = L[i]
      /\ M[m + 1] = e /\ \A i \in 1 .. m + 1 : M[i] \in S
  BY AppendProperties, SeqAsFunction, ElementOfSeq
<1>3. OfNode(L, n) = FlattenSeq(g)
  <2>1. [i \in DOMAIN L |-> IF L[i].node = n THEN <<L[i]>> ELSE <<>>] = g
    BY <1>1 DEF Here
  <2> QED BY <2>1 DEF OfNode
<1>4. OfNode(M, n) = FlattenSeq(h)
  <2>1. [i \in DOMAIN M |-> IF M[i].node = n THEN <<M[i]>> ELSE <<>>] = h
    BY <1>2 DEF Here
  <2> HIDE DEF M, h
  <2> QED BY <2>1, Zenon DEF OfNode
<1>5. \A x \in S : Here(x, n) \in Seq(S) BY DEF Here
<1> HIDE DEF M, m
<1>6. g \in [1 .. m -> Seq(S)] BY <1>1, <1>5
<1>7. h \in [1 .. m + 1 -> Seq(S)] BY <1>2, <1>5
<1>8. \A i \in 1 .. m : h[i] = g[i] BY <1>1, <1>2
<1>9. h[m + 1] = Here(e, n) BY <1>1, <1>2
<1> HIDE DEF g, h
<1>10. FlattenSeq(g) = Flat(g, m) /\ FlattenSeq(g) \in Seq(S) BY <1>1, <1>6, FlattenTyped
<1>11. FlattenSeq(h) = Flat(h, m + 1) BY <1>1, <1>7, FlattenTyped
<1>12. Flat(h, m + 1) = Flat(h, m) \o h[m + 1]
  <2> DEFINE q == m + 1
  <2>1. q \in Nat /\ q \in 1 .. q /\ q - 1 = m BY <1>1
  <2>2. h \in [1 .. q -> Seq(S)] BY <1>7
  <2> HIDE DEF q
  <2>3. Flat(h, q) = Flat(h, q - 1) \o h[q] BY <2>1, <2>2, FlatStep
  <2> QED BY <2>1, <2>3 DEF q
<1>13. Flat(h, m) = Flat(g, m) BY <1>8, FlatSame
<1>14. OfNode(M, n) = OfNode(L, n) \o Here(e, n)
  BY <1>3, <1>4, <1>9, <1>10, <1>11, <1>12, <1>13
<1>15. OfNode(L, n) \o <<e>> = Append(OfNode(L, n), e)
  BY <1>3, <1>10, AppendIsConcat
<1>16. OfNode(L, n) \o <<>> = OfNode(L, n) BY <1>3, <1>10, ConcatEmptySeq
<1> QED BY <1>3, <1>10, <1>14, <1>15, <1>16 DEF M, Here

-------------------------------------------------------------------------------
(* The last elements of a sequence: as many as it has, or as are asked for. *)
Held(n, m) == IF m <= n THEN m ELSE n

LEMMA HeldNat ==
  \A n, m \in Nat : Held(n, m) \in Nat /\ Held(n, m) <= m /\ Held(n, m) <= n
BY DEF Held

LEMMA LastOfIs ==
  \A S : \A n \in Nat : \A V \in Seq(S) :
    /\ LastOf(n, V) \in Seq(S) /\ Len(LastOf(n, V)) = Held(n, Len(V))
    /\ \A i \in 1 .. Held(n, Len(V)) : LastOf(n, V)[i] = V[Len(V) - Held(n, Len(V)) + i]
<1> SUFFICES ASSUME NEW S, NEW n \in Nat, NEW V \in Seq(S)
             PROVE  /\ LastOf(n, V) \in Seq(S) /\ Len(LastOf(n, V)) = Held(n, Len(V))
                    /\ \A i \in 1 .. Held(n, Len(V)) :
                         LastOf(n, V)[i] = V[Len(V) - Held(n, Len(V)) + i]
  OBVIOUS
<1> DEFINE m == Len(V)
           from == Max({1, m - n + 1})
           h == Held(n, m)
<1>1. m \in Nat /\ \A i \in 1 .. m : V[i] \in S BY SeqAsFunction, ElementOfSeq
<1>2. LastOf(n, V) = SubSeq(V, from, m) BY DEF LastOf
<1> HIDE DEF m
<1>3. from = m - h + 1 /\ from \in Int /\ from >= 1 /\ h \in Nat /\ h <= m
  <2>1. 1 \in Int /\ m - n + 1 \in Int BY <1>1
  <2>2. from \in {1, m - n + 1} /\ from >= 1 /\ from >= m - n + 1 BY <2>1, MaxOfTwo
  <2> HIDE DEF from
  <2> QED BY <1>1, <2>2 DEF Held
<1> HIDE DEF from, h
<1>4. \A i \in from .. m : V[i] \in S BY <1>1, <1>3
<1>5. /\ SubSeq(V, from, m) \in Seq(S)
      /\ Len(SubSeq(V, from, m)) = IF from <= m THEN m - from + 1 ELSE 0
      /\ \A i \in 1 .. m - from + 1 : SubSeq(V, from, m)[i] = V[from + i - 1]
  BY <1>1, <1>3, <1>4, SubSeqProperties
<1>6. Len(SubSeq(V, from, m)) = h BY <1>1, <1>3, <1>5
<1>7. \A i \in 1 .. h : SubSeq(V, from, m)[i] = V[m - h + i]
  <2> TAKE i \in 1 .. h
  <2>1. i \in 1 .. m - from + 1 /\ from + i - 1 = m - h + i BY <1>1, <1>3
  <2> QED BY <1>5, <2>1
<1> QED BY <1>2, <1>5, <1>6, <1>7 DEF m, h

(* R is the last g elements of V, which has m.                              *)
Ends(R, V, m, g, S) ==
  R \in Seq(S) /\ Len(R) = g /\ \A i \in 1 .. g : R[i] = V[m - g + i]

LEMMA LastOfEnds ==
  \A S : \A n \in Nat : \A V \in Seq(S) : \A m, g :
    m = Len(V) /\ g = Held(n, m) => Ends(LastOf(n, V), V, m, g, S)
<1> TAKE S
<1> TAKE n \in Nat
<1> TAKE V \in Seq(S)
<1> TAKE m, g
<1>1. HAVE m = Len(V) /\ g = Held(n, m)
<1>2. /\ LastOf(n, V) \in Seq(S) /\ Len(LastOf(n, V)) = Held(n, Len(V))
      /\ \A i \in 1 .. Held(n, Len(V)) : LastOf(n, V)[i] = V[Len(V) - Held(n, Len(V)) + i]
  BY LastOfIs, Zenon
<1> QED BY <1>1, <1>2, Zenon DEF Ends

LEMMA LastOfAgain ==
  \A S : \A n \in Nat \ {0} : \A V \in Seq(S) : \A v \in S :
    LastOf(n, Append(LastOf(n, V), v)) = LastOf(n, Append(V, v))
<1> SUFFICES ASSUME NEW S, NEW n \in Nat \ {0}, NEW V \in Seq(S), NEW v \in S
             PROVE  LastOf(n, Append(LastOf(n, V), v)) = LastOf(n, Append(V, v))
  OBVIOUS
<1> DEFINE A == LastOf(n, V)
           m == Len(V)
           h == Held(n, m)
           B == Append(A, v)
           W == Append(V, v)
           g == Held(n, m + 1)
<1>1. m \in Nat /\ n \in Nat /\ h \in Nat /\ h <= m BY SeqAsFunction, HeldNat
<1>2. A \in Seq(S) /\ Len(A) = h /\ \A i \in 1 .. h : A[i] = V[m - h + i]
  BY LastOfIs
<1>3. /\ W \in Seq(S) /\ Len(W) = m + 1 /\ (\A i \in 1 .. m : W[i] = V[i])
      /\ W[m + 1] = v
  BY AppendProperties
<1> HIDE DEF A, m
<1>4. /\ B \in Seq(S) /\ Len(B) = h + 1 /\ (\A i \in 1 .. h : B[i] = A[i])
      /\ B[h + 1] = v
  BY <1>2, AppendProperties
<1> HIDE DEF B, W
<1>5. g = Held(n, h + 1) /\ g \in Nat /\ g <= m + 1 /\ g <= h + 1
  BY <1>1 DEF Held
<1> HIDE DEF g, h
<1>6. /\ LastOf(n, B) \in Seq(S) /\ Len(LastOf(n, B)) = g
      /\ \A i \in 1 .. g : LastOf(n, B)[i] = B[(h + 1) - g + i]
  <2>1. n \in Nat /\ Len(B) = h + 1 BY <1>1, <1>4
  <2>2. Ends(LastOf(n, B), B, h + 1, g, S) BY <1>4, <1>5, <2>1, LastOfEnds, Zenon
  <2> QED BY <2>2 DEF Ends
<1>7. /\ LastOf(n, W) \in Seq(S) /\ Len(LastOf(n, W)) = g
      /\ \A i \in 1 .. g : LastOf(n, W)[i] = W[(m + 1) - g + i]
  <2>1. n \in Nat /\ Len(W) = m + 1 /\ g = Held(n, m + 1) BY <1>1, <1>3 DEF g
  <2>2. Ends(LastOf(n, W), W, m + 1, g, S) BY <1>3, <2>1, LastOfEnds, Zenon
  <2> QED BY <2>2 DEF Ends
<1>8. \A i \in 1 .. g : LastOf(n, B)[i] = LastOf(n, W)[i]
  <2> TAKE i \in 1 .. g
  <2> DEFINE p == (h + 1) - g + i
             q == (m + 1) - g + i
  <2>1. p \in 1 .. h + 1 /\ q \in 1 .. m + 1 /\ q = m - h + p BY <1>1, <1>5
  <2>2. LastOf(n, B)[i] = B[p] /\ LastOf(n, W)[i] = W[q] BY <1>6, <1>7
  <2> HIDE DEF p, q
  <2>3. CASE p = h + 1
    <3>1. q = m + 1 BY <1>1, <2>1, <2>3
    <3> QED BY <1>3, <1>4, <2>2, <2>3, <3>1
  <2>4. CASE p # h + 1
    <3>1. p \in 1 .. h /\ q \in 1 .. m BY <1>1, <2>1, <2>4
    <3> QED BY <1>2, <1>3, <1>4, <2>1, <2>2, <3>1
  <2> QED BY <2>3, <2>4
<1> QED BY <1>6, <1>7, <1>8, SeqEqual DEF B, W, A

LEMMA LastOfShorter ==
  \A S : \A n, k \in Nat : \A V \in Seq(S) :
    k <= n => LastOf(k, LastOf(n, V)) = LastOf(k, V)
<1> SUFFICES ASSUME NEW S, NEW n \in Nat, NEW k \in Nat, NEW V \in Seq(S), k <= n
             PROVE  LastOf(k, LastOf(n, V)) = LastOf(k, V)
  OBVIOUS
<1> DEFINE A == LastOf(n, V)
           m == Len(V)
           h == Held(n, m)
           g == Held(k, m)
<1>1. m \in Nat /\ h \in Nat /\ h <= m BY SeqAsFunction, HeldNat
<1>2. A \in Seq(S) /\ Len(A) = h /\ \A i \in 1 .. h : A[i] = V[m - h + i]
  BY LastOfIs
<1>3. /\ LastOf(k, V) \in Seq(S) /\ Len(LastOf(k, V)) = g
      /\ \A i \in 1 .. g : LastOf(k, V)[i] = V[m - g + i]
  BY LastOfIs
<1> HIDE DEF A, m
<1>4. g = Held(k, h) /\ g \in Nat /\ g <= h BY <1>1 DEF Held
<1> HIDE DEF g, h
<1>5. /\ LastOf(k, A) \in Seq(S) /\ Len(LastOf(k, A)) = g
      /\ \A i \in 1 .. g : LastOf(k, A)[i] = A[h - g + i]
  <2>1. Len(A) = h BY <1>2
  <2>2. Ends(LastOf(k, A), A, h, g, S) BY <1>2, <1>4, <2>1, LastOfEnds, Zenon
  <2> QED BY <2>2 DEF Ends
<1>6. \A i \in 1 .. g : LastOf(k, A)[i] = LastOf(k, V)[i]
  <2> TAKE i \in 1 .. g
  <2>1. h - g + i \in 1 .. h /\ m - h + (h - g + i) = m - g + i BY <1>1, <1>4
  <2> QED BY <1>2, <1>3, <1>5, <2>1
<1> QED BY <1>3, <1>5, <1>6, SeqEqual DEF A

(* k of the last k are true, or k in a row up to position i.               *)
AllOf(V, k, i) == k <= i /\ \A j \in i - k + 1 .. i : V[j]

LEMMA RecentAllOf ==
  \A k \in Nat : \A V \in Seq(BOOLEAN) :
    Cardinality({i \in DOMAIN LastOf(k, V) : LastOf(k, V)[i]}) >= k
      <=> AllOf(V, k, Len(V))
<1> SUFFICES ASSUME NEW k \in Nat, NEW V \in Seq(BOOLEAN)
             PROVE  Cardinality({i \in DOMAIN LastOf(k, V) : LastOf(k, V)[i]}) >= k
                      <=> AllOf(V, k, Len(V))
  OBVIOUS
<1> DEFINE m == Len(V)
           h == Held(k, m)
           R == LastOf(k, V)
           T == {i \in 1 .. h : R[i]}
<1>1. m \in Nat /\ h \in Nat /\ h <= m /\ h <= k BY SeqAsFunction, HeldNat
<1>2. R \in Seq(BOOLEAN) /\ Len(R) = h /\ \A i \in 1 .. h : R[i] = V[m - h + i]
  BY LastOfIs
<1>3. DOMAIN R = 1 .. h BY <1>2, SeqAsFunction
<1> HIDE DEF R, m
<1>4. IsFiniteSet(1 .. h) /\ Cardinality(1 .. h) = h
  <2> HIDE DEF h
  <2>1. 1 \in Int /\ h \in Int BY <1>1
  <2>2. IsFiniteSet(1 .. h) /\ Cardinality(1 .. h) = IF 1 > h THEN 0 ELSE h - 1 + 1
    BY ONLY <2>1, FS_Interval, Zenon
  <2>3. (IF 1 > h THEN 0 ELSE h - 1 + 1) = h BY <1>1
  <2> QED BY <2>2, <2>3
<1>5. /\ Cardinality(T) \in Nat /\ Cardinality(T) <= h
      /\ Cardinality(T) = h => T = 1 .. h
  BY <1>4, FS_Subset, FS_CardinalityType
<1>6. Cardinality({i \in DOMAIN R : R[i]}) = Cardinality(T) BY <1>3
<1>7. CASE m < k
  <2>1. h < k BY <1>1, <1>7 DEF Held
  <2>2. ~ (Cardinality(T) >= k) BY <1>1, <1>5, <2>1
  <2> QED BY <1>1, <1>6, <1>7, <2>2 DEF AllOf, R, m
<1>8. CASE m >= k
  <2>1. h = k BY <1>1, <1>8 DEF Held
  <2> HIDE DEF h
  <2>2. Cardinality(T) >= k <=> T = 1 .. h
    <3>1. Cardinality(T) >= k <=> Cardinality(T) = h BY <1>1, <1>5, <2>1
    <3>2. T = 1 .. h => Cardinality(T) = h BY <1>4
    <3> QED BY <1>5, <3>1, <3>2
  <2>3. T = 1 .. h <=> \A i \in 1 .. h : R[i] OBVIOUS
  <2>4. (\A i \in 1 .. h : R[i]) <=> \A j \in m - k + 1 .. m : V[j]
    <3>1. ASSUME \A i \in 1 .. h : R[i], NEW j \in m - k + 1 .. m PROVE V[j]
      <4>1. j - (m - k) \in 1 .. h /\ m - h + (j - (m - k)) = j BY <1>1, <2>1
      <4> QED BY <1>2, <3>1, <4>1
    <3>2. ASSUME \A j \in m - k + 1 .. m : V[j], NEW i \in 1 .. h PROVE R[i]
      <4>1. m - h + i \in m - k + 1 .. m BY <1>1, <2>1
      <4> QED BY <1>2, <3>2, <4>1
    <3> QED BY <3>1, <3>2
  <2> QED BY <1>6, <1>8, <2>2, <2>3, <2>4 DEF AllOf, R, m
<1> QED BY <1>1, <1>7, <1>8

(* The count of the diagnosis.                                             *)
LEMMA PersistentIs ==
  \A k \in Nat \ {0} : \A V \in Seq(BOOLEAN) :
    /\ DOMAIN Persistent(V, k) = DOMAIN V
    /\ Persistent(V, k) = [i \in DOMAIN V |-> Persistent(V, k)[i]]
    /\ \A i \in DOMAIN V :
         Persistent(V, k)[i] \in BOOLEAN /\ (Persistent(V, k)[i] <=> AllOf(V, k, i))
<1> SUFFICES ASSUME NEW k \in Nat \ {0}, NEW V \in Seq(BOOLEAN)
             PROVE  /\ DOMAIN Persistent(V, k) = DOMAIN V
                    /\ Persistent(V, k) = [i \in DOMAIN V |-> Persistent(V, k)[i]]
                    /\ \A i \in DOMAIN V :
                         /\ Persistent(V, k)[i] \in BOOLEAN
                         /\ Persistent(V, k)[i] <=> AllOf(V, k, i)
  OBVIOUS
<1>1. /\ DOMAIN V = 1 .. Len(V) /\ Len(V) \in Nat /\ V = [i \in DOMAIN V |-> V[i]]
      /\ \A i \in DOMAIN V : V[i] \in BOOLEAN
  <2>1. /\ Len(V) \in Nat /\ DOMAIN V = 1 .. Len(V)
        /\ V = [i \in 1 .. Len(V) |-> V[i]]
    BY SeqAsFunction
  <2> QED BY <2>1, ElementOfSeq
<1>2. CASE k = 1
  <2>1. Persistent(V, k) = V BY <1>2 DEF Persistent
  <2>2. \A i \in DOMAIN V : V[i] <=> AllOf(V, k, i)
    <3> TAKE i \in DOMAIN V
    <3>1. i \in Nat /\ k <= i /\ i - k + 1 = i BY <1>1, <1>2
    <3>2. \A j : j \in i .. i <=> j = i BY <3>1
    <3> QED BY <3>1, <3>2 DEF AllOf
  <2> QED BY <1>1, <2>1, <2>2
<1>3. CASE k # 1
  <2>1. Persistent(V, k) = [i \in DOMAIN V |-> Consecutive(V, i) >= k]
    BY <1>3 DEF Persistent
  <2>2. ASSUME NEW i \in DOMAIN V PROVE Consecutive(V, i) >= k <=> AllOf(V, k, i)
    <3> DEFINE D == {0} \cup {j \in 1 .. i : ~ V[j]}
               x == Max(D)
    <3>1. i \in Nat /\ i >= 1 BY <1>1
    <3>2. D \in SUBSET (0 .. i) /\ D # {} BY <3>1
    <3>3. x \in D /\ \A y \in D : y <= x
      <4> HIDE DEF D
      <4> QED BY <3>1, <3>2, MaxOfBounded
    <3>4. Consecutive(V, i) = i - x BY DEF Consecutive
    <3>5. x \in Nat /\ x <= i /\ (x = 0 \/ ~ V[x]) /\ \A y \in 1 .. i : ~ V[y] => y <= x
      <4>1. \A y \in 1 .. i : ~ V[y] => y \in D OBVIOUS
      <4> HIDE DEF x
      <4>2. x \in D => x \in Nat /\ x <= i /\ (x = 0 \/ ~ V[x]) BY <3>1
      <4> HIDE DEF D
      <4> QED BY <3>3, <4>1, <4>2
    <3> HIDE DEF x
    <3>6. ASSUME i - x >= k PROVE AllOf(V, k, i)
      <4>1. k <= i BY <3>1, <3>5, <3>6
      <4>2. ASSUME NEW j \in i - k + 1 .. i PROVE V[j]
        <5>1. j \in 1 .. i /\ j > x BY <3>1, <3>5, <3>6
        <5>2. ~ (j <= x) BY <3>5, <5>1
        <5> QED BY <3>5, <5>1, <5>2
      <4> QED BY <4>1, <4>2 DEF AllOf
    <3>7. ASSUME AllOf(V, k, i) PROVE i - x >= k
      <4>1. k <= i /\ \A j \in i - k + 1 .. i : V[j] BY <3>7 DEF AllOf
      <4>2. CASE x = 0 BY <3>1, <4>1, <4>2
      <4>3. CASE x # 0
        <5>1. ~ (x \in i - k + 1 .. i) BY <3>5, <4>1, <4>3
        <5> QED BY <3>1, <3>5, <5>1
      <4> QED BY <4>2, <4>3
    <3> QED BY <3>4, <3>6, <3>7
  <2>3. \A i \in DOMAIN V : (Consecutive(V, i) >= k) \in BOOLEAN OBVIOUS
  <2> QED BY <2>1, <2>2, <2>3
<1> QED BY <1>2, <1>3

-------------------------------------------------------------------------------
(* What the windows hold: of every node the last k + 2 verdicts on its     *)
(* records; and a record is confirmed when the last k verdicts on records  *)
(* of its node, its own included, were anomalies.                          *)
Raws(L, n) == [i \in DOMAIN OfNode(L, n) |-> OfNode(L, n)[i].raw]

WindowIn(w, n) == IF n \in DOMAIN w THEN w[n] ELSE <<>>

NodeFiltered(L, w, k, n) ==
  /\ \A i \in DOMAIN OfNode(L, n) :
       OfNode(L, n)[i].raw \in BOOLEAN /\ OfNode(L, n)[i].confirmed \in BOOLEAN
  /\ WindowIn(w, n) = LastOf(k + 2, Raws(L, n))
  /\ k >= 1 => \A i \in DOMAIN OfNode(L, n) :
                 OfNode(L, n)[i].confirmed <=> AllOf(Raws(L, n), k, i)

Filtered(L, w, k) ==
  (\E S : L \in Seq(S)) /\ \A n : NodeFiltered(L, w, k, n)

WInv == /\ experiment \in Experiment /\ experiment.k \in Nat
        /\ Filtered(log, windows, experiment.k)

LEMMA RawsTyped ==
  \A S, L, w, k, n :
    OfNode(L, n) \in Seq(S) /\ NodeFiltered(L, w, k, n) =>
      /\ Raws(L, n) \in Seq(BOOLEAN) /\ Len(Raws(L, n)) = Len(OfNode(L, n))
      /\ DOMAIN Raws(L, n) = DOMAIN OfNode(L, n)
<1> SUFFICES ASSUME NEW S, NEW L, NEW w, NEW k, NEW n,
                    OfNode(L, n) \in Seq(S), NodeFiltered(L, w, k, n)
             PROVE  /\ Raws(L, n) \in Seq(BOOLEAN) /\ Len(Raws(L, n)) = Len(OfNode(L, n))
                    /\ DOMAIN Raws(L, n) = DOMAIN OfNode(L, n)
  OBVIOUS
<1> DEFINE own == OfNode(L, n)
<1>1. Len(own) \in Nat /\ DOMAIN own = 1 .. Len(own) BY SeqAsFunction
<1>2. \A i \in DOMAIN own : own[i].raw \in BOOLEAN BY DEF NodeFiltered
<1>3. Raws(L, n) = [i \in DOMAIN own |-> own[i].raw] BY DEF Raws
<1> HIDE DEF own
<1>4. Raws(L, n) \in [1 .. Len(own) -> BOOLEAN] BY <1>1, <1>2, <1>3
<1> QED BY <1>1, <1>3, <1>4, FunctionAsSeq DEF own

(* A longer list of verdicts says the same of the earlier ones.            *)
LEMMA AllOfAppend ==
  \A V \in Seq(BOOLEAN) : \A v \in BOOLEAN : \A k \in Nat : \A i \in 1 .. Len(V) :
    k >= 1 => (AllOf(Append(V, v), k, i) <=> AllOf(V, k, i))
<1> SUFFICES ASSUME NEW V \in Seq(BOOLEAN), NEW v \in BOOLEAN, NEW k \in Nat,
                    NEW i \in 1 .. Len(V), k >= 1
             PROVE  AllOf(Append(V, v), k, i) <=> AllOf(V, k, i)
  OBVIOUS
<1>1. \A j \in 1 .. Len(V) : Append(V, v)[j] = V[j] BY AppendProperties
<1>2. Len(V) \in Nat BY SeqAsFunction
<1>3. k <= i => \A j \in i - k + 1 .. i : j \in 1 .. Len(V) BY <1>2
<1> QED BY <1>1, <1>3 DEF AllOf

(* The verdict of the window.                                              *)
LEMMA ConfirmedIs ==
  ASSUME experiment.k \in Nat, NEW V \in Seq(BOOLEAN), NEW v \in BOOLEAN, NEW window,
         window = LastOf(experiment.k + 2, V)
  PROVE  /\ Pushed(window, v) = LastOf(experiment.k + 2, Append(V, v))
         /\ Confirmed(Pushed(window, v)) \in BOOLEAN
         /\ experiment.k >= 1 =>
              (Confirmed(Pushed(window, v)) <=> AllOf(Append(V, v), experiment.k, Len(V) + 1))
<1> DEFINE k == experiment.k
           n == k + 2
           U == Append(V, v)
<1>1. k \in Nat /\ n \in Nat \ {0} /\ n \in Nat /\ k <= n OBVIOUS
<1>2. U \in Seq(BOOLEAN) /\ Len(U) = Len(V) + 1 BY AppendProperties
<1> HIDE DEF k, n
<1>3. Pushed(window, v) = LastOf(n, Append(LastOf(n, V), v)) BY DEF Pushed, k, n
<1>4. Pushed(window, v) = LastOf(n, U) BY <1>1, <1>3, LastOfAgain DEF U
<1>5. Confirmed(Pushed(window, v)) \in BOOLEAN BY DEF Confirmed
<1>6. ASSUME k >= 1
      PROVE  Confirmed(Pushed(window, v)) <=> AllOf(U, k, Len(V) + 1)
  <2>1. Recent(Pushed(window, v)) = LastOf(k, LastOf(n, U)) BY <1>1, <1>4, <1>6 DEF Recent, k
  <2> HIDE DEF U
  <2>2. LastOf(k, LastOf(n, U)) = LastOf(k, U) BY <1>1, <1>2, LastOfShorter
  <2>3. Confirmed(Pushed(window, v))
          <=> Cardinality({i \in DOMAIN LastOf(k, U) : LastOf(k, U)[i]}) >= k
    BY <2>1, <2>2, Zenon DEF Confirmed, k
  <2>4. Cardinality({i \in DOMAIN LastOf(k, U) : LastOf(k, U)[i]}) >= k
          <=> AllOf(U, k, Len(U))
    BY <1>1, <1>2, RecentAllOf
  <2> QED BY <1>2, <2>3, <2>4
<1> QED BY <1>4, <1>5, <1>6 DEF k, n, U

(* What a record leaves behind, part by part.                              *)
Entry(record, score, verdict, confirmed) ==
  [ node |-> record.node, label |-> record.label,
    score |-> score, raw |-> verdict, confirmed |-> confirmed,
    seen |-> AvailableFeatures(record) ]

Judged(row, record, score, verdict, window, confirmed) ==
  /\ record = RecordOf(experiment.dataset, row, File.device, last)
  /\ verdict = IsFault(score)
  /\ window = Pushed(WindowOf(record.node), verdict)
  /\ confirmed = Confirmed(window)

LEMMA StreamRecord ==
  Stream => \E score \in Scores : \E record, verdict, window, confirmed :
              /\ Judged(File.rows[at[2]], record, score, verdict, window, confirmed)
              /\ windows' = Put(windows, record.node, window)
              /\ log' = Append(log, Entry(record, score, verdict, confirmed))
<1> HAVE Stream
<1> DEFINE row == File.rows[at[2]]
<1>1. PICK score \in Scores : ProcessRecord(row, score) BY Zenon DEF Stream
<1> HIDE DEF row
<1> DEFINE record    == RecordOf(experiment.dataset, row, File.device, last)
           verdict       == IsFault(score)
           window    == Pushed(WindowOf(record.node), verdict)
           confirmed == Confirmed(window)
<1>2. /\ windows' = Put(windows, record.node, window)
      /\ log' = Append(log, Entry(record, score, verdict, confirmed))
  BY <1>1, Zenon DEF ProcessRecord, Entry
<1>3. Judged(row, record, score, verdict, window, confirmed) BY Zenon DEF Judged
<1> HIDE DEF record, verdict, window, confirmed
<1> QED BY <1>2, <1>3 DEF row

LEMMA EntryFields ==
  \A record, score, verdict, confirmed :
    LET e == Entry(record, score, verdict, confirmed)
    IN  /\ e.node = record.node /\ e.label = record.label
        /\ e.score = score /\ e.raw = verdict /\ e.confirmed = confirmed /\ e.seen = record.features
BY DEF Entry, AvailableFeatures

LEMMA WindowUpdated ==
  \A w, n, window, other :
    WindowIn(Put(w, n, window), other) = IF other = n THEN window ELSE WindowIn(w, other)
BY DEF WindowIn, Put

LEMMA JudgedIs ==
  ASSUME NEW row, NEW record, NEW score, NEW verdict, NEW window, NEW confirmed,
         Judged(row, record, score, verdict, window, confirmed)
  PROVE  /\ verdict \in BOOLEAN /\ confirmed \in BOOLEAN
         /\ window = Pushed(WindowIn(windows, record.node), verdict)
         /\ confirmed = Confirmed(window)
<1>1. IsFault(score) \in BOOLEAN BY DEF IsFault
<1>2. Confirmed(window) \in BOOLEAN BY DEF Confirmed
<1> QED BY <1>1, <1>2, Zenon DEF Judged, WindowOf, WindowIn

(* A record more.                                                          *)
LEMMA FilteredNext ==
  ASSUME experiment.k \in Nat, Filtered(log, windows, experiment.k),
         NEW e, NEW window, e.raw \in BOOLEAN,
         window = Pushed(WindowIn(windows, e.node), e.raw),
         e.confirmed = Confirmed(window)
  PROVE  Filtered(Append(log, e), Put(windows, e.node, window), experiment.k)
<1> DEFINE k == experiment.k
           M == Append(log, e)
           w == Put(windows, e.node, window)
<1>1. PICK T : log \in Seq(T) BY DEF Filtered
<1> DEFINE S == T \cup {e}
<1>2. log \in Seq(S) /\ e \in S
  <2>1. T \subseteq S /\ e \in S OBVIOUS
  <2> HIDE DEF S
  <2> QED BY <1>1, <2>1
<1> HIDE DEF S
<1>3. \A n : /\ OfNode(log, n) \in Seq(S)
             /\ OfNode(M, n) = IF e.node = n THEN Append(OfNode(log, n), e)
                               ELSE OfNode(log, n)
  BY <1>2, OfNodeAppend
<1>4. M \in Seq(S) BY <1>2, AppendProperties
<1> HIDE DEF M
<1>5. \A n : WindowIn(w, n) = IF n = e.node THEN window ELSE WindowIn(windows, n)
  BY WindowUpdated
<1> HIDE DEF w
<1>6. ASSUME NEW n PROVE NodeFiltered(M, w, k, n)
  <2>1. NodeFiltered(log, windows, k, n) BY DEF Filtered
  <2>2. CASE n # e.node
    <3>1. OfNode(M, n) = OfNode(log, n) /\ WindowIn(w, n) = WindowIn(windows, n)
      BY <1>3, <1>5, <2>2
    <3>2. Raws(M, n) = Raws(log, n) BY <3>1, Zenon DEF Raws
    <3> HIDE DEF k
    <3> QED BY <2>1, <3>1, <3>2, Zenon DEF NodeFiltered
  <2>3. CASE n = e.node
    <3> DEFINE own == OfNode(log, n)
               V == Raws(log, n)
    <3>1. own \in Seq(S) BY <1>3
    <3>2. V \in Seq(BOOLEAN) /\ Len(V) = Len(own) /\ DOMAIN V = DOMAIN own
      BY <2>1, <3>1, RawsTyped
    <3>3. OfNode(M, n) = Append(own, e) BY <1>3, <2>3
    <3> DEFINE longer == Append(own, e)
               m == Len(own)
    <3>4. /\ m \in Nat /\ DOMAIN own = 1 .. m /\ DOMAIN longer = 1 .. m + 1
          /\ (\A i \in 1 .. m : longer[i] = own[i]) /\ longer[m + 1] = e
      <4>1. m \in Nat /\ DOMAIN own = 1 .. m BY <3>1, SeqAsFunction
      <4>2. /\ longer \in Seq(S) /\ Len(longer) = m + 1
            /\ (\A i \in 1 .. m : longer[i] = own[i]) /\ longer[m + 1] = e
        BY <1>2, <3>1, AppendProperties
      <4>3. DOMAIN longer = 1 .. Len(longer) BY <4>2, SeqAsFunction
      <4> QED BY <4>1, <4>2, <4>3
    <3> DEFINE U == Append(V, e.raw)
    <3>5. Raws(M, n) = [i \in DOMAIN longer |-> longer[i].raw] BY <3>3, Zenon DEF Raws
    <3>6. V = [i \in DOMAIN own |-> own[i].raw] BY DEF Raws
    <3>7. /\ U \in Seq(BOOLEAN) /\ Len(U) = m + 1 /\ \A i \in 1 .. m : U[i] = V[i]
          /\ U[m + 1] = e.raw
      BY <3>2, AppendProperties
    <3> HIDE DEF own, V, longer, m, U
    <3>8. Raws(M, n) = U
      <4>1. DOMAIN U = 1 .. m + 1 /\ U = [i \in 1 .. m + 1 |-> U[i]]
        BY <3>7, SeqAsFunction
      <4>2. ASSUME NEW i \in 1 .. m + 1 PROVE U[i] = longer[i].raw
        <5>1. CASE i = m + 1 BY <3>4, <3>7, <5>1
        <5>2. CASE i # m + 1
          <6>1. i \in 1 .. m BY <3>4, <5>2
          <6> QED BY <3>4, <3>6, <3>7, <6>1
        <5> QED BY <5>1, <5>2
      <4>3. [i \in 1 .. m + 1 |-> U[i]] = [i \in 1 .. m + 1 |-> longer[i].raw] BY <4>2
      <4> QED BY <3>4, <3>5, <4>1, <4>3
    <3>9. WindowIn(windows, n) = LastOf(k + 2, V) BY <2>1 DEF NodeFiltered, V
    <3>10. /\ window = LastOf(k + 2, U)
           /\ Confirmed(window) \in BOOLEAN
           /\ k >= 1 => (Confirmed(window) <=> AllOf(U, k, m + 1))
      <4>1. window = Pushed(WindowIn(windows, n), e.raw) BY <2>3
      <4>2. /\ Pushed(WindowIn(windows, n), e.raw) = LastOf(k + 2, U)
            /\ Confirmed(Pushed(WindowIn(windows, n), e.raw)) \in BOOLEAN
            /\ k >= 1 => (Confirmed(Pushed(WindowIn(windows, n), e.raw))
                            <=> AllOf(U, k, Len(V) + 1))
        BY <3>2, <3>9, ConfirmedIs DEF U
      <4> QED BY <3>2, <4>1, <4>2 DEF m
    <3>11. WindowIn(w, n) = LastOf(k + 2, U) BY <1>5, <2>3, <3>10
    <3>12. \A i \in DOMAIN longer : longer[i].raw \in BOOLEAN /\ longer[i].confirmed \in BOOLEAN
      <4> TAKE i \in DOMAIN longer
      <4>1. CASE i = m + 1 BY <3>4, <3>10, <4>1
      <4>2. CASE i # m + 1
        <5>1. i \in 1 .. m BY <3>4, <4>2
        <5>2. \A j \in DOMAIN own : own[j].raw \in BOOLEAN /\ own[j].confirmed \in BOOLEAN
          BY <2>1, Zenon DEF NodeFiltered, own
        <5> QED BY <3>4, <5>1, <5>2
      <4> QED BY <4>1, <4>2
    <3>13. ASSUME k >= 1, NEW i \in DOMAIN longer
           PROVE  longer[i].confirmed <=> AllOf(U, k, i)
      <4>1. CASE i = m + 1 BY <3>4, <3>10, <3>13, <4>1
      <4>2. CASE i # m + 1
        <5>1. i \in 1 .. m BY <3>4, <4>2
        <5>2. \A j \in DOMAIN own : own[j].confirmed <=> AllOf(V, k, j)
          BY <2>1, <3>13, Zenon DEF NodeFiltered, own, V
        <5>3. i \in 1 .. Len(V) BY <3>2, <5>1 DEF m
        <5>4. AllOf(U, k, i) <=> AllOf(V, k, i)
          BY <3>2, <3>13, <5>3, AllOfAppend DEF U
        <5> QED BY <3>4, <5>1, <5>2, <5>4
      <4> QED BY <4>1, <4>2
    <3>14. OfNode(M, n) = longer BY <3>3 DEF longer, own
    <3> HIDE DEF k
    <3> QED BY <3>8, <3>11, <3>12, <3>13, <3>14 DEF NodeFiltered
  <2> QED BY <2>2, <2>3
<1> QED BY <1>4, <1>6 DEF Filtered, M, w

LEMMA WInit == Init => WInv
<1> SUFFICES ASSUME Init PROVE WInv OBVIOUS
<1>1. /\ experiment \in Experiment /\ log = <<>> /\ windows = <<>> BY DEF Init
<1>2. experiment.k \in Nat BY <1>1, StudyAssumption
<1>3. \A n : OfNode(log, n) = <<>> /\ Raws(log, n) = <<>>
  <2> TAKE n
  <2>1. [i \in DOMAIN log |-> IF log[i].node = n THEN <<log[i]>> ELSE <<>>] = <<>>
    BY <1>1
  <2>2. FlattenSeq(<<>>) = <<>> BY DEF FlattenSeq
  <2>3. OfNode(log, n) = <<>> BY <2>1, <2>2 DEF OfNode
  <2> QED BY <2>3 DEF Raws
<1>4. \A n : WindowIn(windows, n) = <<>> BY <1>1 DEF WindowIn
<1>5. LastOf(experiment.k + 2, <<>>) = <<>>
  <2>1. <<>> \in Seq({}) /\ Len(<<>>) = 0 /\ experiment.k + 2 \in Nat BY <1>2
  <2>2. Held(experiment.k + 2, 0) = 0 BY <1>2 DEF Held
  <2>3. Ends(LastOf(experiment.k + 2, <<>>), <<>>, 0, 0, {})
    BY <2>1, <2>2, LastOfEnds, Zenon
  <2> QED BY <2>3 DEF Ends
<1>6. log \in Seq({}) BY <1>1
<1>7. \A n : NodeFiltered(log, windows, experiment.k, n)
  <2> TAKE n
  <2>1. DOMAIN OfNode(log, n) = {} BY <1>3
  <2> QED BY <1>3, <1>4, <1>5, <2>1 DEF NodeFiltered
<1> QED BY <1>1, <1>2, <1>6, <1>7 DEF WInv, Filtered

LEMMA WNext == WInv /\ [Next]_vars => WInv'
<1> SUFFICES ASSUME WInv, [Next]_vars PROVE WInv' OBVIOUS
<1>1. CASE Stream
  <2>1. PICK score, record, verdict, window, confirmed :
          /\ Judged(File.rows[at[2]], record, score, verdict, window, confirmed)
          /\ windows' = Put(windows, record.node, window)
          /\ log' = Append(log, Entry(record, score, verdict, confirmed))
    BY <1>1, StreamRecord
  <2> DEFINE e == Entry(record, score, verdict, confirmed)
  <2>2. e.node = record.node /\ e.raw = verdict /\ e.confirmed = confirmed
    BY EntryFields
  <2> HIDE DEF e
  <2>3. /\ e.raw \in BOOLEAN
        /\ window = Pushed(WindowIn(windows, e.node), e.raw)
        /\ e.confirmed = Confirmed(window)
    BY <2>1, <2>2, JudgedIs
  <2>4. experiment.k \in Nat /\ Filtered(log, windows, experiment.k) BY DEF WInv
  <2>5. Filtered(Append(log, e), Put(windows, e.node, window), experiment.k)
    BY <2>3, <2>4, FilteredNext
  <2>6. log' = Append(log, e) /\ windows' = Put(windows, e.node, window)
    BY <2>1, <2>2 DEF e
  <2>7. experiment' = experiment BY <1>1 DEF Stream
  <2>8. Filtered(log', windows', experiment'.k) BY <2>5, <2>6, <2>7
  <2> QED BY <2>4, <2>7, <2>8 DEF WInv
<1>2. CASE EndOfStream \/ WriteReport \/ StudyThresholds \/ UNCHANGED vars
  <2>1. experiment' = experiment /\ log' = log /\ windows' = windows
    BY <1>2, Zenon DEF EndOfStream, WriteReport, StudyThresholds, vars
  <2> QED BY <2>1, Zenon DEF WInv
<1> QED BY <1>1, <1>2 DEF Next

(* In every state the window of a node holds the last k + 2 verdicts on    *)
(* the records of that node and of no other (main.py:614-620), and a       *)
(* record is confirmed exactly when the last k of them were anomalies.     *)
THEOREM WInvAlways == Spec => []WInv
<1> QED BY WInit, WNext, PTL DEF Spec

LEMMA FilterImplied == WInv => FiltersAgree
<1> SUFFICES ASSUME WInv, experiment.k >= 1, NEW n
             PROVE  LET own == OfNode(log, n)
                        verdicts == [i \in DOMAIN own |-> own[i].raw]
                        longer == Persistent(verdicts, experiment.k + 1)
                    IN  /\ [i \in DOMAIN own |-> own[i].confirmed]
                             = Persistent(verdicts, experiment.k)
                        /\ \A i \in DOMAIN own : longer[i] => own[i].confirmed
  BY Zenon DEF FiltersAgree
<1> DEFINE own == OfNode(log, n)
           V == Raws(log, n)
           k == experiment.k
<1>1. k \in Nat /\ k \in Nat \ {0} /\ k + 1 \in Nat \ {0} BY DEF WInv
<1>2. NodeFiltered(log, windows, k, n) BY DEF WInv, Filtered
<1>3. PICK S : log \in Seq(S) BY DEF WInv, Filtered
<1> DEFINE T == S \cup {0}
<1>4. log \in Seq(T) /\ 0 \in T
  <2>1. S \subseteq T /\ 0 \in T OBVIOUS
  <2> HIDE DEF T
  <2> QED BY <1>3, <2>1
<1> HIDE DEF T
<1>5. own \in Seq(T) BY <1>4, OfNodeAppend
<1>6. V \in Seq(BOOLEAN) /\ DOMAIN V = DOMAIN own BY <1>2, <1>5, RawsTyped
<1>7. V = [i \in DOMAIN own |-> own[i].raw] BY DEF Raws
<1>8. \A i \in DOMAIN own : /\ own[i].confirmed \in BOOLEAN
                            /\ own[i].confirmed <=> AllOf(V, k, i)
  BY <1>2, Zenon DEF NodeFiltered
<1> HIDE DEF own, V, k
<1>9. /\ Persistent(V, k) = [i \in DOMAIN V |-> Persistent(V, k)[i]]
      /\ \A i \in DOMAIN V :
           /\ Persistent(V, k)[i] \in BOOLEAN
           /\ Persistent(V, k)[i] <=> AllOf(V, k, i)
  BY <1>1, <1>6, PersistentIs
<1>10. \A i \in DOMAIN V : Persistent(V, k + 1)[i] <=> AllOf(V, k + 1, i)
  <2> DEFINE l == k + 1
  <2>1. l \in Nat \ {0} BY <1>1
  <2> HIDE DEF l
  <2>2. \A i \in DOMAIN V : Persistent(V, l)[i] <=> AllOf(V, l, i)
    BY <1>6, <2>1, PersistentIs
  <2> QED BY <2>2 DEF l
<1>11. \A i \in DOMAIN own : own[i].confirmed = Persistent(V, k)[i]
  BY <1>6, <1>8, <1>9
<1>12. [i \in DOMAIN own |-> own[i].confirmed] = Persistent(V, k)
  <2>1. [i \in DOMAIN own |-> own[i].confirmed] = [i \in DOMAIN own |-> Persistent(V, k)[i]]
    BY <1>11
  <2> QED BY <1>6, <1>9, <2>1
<1>13. \A i \in DOMAIN own : AllOf(V, k + 1, i) => AllOf(V, k, i)
  <2> TAKE i \in DOMAIN own
  <2>1. i \in Nat
    <3>1. DOMAIN own = 1 .. Len(own) /\ Len(own) \in Nat BY <1>5, SeqAsFunction
    <3> QED BY <3>1
  <2> QED BY <1>1, <2>1 DEF AllOf
<1>14. \A i \in DOMAIN own : Persistent(V, k + 1)[i] => own[i].confirmed
  BY <1>6, <1>8, <1>10, <1>13
<1> QED BY <1>7, <1>12, <1>14 DEF own, k

(* The sliding windows of the experiment and the counter of the diagnosis  *)
(* confirm the same records of every node, whatever the persistence, the   *)
(* scores and the order in which the nodes take turns (main.py:614-621,    *)
(* diagnose_and_optimize_causal_ft.py:108-123).                            *)
THEOREM FiltersAlwaysAgree == Spec => []FiltersAgree
<1> QED BY WInvAlways, FilterImplied, PTL

-------------------------------------------------------------------------------
(* The elements of a finite set of numbers, in ascending order.            *)
RankIn(S, c) == Cardinality({d \in S : d < c})

LEMMA RankLess ==
  ASSUME NEW S \in SUBSET Nat, IsFiniteSet(S), NEW a \in S, NEW b \in S, a < b
  PROVE  RankIn(S, a) < RankIn(S, b)
<1> DEFINE A == {d \in S : d < a}
           B == {d \in S : d < b}
<1>1. IsFiniteSet(A) /\ IsFiniteSet(B) BY FS_Subset
<1>2. Cardinality(A) \in Nat /\ Cardinality(B) \in Nat BY <1>1, FS_CardinalityType
<1>3. A \subseteq B /\ a \in B /\ a \notin A
  <2>1. \A d \in S : d < a => d < b
    <3> TAKE d \in S
    <3>1. d \in Nat /\ a \in Nat /\ b \in Nat OBVIOUS
    <3> QED BY <3>1
  <2>2. ~ (a < a) OBVIOUS
  <2> QED BY <2>1, <2>2
<1> HIDE DEF A, B
<1>4. Cardinality(A) <= Cardinality(B) /\ (Cardinality(B) = Cardinality(A) => B = A)
  BY <1>1, <1>3, FS_Subset
<1>5. Cardinality(A) # Cardinality(B) BY <1>3, <1>4
<1>6. Cardinality(A) < Cardinality(B) BY <1>2, <1>4, <1>5
<1> QED BY <1>6 DEF RankIn, A, B

(* Every number below the size of the set is the rank of an element.       *)
LEMMA RankOfSome ==
  ASSUME NEW S \in SUBSET Nat, IsFiniteSet(S)
  PROVE  /\ Cardinality(S) \in Nat
         /\ \A c \in S : RankIn(S, c) \in 0 .. Cardinality(S) - 1
         /\ \A i \in 0 .. Cardinality(S) - 1 : \E c \in S : RankIn(S, c) = i
<1> DEFINE n == Cardinality(S)
           f == [c \in S |-> RankIn(S, c)]
           N == 0 .. n - 1
<1>1. n \in Nat BY FS_CardinalityType
<1>2. ASSUME NEW c \in S PROVE RankIn(S, c) \in N
  <2> DEFINE A == {d \in S : d < c}
  <2>1. IsFiniteSet(A) /\ Cardinality(A) \in Nat BY FS_Subset, FS_CardinalityType
  <2>2. A \subseteq S /\ c \notin A OBVIOUS
  <2> HIDE DEF A
  <2>3. Cardinality(A) <= n /\ (n = Cardinality(A) => S = A) BY <2>1, <2>2, FS_Subset
  <2>4. Cardinality(A) # n BY <2>2, <2>3
  <2>5. Cardinality(A) \in 0 .. n - 1 BY <1>1, <2>1, <2>3, <2>4
  <2> QED BY <2>5 DEF RankIn, A
<1>3. \A a, b \in S : RankIn(S, a) = RankIn(S, b) => a = b
  <2> SUFFICES ASSUME NEW a \in S, NEW b \in S, RankIn(S, a) = RankIn(S, b), a # b
               PROVE  FALSE
    OBVIOUS
  <2>1. RankIn(S, a) \in Nat /\ RankIn(S, b) \in Nat BY <1>1, <1>2
  <2>2. a < b \/ b < a
    <3>1. a \in Nat /\ b \in Nat OBVIOUS
    <3> QED BY <3>1
  <2>3. RankIn(S, a) < RankIn(S, b) \/ RankIn(S, b) < RankIn(S, a) BY <2>2, RankLess
  <2> QED BY <2>1, <2>3
<1>4. f \in Injection(S, N)
  <2>1. f \in [S -> N] BY <1>2
  <2>2. \A a, b \in S : f[a] = f[b] => a = b BY <1>3
  <2> HIDE DEF f, N
  <2> QED BY <2>1, <2>2 DEF Injection, IsInjective
<1>5. IsFiniteSet(N) /\ Cardinality(N) = n
  <2>1. 0 \in Int /\ n - 1 \in Int BY <1>1
  <2>2. IsFiniteSet(0 .. n - 1) /\ Cardinality(0 .. n - 1) = IF 0 > n - 1 THEN 0 ELSE n - 1 - 0 + 1
    <3> DEFINE b == n - 1
    <3>1. b \in Int BY <1>1
    <3> HIDE DEF b
    <3>2. IsFiniteSet(0 .. b) /\ Cardinality(0 .. b) = IF 0 > b THEN 0 ELSE b - 0 + 1
      BY <2>1, <3>1, FS_Interval
    <3> QED BY <3>2 DEF b
  <2> QED BY <1>1, <2>2
<1> HIDE DEF f, N
<1>6. f \in Surjection(S, N) BY <1>4, <1>5, FS_Injection DEF n
<1>7. \A i \in N : \E c \in S : f[c] = i BY <1>6 DEF Surjection
<1>8. \A i \in N : \E c \in S : RankIn(S, c) = i BY <1>7 DEF f
<1> QED BY <1>1, <1>2, <1>8 DEF n, N

LEMMA AscendingIs ==
  ASSUME NEW S \in SUBSET Nat, IsFiniteSet(S)
  PROVE  /\ Ascending(S) \in [1 .. Cardinality(S) -> S] /\ Cardinality(S) \in Nat
         /\ \A i, j \in 1 .. Cardinality(S) : i < j => Ascending(S)[i] < Ascending(S)[j]
         /\ \A c \in S : \E i \in 1 .. Cardinality(S) : Ascending(S)[i] = c
<1> DEFINE n == Cardinality(S)
           s == Ascending(S)
<1>1. /\ n \in Nat /\ (\A c \in S : RankIn(S, c) \in 0 .. n - 1)
      /\ \A i \in 0 .. n - 1 : \E c \in S : RankIn(S, c) = i
  BY RankOfSome
<1>2. s = [i \in 1 .. n |-> CHOOSE c \in S : RankIn(S, c) = i - 1]
  BY Zenon DEF Ascending, RankIn
<1> HIDE DEF n, s
<1>3. \A i \in 1 .. n : s[i] \in S /\ RankIn(S, s[i]) = i - 1
  <2> TAKE i \in 1 .. n
  <2>1. i - 1 \in 0 .. n - 1 BY <1>1
  <2>2. \E c \in S : RankIn(S, c) = i - 1 BY <1>1, <2>1
  <2> QED BY <1>2, <2>2
<1>4. s \in [1 .. n -> S] BY <1>2, <1>3
<1>5. ASSUME NEW i \in 1 .. n, NEW j \in 1 .. n, i < j PROVE s[i] < s[j]
  <2> DEFINE a == s[i]
             b == s[j]
  <2>1. a \in S /\ b \in S /\ RankIn(S, a) = i - 1 /\ RankIn(S, b) = j - 1 BY <1>3
  <2> HIDE DEF a, b
  <2>2. a \in Nat /\ b \in Nat BY <2>1
  <2>3. i \in Int /\ j \in Int /\ i - 1 < j - 1 BY <1>1, <1>5
  <2>4. ~ (b < a)
    <3> SUFFICES ASSUME b < a PROVE FALSE OBVIOUS
    <3>1. RankIn(S, b) < RankIn(S, a) BY <2>1, RankLess
    <3> QED BY <2>1, <2>3, <3>1
  <2>5. a # b BY <2>1, <2>3
  <2>6. a < b BY <2>2, <2>4, <2>5
  <2> QED BY <2>6 DEF a, b
<1>6. ASSUME NEW c \in S PROVE \E i \in 1 .. n : s[i] = c
  <2> DEFINE i == RankIn(S, c) + 1
  <2>1. i \in 1 .. n /\ i - 1 = RankIn(S, c) BY <1>1
  <2> HIDE DEF i
  <2>2. s[i] \in S /\ RankIn(S, s[i]) = RankIn(S, c) BY <1>3, <2>1
  <2>3. s[i] = c
    <3> DEFINE a == s[i]
    <3>1. a \in S /\ RankIn(S, a) = RankIn(S, c) /\ RankIn(S, c) \in Nat BY <1>1, <2>2
    <3> HIDE DEF a
    <3>2. a \in Nat /\ c \in Nat BY <3>1
    <3>3. ~ (a < c)
      <4> SUFFICES ASSUME a < c PROVE FALSE OBVIOUS
      <4>1. RankIn(S, a) < RankIn(S, c) BY <3>1, RankLess
      <4> QED BY <3>1, <4>1
    <3>4. ~ (c < a)
      <4> SUFFICES ASSUME c < a PROVE FALSE OBVIOUS
      <4>1. RankIn(S, c) < RankIn(S, a) BY <3>1, RankLess
      <4> QED BY <3>1, <4>1
    <3> QED BY <3>2, <3>3, <3>4 DEF a
  <2> QED BY <2>1, <2>3
<1> QED BY <1>1, <1>4, <1>5, <1>6 DEF n, s

(* A finite set of numbers has a largest.                                  *)
LEMMA MaxOfFinite ==
  \A S \in SUBSET Nat : IsFiniteSet(S) /\ S # {} => \E m \in S : \A y \in S : y <= m
<1> DEFINE Lacks(S) == /\ S \in SUBSET Nat /\ IsFiniteSet(S) /\ S # {}
                       /\ ~ \E m \in S : \A y \in S : y <= m
           Bad == {n \in Nat : \E S : Lacks(S) /\ Cardinality(S) = n}
<1>1. ASSUME NEW R, Lacks(R) PROVE FALSE
  <2>1. Cardinality(R) \in Nat BY <1>1, FS_CardinalityType
  <2>2. Bad # {} /\ Bad \in SUBSET Nat BY <1>1, <2>1
  <2>3. PICK n \in Bad : \A m \in Bad : n <= m BY <2>2, LeastNatural
  <2>4. PICK T : Lacks(T) /\ Cardinality(T) = n BY <2>3
  <2>5. PICK x \in T : TRUE BY <2>4
  <2>6. /\ IsFiniteSet(T \ {x}) /\ Cardinality(T \ {x}) \in Nat
        /\ Cardinality(T \ {x}) < n /\ n \in Nat
    BY <2>4, WithoutOne
  <2>7. ~ Lacks(T \ {x})
    <3> SUFFICES ASSUME Lacks(T \ {x}) PROVE FALSE OBVIOUS
    <3>1. Cardinality(T \ {x}) \in Bad BY <2>6
    <3>2. n <= Cardinality(T \ {x}) BY <2>3, <3>1
    <3> QED BY <2>6, <3>2
  <2>8. CASE T \ {x} = {}
    <3>1. x \in Nat BY <2>4
    <3>2. \A y \in T : y <= x BY <2>8, <3>1
    <3> QED BY <2>4, <3>2
  <2>9. CASE T \ {x} # {}
    <3>1. PICK m \in T \ {x} : \A y \in T \ {x} : y <= m BY <2>4, <2>6, <2>7, <2>9
    <3>2. m \in Nat /\ x \in Nat /\ \A y \in T : y \in Nat BY <2>4
    <3>3. CASE x <= m
      <4>1. \A y \in T : y <= m BY <3>1, <3>3
      <4> QED BY <2>4, <4>1
    <3>4. CASE m <= x
      <4>1. \A y \in T : y <= x
        <5> TAKE y \in T
        <5>1. CASE y = x BY <3>2, <5>1
        <5>2. CASE y # x
          <6>1. y <= m /\ y \in Nat BY <3>1, <3>2, <5>2
          <6> QED BY <3>2, <3>4, <6>1
        <5> QED BY <5>1, <5>2
      <4> QED BY <2>4, <4>1
    <3> QED BY <3>2, <3>3, <3>4
  <2> QED BY <2>8, <2>9
<1> QED BY <1>1

-------------------------------------------------------------------------------
(* A fold over a list that keeps the better of two, step by step.          *)
Best(scored, B, s, g) ==
  g[0] = B /\ \A k \in 1 .. Len(s) : g[k] = TakeBetter(g[k - 1], Candidate(scored, s[k]))

Sweep(scored, B, s) == FoldLeft(LAMBDA best, tau : TakeBetter(best, Candidate(scored, tau)), B, s)

LEMMA SweepParts ==
  ASSUME NEW C, NEW V, NEW scored, \A c \in C : Candidate(scored, c) \in V, NEW B \in V, NEW s \in Seq(C)
  PROVE  \E g : Best(scored, B, s, g) /\ Sweep(scored, B, s) = g[Len(s)]
<1> DEFINE n == Len(s)
           P(g) == g = [r \in SUBSET (DOMAIN s) |->
                          IF r = {} THEN B
                          ELSE TakeBetter(g[r \ {Max(r)}], Candidate(scored, s[Max(r)]))]
           h == [p \in V \X (1 .. n) |-> TakeBetter(p[1], Candidate(scored, s[p[2]]))]
           G == CHOOSE g : P(g)
<1>1. Sweep(scored, B, s) = G[DOMAIN s] BY Zenon DEF Sweep, FoldLeft, MapThenFoldSet
<1>2. n \in Nat /\ DOMAIN s = 1 .. n /\ \A i \in 1 .. n : s[i] \in C
  BY SeqAsFunction, ElementOfSeq
<1> HIDE DEF n
<1>3. \A i \in 1 .. n : Candidate(scored, s[i]) \in V BY <1>2
<1>4. \A a, b : a \in V /\ b \in V => TakeBetter(a, b) \in V BY DEF TakeBetter
<1>5. h \in [V \X (1 .. n) -> V] BY <1>3, <1>4
<1>6. PICK g \in [SUBSET (1 .. n) -> V] : FoldStep(g, h, B, n)
  <2> HIDE DEF h
  <2> QED BY <1>2, <1>5, FoldExists
<1>7. P(g)
  <2> DEFINE v(r) == IF r = {} THEN B ELSE TakeBetter(g[r \ {Max(r)}], Candidate(scored, s[Max(r)]))
  <2>1. ASSUME NEW r \in SUBSET (1 .. n) PROVE g[r] = v(r)
    <3>1. CASE r = {} BY <1>6, <3>1 DEF FoldStep
    <3>2. CASE r # {}
      <4>1. Max(r) \in 1 .. n BY <1>2, <3>2, MaxPosition
      <4>2. g[r \ {Max(r)}] \in V BY <1>6
      <4>3. g[r] = h[<<g[r \ {Max(r)}], Max(r)>>] BY <1>6, <3>2 DEF FoldStep
      <4> QED BY <3>2, <4>1, <4>2, <4>3
    <3> QED BY <3>1, <3>2
  <2> HIDE DEF v
  <2>2. g = [r \in SUBSET (1 .. n) |-> v(r)] BY <1>6, <2>1
  <2> QED BY <1>2, <2>2 DEF v
<1>8. P(G)
  <2> HIDE DEF P
  <2> QED BY <1>7, Zenon
<1> HIDE DEF G, h
<1>9. G[1 .. 0] = B
  <2>1. 1 .. 0 = {} OBVIOUS
  <2>2. G[{}] = B BY <1>8
  <2> QED BY <2>1, <2>2
<1>10. ASSUME NEW k \in 1 .. n PROVE G[1 .. k] = TakeBetter(G[1 .. k - 1], Candidate(scored, s[k]))
  <2>1. 1 .. k \in SUBSET (1 .. n) BY <1>2
  <2>2. 1 .. k # {} /\ Max(1 .. k) = k /\ (1 .. k) \ {k} = 1 .. k - 1
    <3>1. k \in Nat /\ k # 0 BY <1>2
    <3> QED BY <3>1, Positions
  <2>3. G[1 .. k] = IF 1 .. k = {} THEN B
                    ELSE TakeBetter(G[(1 .. k) \ {Max(1 .. k)}], Candidate(scored, s[Max(1 .. k)]))
    BY <1>2, <1>8, <2>1
  <2> QED BY <2>2, <2>3
<1> HIDE DEF P
<1> DEFINE f == [k \in 0 .. n |-> G[1 .. k]]
<1>11. f[0] = B BY <1>2, <1>9
<1>12. ASSUME NEW k \in 1 .. n PROVE f[k] = TakeBetter(f[k - 1], Candidate(scored, s[k]))
  <2>1. k \in 0 .. n /\ k - 1 \in 0 .. n BY <1>2
  <2> QED BY <1>10, <2>1
<1>13. f[n] = Sweep(scored, B, s)
  <2>1. n \in 0 .. n BY <1>2
  <2> QED BY <1>1, <1>2, <2>1
<1> HIDE DEF f
<1> QED BY <1>11, <1>12, <1>13 DEF Best, n

(* j is the first of the positions up to k whose value is not exceeded.    *)
FirstBest(v, k, j) ==
  (\A i \in 1 .. k : v[i] <= v[j]) /\ (\A i \in 1 .. j - 1 : v[i] < v[j])

Swept(n, scored, B, s, g, v) ==
  /\ v \in [1 .. n -> Nat] /\ Len(s) = n
  /\ \A i \in 1 .. n : Candidate(scored, s[i]).f1 = v[i]
  /\ B.f1 = -1 /\ Best(scored, B, s, g)

FirstTaken(scored, s, g, v, k) ==
  \E j \in 1 .. k : g[k] = Candidate(scored, s[j]) /\ FirstBest(v, k, j)

LEMMA BestIsFirst ==
  \A n \in Nat : \A scored, B, s, g, v :
    Swept(n, scored, B, s, g, v) => \A k \in 1 .. n : FirstTaken(scored, s, g, v, k)
<1> SUFFICES ASSUME NEW n \in Nat, NEW scored, NEW B, NEW s, NEW g, NEW v,
                    Swept(n, scored, B, s, g, v)
             PROVE  \A k \in 1 .. n : FirstTaken(scored, s, g, v, k)
  OBVIOUS
<1> USE DEF Swept, FirstTaken
<1> DEFINE Good(k) == \E j \in 1 .. k : g[k] = Candidate(scored, s[j]) /\ FirstBest(v, k, j)
           Bad == {k \in Nat : 1 <= k /\ k <= n /\ ~ Good(k)}
<1>1. g[0] = B /\ \A k \in 1 .. n : g[k] = TakeBetter(g[k - 1], Candidate(scored, s[k]))
  BY DEF Best
<1>2. Bad = {}
  <2> SUFFICES ASSUME Bad # {} PROVE FALSE OBVIOUS
  <2>1. PICK k \in Bad : \A y \in Bad : k <= y
    <3>1. Bad \in SUBSET Nat OBVIOUS
    <3> HIDE DEF Bad
    <3> QED BY <3>1, LeastNatural
  <2>2. k \in 1 .. n /\ ~ Good(k) OBVIOUS
  <2>3. v[k] \in Nat /\ Candidate(scored, s[k]).f1 = v[k] /\ \A i \in 1 .. k : v[i] \in Nat BY <2>2
  <2>4. g[k] = TakeBetter(g[k - 1], Candidate(scored, s[k])) BY <1>1, <2>2
  <2>5. CASE k = 1
    <3>1. g[k - 1] = B BY <1>1, <2>5
    <3>2. g[k] = Candidate(scored, s[1]) BY <2>3, <2>4, <2>5, <3>1 DEF TakeBetter, Better
    <3>3. FirstBest(v, k, 1) BY <2>3, <2>5 DEF FirstBest
    <3>4. 1 \in 1 .. k BY <2>5
    <3> QED BY <2>2, <3>2, <3>3, <3>4
  <2>6. CASE k # 1
    <3>1. k - 1 \in Nat /\ 1 <= k - 1 /\ k - 1 <= n /\ ~ (k <= k - 1) BY <2>2, <2>6
    <3>2. k - 1 \notin Bad BY <2>1, <3>1
    <3>3. Good(k - 1) BY <3>1, <3>2
    <3>4. PICK j \in 1 .. k - 1 : g[k - 1] = Candidate(scored, s[j]) /\ FirstBest(v, k - 1, j) BY <3>3
    <3>5. j \in 1 .. k /\ j \in 1 .. n /\ v[j] \in Nat /\ Candidate(scored, s[j]).f1 = v[j] BY <2>2, <2>3
    <3>6. CASE v[k] > v[j]
      <4>1. g[k] = Candidate(scored, s[k]) BY <2>3, <2>4, <3>4, <3>5, <3>6 DEF TakeBetter, Better
      <4>2. \A i \in 1 .. k - 1 : v[i] < v[k]
        <5> TAKE i \in 1 .. k - 1
        <5>1. v[i] <= v[j] /\ v[i] \in Nat BY <2>3, <3>4 DEF FirstBest
        <5> QED BY <2>3, <3>5, <3>6, <5>1
      <4>3. \A i \in 1 .. k : v[i] <= v[k]
        <5> TAKE i \in 1 .. k
        <5>1. CASE i = k BY <2>3, <5>1
        <5>2. CASE i # k
          <6>1. i \in 1 .. k - 1 BY <2>2, <5>2
          <6>2. v[i] < v[k] /\ v[i] \in Nat BY <2>3, <4>2, <6>1
          <6> QED BY <2>3, <6>2
        <5> QED BY <5>1, <5>2
      <4>4. k \in 1 .. k BY <2>2
      <4> QED BY <2>2, <4>1, <4>2, <4>3, <4>4 DEF FirstBest
    <3>7. CASE ~ (v[k] > v[j])
      <4>1. g[k] = Candidate(scored, s[j]) BY <2>3, <2>4, <3>4, <3>5, <3>7 DEF TakeBetter, Better
      <4>2. v[k] <= v[j] BY <2>3, <3>5, <3>7
      <4>3. \A i \in 1 .. k : v[i] <= v[j]
        <5> TAKE i \in 1 .. k
        <5>1. CASE i = k BY <4>2, <5>1
        <5>2. CASE i # k
          <6>1. i \in 1 .. k - 1 BY <2>2, <5>2
          <6> QED BY <3>4, <6>1 DEF FirstBest
        <5> QED BY <5>1, <5>2
      <4>4. \A i \in 1 .. j - 1 : v[i] < v[j] BY <3>4 DEF FirstBest
      <4> QED BY <2>2, <3>5, <4>1, <4>3, <4>4 DEF FirstBest
    <3> QED BY <3>6, <3>7
  <2> QED BY <2>5, <2>6
<1>3. ASSUME NEW k \in 1 .. n PROVE Good(k)
  <2>1. k \in Nat /\ 1 <= k /\ k <= n OBVIOUS
  <2> HIDE DEF Good
  <2>2. ~ Good(k) => k \in Bad BY <2>1
  <2> QED BY <1>2, <2>2
<1> QED BY <1>3

Start == [tau |-> 50, f1 |-> -1, p |-> 0, r |-> 0]

LEMMA F1AtNat ==
  ASSUME NEW S, NEW scored \in Seq(S), NEW tau
  PROVE  F1At(scored, tau) \in Nat
<1> DEFINE truth == Truths(scored)
           verdict == Raw(scored, tau)
<1>1. DOMAIN truth = 1 .. Len(scored) /\ Len(scored) \in Nat
  BY SeqAsFunction DEF Truths
<1> HIDE DEF truth, verdict
<1>2. \A t, w \in BOOLEAN : Cell(truth, verdict, t, w) \in Nat
  <2> TAKE t, w \in BOOLEAN
  <2>1. IsFiniteSet(DOMAIN truth) BY <1>1, FS_Interval
  <2>2. IsFiniteSet({i \in DOMAIN truth : truth[i] = t /\ verdict[i] = w})
    BY <2>1, FS_Subset
  <2> QED BY <2>2, FS_CardinalityType DEF Cell
<1> DEFINE c == ConfusionOf(truth, verdict)
<1>3. c.tp \in Nat /\ c.fp \in Nat /\ c.fn \in Nat BY <1>2 DEF ConfusionOf
<1>4. F1At(scored, tau) = F1Score(c) BY DEF F1At, Scored, truth, verdict
<1> HIDE DEF c
<1> DEFINE x == 2 * c.tp
           y == 2 * c.tp + c.fp + c.fn
<1>5. F1Score(c) = Ratio(x, y) BY Zenon DEF F1Score
<1>6. x \in Nat /\ y \in Nat
  <2> DEFINE p == c.tp
             q == c.fp
             r == c.fn
  <2>1. p \in Nat /\ q \in Nat /\ r \in Nat BY <1>3
  <2> HIDE DEF p, q, r
  <2>2. 2 * p \in Nat /\ 2 * p + q + r \in Nat BY <2>1
  <2> QED BY <2>2 DEF p, q, r
<1> HIDE DEF x, y
<1>7. Ratio(x, y) \in Nat
  <2>1. CASE y <= 0 BY <2>1 DEF Ratio
  <2>2. CASE ~ (y <= 0)
    <3> DEFINE z == 10000 * x
    <3>1. z \in Nat /\ y > 0 BY <1>6, <2>2
    <3> HIDE DEF z
    <3>2. z \div y \in Nat BY <1>6, <3>1
    <3> QED BY <2>2, <3>2 DEF Ratio, z
  <2> QED BY <2>1, <2>2
<1> QED BY <1>4, <1>5, <1>7

(* The candidate the calibration selects: the smallest of the best.        *)
Selects(scored, t) ==
  /\ SweepThresholds(scored) = Candidate(scored, t)
  /\ \A c \in CalibrationGrid : F1At(scored, c) <= F1At(scored, t)
  /\ \A c \in CalibrationGrid : c < t => F1At(scored, c) < F1At(scored, t)

LEMMA CandidateIs ==
  \A scored, t : Candidate(scored, t).tau = t /\ Candidate(scored, t).f1 = F1At(scored, t)
BY DEF Candidate, F1At

LEMMA SweepIs ==
  ASSUME NEW S, NEW scored \in Seq(S)
  PROVE  \E t \in CalibrationGrid : Selects(scored, t)
<1> DEFINE G == CalibrationGrid
           n == Cardinality(G)
           s == Ascending(G)
           V == {Start} \cup {Candidate(scored, c) : c \in G}
           v == [i \in 1 .. n |-> F1At(scored, s[i])]
<1>1. G \in SUBSET Nat /\ IsFiniteSet(G) /\ G # {} BY GridAssumption
<1>2. /\ s \in [1 .. n -> G] /\ n \in Nat
      /\ \A i, j \in 1 .. n : i < j => s[i] < s[j]
      /\ \A c \in G : \E i \in 1 .. n : s[i] = c
  BY <1>1, AscendingIs
<1>3. SweepThresholds(scored) = Sweep(scored, Start, s)
  BY Zenon DEF SweepThresholds, Sweep, Start
<1> HIDE DEF n, s
<1>4. s \in Seq(G) /\ Len(s) = n BY <1>2, FunctionAsSeq
<1>5. Start \in V /\ \A c \in G : Candidate(scored, c) \in V OBVIOUS
<1> HIDE DEF V, G
<1>6. PICK g : Best(scored, Start, s, g) /\ Sweep(scored, Start, s) = g[n]
  BY <1>4, <1>5, SweepParts
<1>7. v \in [1 .. n -> Nat] BY F1AtNat
<1>8. \A i \in 1 .. n : Candidate(scored, s[i]).f1 = v[i] BY CandidateIs
<1>9. Start.f1 = -1 BY DEF Start
<1>10. \A i \in 1 .. n : v[i] = F1At(scored, s[i]) OBVIOUS
<1> HIDE DEF v
<1>11. \A k \in 1 .. n : \E j \in 1 .. k :
         g[k] = Candidate(scored, s[j]) /\ FirstBest(v, k, j)
  <2>1. Swept(n, scored, Start, s, g, v)
    BY <1>4, <1>6, <1>7, <1>8, <1>9, Zenon DEF Swept
  <2>2. \A k \in 1 .. n : FirstTaken(scored, s, g, v, k) BY <1>2, <2>1, BestIsFirst, Zenon
  <2> QED BY <2>2 DEF FirstTaken
<1>12. n \in 1 .. n
  <2>1. 1 .. n # {} BY <1>1, <1>2 DEF G
  <2> QED BY <1>2, <2>1
<1>13. PICK j \in 1 .. n : g[n] = Candidate(scored, s[j]) /\ FirstBest(v, n, j)
  BY <1>11, <1>12
<1>14. \A c \in G : /\ F1At(scored, c) <= F1At(scored, s[j])
                    /\ c < s[j] => F1At(scored, c) < F1At(scored, s[j])
  <2> TAKE c \in G
  <2>1. PICK i \in 1 .. n : s[i] = c BY <1>2
  <2>2. v[i] <= v[j] BY <1>13 DEF FirstBest
  <2>3. ASSUME s[i] < s[j] PROVE v[i] < v[j]
    <3>1. ~ (j < i)
      <4> SUFFICES ASSUME j < i PROVE FALSE OBVIOUS
      <4>1. s[j] < s[i] BY <1>2
      <4>2. s[i] \in Nat /\ s[j] \in Nat BY <1>1, <1>2 DEF G
      <4> QED BY <2>3, <4>1, <4>2
    <3>2. i # j
      <4> SUFFICES ASSUME i = j PROVE FALSE OBVIOUS
      <4>1. s[j] < s[j] /\ s[j] \in Nat BY <1>1, <1>2, <2>3 DEF G
      <4> QED BY <4>1
    <3>3. i \in 1 .. j - 1 BY <1>2, <3>1, <3>2
    <3> QED BY <1>13, <3>3 DEF FirstBest
  <2> QED BY <1>10, <2>1, <2>2, <2>3
<1>15. s[j] \in G BY <1>2
<1> QED BY <1>3, <1>6, <1>13, <1>14, <1>15 DEF Selects, G

(* The candidate the diagnosis marks is one of the best within its reach,  *)
(* and the smallest.                                                       *)
Marked(scored) ==
  {tau \in DiagnosisGrid : \A other \in DiagnosisGrid : F1At(scored, tau) >= F1At(scored, other)}

LEMMA MarkedIs ==
  ASSUME NEW S, NEW scored \in Seq(S)
  PROVE  /\ MarkedThreshold(scored) \in Marked(scored)
         /\ \A y \in Marked(scored) : MarkedThreshold(scored) <= y
<1>1. /\ DiagnosisGrid \in SUBSET Nat /\ IsFiniteSet(DiagnosisGrid) /\ DiagnosisGrid # {}
  <2>1. PICK top \in CalibrationGrid : DiagnosisGrid = {c \in CalibrationGrid : c <= top}
    BY GridAssumption
  <2>2. CalibrationGrid \in SUBSET Nat /\ IsFiniteSet(CalibrationGrid) BY GridAssumption
  <2>3. top \in DiagnosisGrid
    <3>1. top \in Nat BY <2>2
    <3> QED BY <2>1, <3>1
  <2> QED BY <2>1, <2>2, <2>3, FS_Subset
<1> DEFINE Values == {F1At(scored, c) : c \in DiagnosisGrid}
<1>2. Values \in SUBSET Nat BY F1AtNat
<1>3. IsFiniteSet(Values)
  <2> DEFINE f == [c \in DiagnosisGrid |-> F1At(scored, c)]
  <2>1. f \in [DiagnosisGrid -> Values] /\ \A x \in Values : \E c \in DiagnosisGrid : f[c] = x
    OBVIOUS
  <2> HIDE DEF f, Values
  <2>2. f \in Surjection(DiagnosisGrid, Values) BY <2>1 DEF Surjection
  <2> QED BY <1>1, <2>2, FS_Surjection
<1>4. Values # {} BY <1>1
<1> HIDE DEF Values
<1>5. PICK m \in Values : \A y \in Values : y <= m BY <1>2, <1>3, <1>4, MaxOfFinite
<1>6. PICK c \in DiagnosisGrid : F1At(scored, c) = m BY DEF Values
<1>7. \A other \in DiagnosisGrid : F1At(scored, c) >= F1At(scored, other)
  <2> TAKE other \in DiagnosisGrid
  <2>1. F1At(scored, other) \in Values BY DEF Values
  <2>2. F1At(scored, other) <= m /\ F1At(scored, other) \in Nat /\ m \in Nat BY <1>2, <1>5, <2>1
  <2> QED BY <1>6, <2>2
<1>8. c \in Marked(scored) BY <1>7 DEF Marked
<1>9. Marked(scored) \in SUBSET Nat /\ Marked(scored) # {} BY <1>1, <1>8 DEF Marked
<1>10. MarkedThreshold(scored) = Min(Marked(scored)) BY Zenon DEF MarkedThreshold, Marked
<1> QED BY <1>9, <1>10, MinOfNaturals

(* How the two compare.                                                    *)
LEMMA SweepsCompare ==
  ASSUME NEW S, NEW scored \in Seq(S)
  PROVE  IF SweepThresholds(scored).tau \in DiagnosisGrid
         THEN MarkedThreshold(scored) = SweepThresholds(scored).tau
         ELSE F1At(scored, MarkedThreshold(scored)) < SweepThresholds(scored).f1
<1>1. PICK t \in CalibrationGrid : Selects(scored, t) BY SweepIs
<1>2. SweepThresholds(scored).tau = t /\ SweepThresholds(scored).f1 = F1At(scored, t)
  BY <1>1, CandidateIs DEF Selects
<1>3. PICK top \in CalibrationGrid : DiagnosisGrid = {c \in CalibrationGrid : c <= top}
  BY GridAssumption
<1>4. CalibrationGrid \in SUBSET Nat BY GridAssumption
<1> DEFINE m == MarkedThreshold(scored)
<1>5. /\ m \in DiagnosisGrid /\ m \in Marked(scored)
      /\ \A y \in Marked(scored) : m <= y
  BY MarkedIs DEF Marked
<1> HIDE DEF m
<1>6. m \in CalibrationGrid /\ m \in Nat /\ t \in Nat /\ top \in Nat /\ m <= top
  BY <1>3, <1>4, <1>5
<1>7. \A c : F1At(scored, c) \in Nat BY F1AtNat
<1>8. CASE t \in DiagnosisGrid
  <2>1. \A c \in DiagnosisGrid : F1At(scored, t) >= F1At(scored, c)
    BY <1>1, <1>3, <1>7 DEF Selects
  <2>2. t \in Marked(scored) BY <1>8, <2>1 DEF Marked
  <2>3. m <= t BY <1>5, <2>2
  <2>4. ~ (m < t)
    <3> SUFFICES ASSUME m < t PROVE FALSE OBVIOUS
    <3>1. F1At(scored, m) < F1At(scored, t) BY <1>1, <1>6 DEF Selects
    <3>2. F1At(scored, m) >= F1At(scored, t) BY <1>5, <1>8 DEF Marked
    <3> QED BY <1>7, <3>1, <3>2
  <2>5. m = t BY <1>6, <2>3, <2>4
  <2> QED BY <1>2, <1>8, <2>5 DEF m
<1>9. CASE t \notin DiagnosisGrid
  <2>1. ~ (t <= top) BY <1>3, <1>9
  <2>2. m < t BY <1>6, <2>1
  <2>3. F1At(scored, m) < F1At(scored, t) BY <1>1, <1>6, <2>2 DEF Selects
  <2> QED BY <1>2, <1>9, <2>3 DEF m
<1> QED BY <1>8, <1>9

(* The findings are those of the whole log.                                *)
SInv == stage = "done" => /\ findings.selected = SweepThresholds(log)
                          /\ findings.marked \subseteq {MarkedThreshold(log)}

LEMMA SInit == Init => SInv
<1> SUFFICES ASSUME Init PROVE stage # "done" BY DEF SInv
<1> QED BY DEF Init

LEMMA SNext == SInv /\ [Next]_vars => SInv'
<1> SUFFICES ASSUME SInv, [Next]_vars PROVE SInv' OBVIOUS
<1>1. CASE Stream
  <2>1. stage' # "done" BY <1>1 DEF Stream
  <2> QED BY <2>1 DEF SInv
<1>2. CASE EndOfStream
  <2>1. stage' # "done" BY <1>2 DEF EndOfStream
  <2> QED BY <2>1 DEF SInv
<1>3. CASE WriteReport
  <2>1. stage' # "done" BY <1>3 DEF WriteReport
  <2> QED BY <2>1 DEF SInv
<1>4. CASE StudyThresholds
  <2>1. log' = log BY <1>4 DEF StudyThresholds
  <2>2. /\ findings'.selected = SweepThresholds(log)
        /\ findings'.marked \subseteq {MarkedThreshold(log)}
    <3> DEFINE selected == SweepThresholds(log)
               marked == MarkedThreshold(log)
    <3>1. PICK curve \in CurveOutcomes(log) :
            findings' = [ selected |-> selected,
                          marked   |-> IF curve THEN {marked} ELSE {},
                          table    |-> IF curve /\ Tabulated(log) THEN Experiments(log)
                                       ELSE <<>> ]
      BY <1>4, Zenon DEF StudyThresholds
    <3> HIDE DEF selected, marked
    <3>2. findings'.selected = selected /\ findings'.marked = IF curve THEN {marked} ELSE {}
      BY <3>1
    <3>3. findings'.marked \subseteq {marked} BY <3>2
    <3> QED BY <3>2, <3>3 DEF selected, marked
  <2>3. SweepThresholds(log') = SweepThresholds(log) /\ MarkedThreshold(log') = MarkedThreshold(log)
    BY <2>1
  <2> QED BY <2>2, <2>3 DEF SInv
<1>5. CASE UNCHANGED vars
  <2>1. stage' = stage /\ findings' = findings /\ log' = log BY <1>5, Zenon DEF vars
  <2> QED BY <2>1, Zenon DEF SInv
<1> QED BY <1>1, <1>2, <1>3, <1>4, <1>5 DEF Next

LEMMA SweepsImplied == WInv /\ SInv => SweepsAgree
<1> SUFFICES ASSUME WInv, SInv, stage = "done", NEW marked \in findings.marked
             PROVE  IF findings.selected.tau \in DiagnosisGrid
                    THEN marked = findings.selected.tau
                    ELSE F1At(log, marked) < findings.selected.f1
  BY Zenon DEF SweepsAgree
<1>1. PICK S : log \in Seq(S) BY DEF WInv, Filtered
<1>2. IF SweepThresholds(log).tau \in DiagnosisGrid
      THEN MarkedThreshold(log) = SweepThresholds(log).tau
      ELSE F1At(log, MarkedThreshold(log)) < SweepThresholds(log).f1
  BY <1>1, SweepsCompare
<1>3. findings.selected = SweepThresholds(log) /\ findings.marked \subseteq {MarkedThreshold(log)}
  BY DEF SInv
<1>4. marked = MarkedThreshold(log) BY <1>3
<1> QED BY <1>2, <1>3, <1>4, Zenon

(* The calibration and the diagnosis mark the same threshold whenever the  *)
(* one selected is within reach of both, and otherwise the diagnosis has   *)
(* none as good, whatever was scored (calibrate_thresholds.py:66-77,       *)
(* diagnose_and_optimize_causal_ft.py:193-214).                            *)
THEOREM SweepsAlwaysAgree == Spec => []SweepsAgree
<1>1. Spec => []SInv BY SInit, SNext, PTL DEF Spec
<1> QED BY <1>1, WInvAlways, SweepsImplied, PTL


-------------------------------------------------------------------------------
(* The counters: what one record adds to each.                             *)
CellFields  == {"confirmed", "tp", "fp", "fn", "tn"}
StatFields  == CellFields \cup {"total", "attack"}
CategoryFields == {"total", "confirmed"}
CountFields == CellFields \cup {"records", "raw", "inferences", "heuristics", "insufficient"}

(* t has one more in its cell than s, and one more confirmed if c.         *)
OneCell(s, t, label, c) ==
  /\ t["confirmed"] = s["confirmed"] + One(c)
  /\ t["tp"] = s["tp"] + One(label = 1 /\ c)
  /\ t["fp"] = s["fp"] + One(label = 0 /\ c)
  /\ t["fn"] = s["fn"] + One(label = 1 /\ ~c)
  /\ t["tn"] = s["tn"] + One(label = 0 /\ ~c)

LEMMA CellIs ==
  \A label \in {0, 1} : \A c \in BOOLEAN :
    /\ label = 1 /\ c => CellOf(label, c) = "tp"
    /\ label = 0 /\ c => CellOf(label, c) = "fp"
    /\ label = 1 /\ ~c => CellOf(label, c) = "fn"
    /\ label = 0 /\ ~c => CellOf(label, c) = "tn"
<1> TAKE label \in {0, 1}
<1> TAKE c \in BOOLEAN
<1>1. CASE label = 1 /\ c BY <1>1 DEF CellOf
<1>2. CASE label = 0 /\ c BY <1>2 DEF CellOf
<1>3. CASE label = 1 /\ ~c BY <1>3 DEF CellOf
<1>4. CASE label = 0 /\ ~c BY <1>4 DEF CellOf
<1> QED BY <1>1, <1>2, <1>3, <1>4

LEMMA CountedIs ==
  ASSUME NEW F, CellFields \subseteq F, NEW s \in [F -> Nat], NEW label \in {0, 1},
         NEW c \in BOOLEAN
  PROVE  /\ Counted(s, label, c) \in [F -> Nat]
         /\ OneCell(s, Counted(s, label, c), label, c)
         /\ \A x \in F \ CellFields : Counted(s, label, c)[x] = s[x]
<1> DEFINE k == One(c)
           r == [s EXCEPT !["confirmed"] = s["confirmed"] + k]
           cell == CellOf(label, c)
           t == [r EXCEPT ![cell] = s[cell] + 1]
<1>1. k \in Nat BY DEF One
<1>2. cell \in {"tp", "fp", "fn", "tn"} BY CellIs
<1>3. Counted(s, label, c) = t BY DEF Counted
<1> HIDE DEF k
<1>4. /\ r \in [F -> Nat] /\ r["confirmed"] = s["confirmed"] + k
      /\ \A x \in F : x # "confirmed" => r[x] = s[x]
  BY <1>1 DEF CellFields
<1> HIDE DEF r, cell
<1>5. /\ t \in [F -> Nat] /\ t[cell] = s[cell] + 1
      /\ \A x \in F : x # cell => t[x] = r[x]
  BY <1>2, <1>4 DEF CellFields
<1> HIDE DEF t
<1>6. \A x \in F \ CellFields : t[x] = s[x]
  BY <1>2, <1>4, <1>5 DEF CellFields
<1>7. t["confirmed"] = s["confirmed"] + k BY <1>2, <1>4, <1>5 DEF CellFields
<1>8. \A x \in {"tp", "fp", "fn", "tn"} : t[x] = s[x] + One(x = cell)
  <2> TAKE x \in {"tp", "fp", "fn", "tn"}
  <2>1. x \in F /\ x # "confirmed" /\ r[x] = s[x] /\ s[x] \in Nat BY <1>4 DEF CellFields
  <2>2. CASE x = cell BY <1>5, <2>1, <2>2 DEF One
  <2>3. CASE x # cell BY <1>5, <2>1, <2>3 DEF One
  <2> QED BY <2>2, <2>3
<1>9. /\ ("tp" = cell) = (label = 1 /\ c) /\ ("fp" = cell) = (label = 0 /\ c)
      /\ ("fn" = cell) = (label = 1 /\ ~c) /\ ("tn" = cell) = (label = 0 /\ ~c)
  <2>1. CASE label = 1 /\ c BY <2>1, CellIs DEF cell
  <2>2. CASE label = 0 /\ c BY <2>2, CellIs DEF cell
  <2>3. CASE label = 1 /\ ~c BY <2>3, CellIs DEF cell
  <2>4. CASE label = 0 /\ ~c BY <2>4, CellIs DEF cell
  <2> QED BY <2>1, <2>2, <2>3, <2>4
<1>10. OneCell(s, t, label, c) BY <1>7, <1>8, <1>9 DEF OneCell, k
<1> QED BY <1>3, <1>5, <1>6, <1>10

LEMMA CountRecordIs ==
  ASSUME NEW s \in [StatFields -> Nat], NEW label \in {0, 1}, NEW c \in BOOLEAN
  PROVE  /\ CountRecord(s, label, c) \in [StatFields -> Nat]
         /\ OneCell(s, CountRecord(s, label, c), label, c)
         /\ CountRecord(s, label, c)["total"] = s["total"] + 1
         /\ CountRecord(s, label, c)["attack"] = s["attack"] + One(label = 1)
<1> DEFINE t == Counted(s, label, c)
           u == CountRecord(s, label, c)
<1>1. /\ t \in [StatFields -> Nat] /\ OneCell(s, t, label, c)
      /\ \A x \in StatFields \ CellFields : t[x] = s[x]
  <2>1. CellFields \subseteq StatFields BY DEF StatFields
  <2> QED BY <2>1, CountedIs
<1>2. u = [[t EXCEPT !["total"] = t["total"] + 1] EXCEPT
             !["attack"] = t["attack"] + One(label = 1)]
  BY DEF CountRecord
<1>3. One(label = 1) \in Nat BY DEF One
<1> HIDE DEF t, u
<1>4. /\ u \in [StatFields -> Nat] /\ u["total"] = t["total"] + 1
      /\ u["attack"] = t["attack"] + One(label = 1)
      /\ \A x \in CellFields : u[x] = t[x]
  BY <1>1, <1>2, <1>3 DEF StatFields, CellFields
<1>5. t["total"] = s["total"] /\ t["attack"] = s["attack"]
  BY <1>1 DEF StatFields, CellFields
<1>6. OneCell(s, u, label, c)
  <2>1. /\ u["confirmed"] = t["confirmed"] /\ u["tp"] = t["tp"] /\ u["fp"] = t["fp"]
        /\ u["fn"] = t["fn"] /\ u["tn"] = t["tn"]
    BY <1>4 DEF CellFields
  <2> QED BY <1>1, <2>1 DEF OneCell
<1> QED BY <1>4, <1>5, <1>6 DEF u

(* A sum over the entries of a dictionary.                                 *)
Column(dict, x) == [k \in DOMAIN dict |-> dict[k][x]]

LEMMA SumOfFieldIs ==
  ASSUME NEW dict, NEW x
  PROVE  SumOfField(dict, x) = SumOver(Column(dict, x), DOMAIN dict)
<1> DEFINE S == DOMAIN dict
           f == Column(dict, x)
           P(g) == g = [s \in SUBSET S |->
                          IF s = {} THEN 0
                          ELSE dict[CHOOSE y \in s : TRUE][x] + g[s \ {CHOOSE y \in s : TRUE}]]
           Q(g) == SumRec(f, S, g)
<1>1. \A g : P(g) <=> Q(g)
  <2> TAKE g
  <2>1. ASSUME NEW s \in SUBSET S, s # {} PROVE dict[Pick(s)][x] = f[Pick(s)]
    <3>1. Pick(s) \in S BY <2>1, PickIn
    <3> QED BY <3>1 DEF Column
  <2> HIDE DEF f
  <2>2. [s \in SUBSET S |-> IF s = {} THEN 0 ELSE dict[Pick(s)][x] + g[s \ {Pick(s)}]]
          = [s \in SUBSET S |-> IF s = {} THEN 0 ELSE f[Pick(s)] + g[s \ {Pick(s)}]]
    BY <2>1
  <2> QED BY <2>2, Zenon DEF SumRec, Pick
<1>2. SumOfField(dict, x) = (CHOOSE g : P(g))[S]
  BY Zenon DEF SumOfField, FoldSet, MapThenFoldSet
<1>3. SumOver(f, S) = (CHOOSE g : Q(g))[S] BY Zenon DEF SumOver, SumFn
<1> HIDE DEF P, Q
<1>4. (CHOOSE g : P(g)) = (CHOOSE g : Q(g)) BY <1>1, Zenon
<1> QED BY <1>2, <1>3, <1>4

(* One entry of a dictionary set: the sum changes by what it adds.         *)
Stats(s, F) == IsFiniteSet(DOMAIN s) /\ s \in [DOMAIN s -> [F -> Nat]]

Zeros(none, F) == none \in [F -> Nat] /\ \A x \in F : none[x] = 0

LEMMA NoneCounted ==
  Zeros(NoRecords, StatFields) /\ Zeros(NoneOfCategory, CategoryFields)
BY DEF Zeros, NoRecords, StatFields, CellFields, NoneOfCategory, CategoryFields

LEMMA EntryTyped ==
  ASSUME NEW F, NEW none, Zeros(none, F), NEW s, Stats(s, F), NEW key
  PROVE  EntryOf(s, key, none) \in [F -> Nat]
<1>1. CASE key \in DOMAIN s BY <1>1 DEF EntryOf, Stats
<1>2. CASE key \notin DOMAIN s BY <1>2 DEF EntryOf, Zeros
<1> QED BY <1>1, <1>2

LEMMA PutSum ==
  ASSUME NEW F, NEW none, Zeros(none, F), NEW s, Stats(s, F), NEW key,
         NEW new \in [F -> Nat], NEW x \in F
  PROVE  /\ Stats(Put(s, key, new), F)
         /\ SumOfField(s, x) \in Int
         /\ SumOfField(Put(s, key, new), x)
              = SumOfField(s, x) + (new[x] - EntryOf(s, key, none)[x])
<1> DEFINE D == DOMAIN s
           t == Put(s, key, new)
           f == Column(s, x)
           g == Column(t, x)
           E == D \cup {key}
           h == [k \in E |-> IF k \in D THEN f[k] ELSE 0]
<1>1. DOMAIN t = E /\ t[key] = new /\ \A k \in D : k # key => t[k] = s[k] BY DEF Put
<1>2. IsFiniteSet(D) /\ IsFiniteSet(E) BY FS_AddElement DEF Stats
<1>3. t = [k \in E |-> t[k]] BY <1>1 DEF Put
<1> HIDE DEF t, D
<1>4. \A k \in D : s[k] \in [F -> Nat] BY DEF Stats, D
<1>5. Stats(t, F)
  <2>1. \A k \in E : t[k] \in [F -> Nat] BY <1>1, <1>4
  <2>2. t \in [E -> [F -> Nat]] BY <1>3, <2>1
  <2> QED BY <1>1, <1>2, <2>2 DEF Stats
<1>6. \A k \in D : f[k] = s[k][x] /\ f[k] \in Int BY <1>4 DEF Column, D
<1>7. \A k \in E : g[k] = t[k][x] /\ g[k] \in Int
  <2>1. \A k \in E : t[k] \in [F -> Nat] BY <1>1, <1>4
  <2> QED BY <1>1, <2>1 DEF Column
<1>8. SumOver(f, D) \in Int BY <1>2, <1>6, SumType
<1>9. SumOver(f, D) = SumOver(h, D)
  <2>1. \A k \in D : f[k] = h[k] OBVIOUS
  <2> HIDE DEF f, h
  <2> QED BY <2>1, SumSame
<1>10. \A k \in E : h[k] \in Int BY <1>6
<1>11. SumOver(h, E) = SumOver(h, D)
  <2>1. CASE key \in D
    <3>1. E = D BY <2>1
    <3> QED BY <3>1
  <2>2. CASE key \notin D
    <3>1. E \ {key} = D /\ key \in E /\ h[key] = 0 BY <2>2
    <3> HIDE DEF h, E
    <3>2. SumOver(h, E) = h[key] + SumOver(h, E \ {key}) BY <1>2, <1>10, <3>1, SumRemove
    <3>3. SumOver(h, D) \in Int BY <1>8, <1>9
    <3> QED BY <3>1, <3>2, <3>3
  <2> QED BY <2>1, <2>2
<1>12. h[key] = EntryOf(s, key, none)[x] /\ g[key] = new[x]
  <2>1. g[key] = new[x] BY <1>1, <1>7
  <2>2. CASE key \in D BY <1>6, <2>1, <2>2 DEF EntryOf, D
  <2>3. CASE key \notin D BY <2>1, <2>3 DEF EntryOf, D, Zeros
  <2> QED BY <2>2, <2>3
<1>13. \A k \in E : k # key => h[k] = g[k] BY <1>1, <1>6, <1>7
<1> HIDE DEF f, g, h
<1>14. SumOver(g, E) = SumOver(h, E) + (g[key] - h[key])
  <2>1. \A k \in E : h[k] \in Int /\ g[k] \in Int BY <1>7, <1>10
  <2>2. key \in E OBVIOUS
  <2> HIDE DEF E
  <2> QED BY <1>2, <1>13, <2>1, <2>2, SumChange
<1>15. SumOfField(s, x) = SumOver(f, D) BY SumOfFieldIs DEF f, D
<1>16. SumOfField(t, x) = SumOver(g, E) BY <1>1, SumOfFieldIs DEF g
<1> QED BY <1>5, <1>8, <1>9, <1>11, <1>12, <1>14, <1>15, <1>16 DEF t

-------------------------------------------------------------------------------
(* What one record does to the position, the counters and the lists.       *)
Tallied(record, verdict, confirmed, result) ==
  counts' =
    [Counted(counts, record.label, confirmed) EXCEPT
       !.records = @ + 1, !.raw = @ + One(verdict),
       !.inferences = @ + One(result # <<>> /\ result.status = "CAUSAL_INFERENCE"),
       !.insufficient = @ + One(result # <<>> /\ result.status = "INSUFFICIENT_EVIDENCE")]

Analysed(record, confirmed, result) ==
  /\ history' = LastOf(HistoryLength, Append(history, record))
  /\ result \in IF AnalysisDue(confirmed) THEN Analyses(history', record.node) ELSE {<<>>}
  /\ causal' = IF result = <<>> THEN causal
               ELSE Append(causal, CausalRow(counts.records, record, result))

Handled(row, record, score, verdict, confirmed, result) ==
  /\ record = RecordOf(experiment.dataset, row, File.device, last)
  /\ verdict \in BOOLEAN /\ confirmed \in BOOLEAN
  /\ log' = Append(log, Entry(record, score, verdict, confirmed))
  /\ devices' = DeviceCounted(record.device, record.label, confirmed)
  /\ attacks' = CategoryCounted(record.category, confirmed)
  /\ Analysed(record, confirmed, result)
  /\ Tallied(record, verdict, confirmed, result)

LEMMA StreamHandles ==
  Stream =>
    /\ stage = "stream" /\ ~Exhausted /\ ~LimitReached /\ at' = NextAt
    /\ experiment' = experiment /\ stage' = stage /\ report' = report
    /\ \E record, score, verdict, confirmed, result :
         Handled(File.rows[at[2]], record, score, verdict, confirmed, result)
<1> HAVE Stream
<1> DEFINE row == File.rows[at[2]]
<1>1. PICK score \in Scores : ProcessRecord(row, score) BY Zenon DEF Stream
<1>2. /\ stage = "stream" /\ ~Exhausted /\ ~LimitReached
      /\ experiment' = experiment /\ stage' = stage /\ report' = report
  BY Zenon DEF Stream
<1> HIDE DEF row
<1> DEFINE record    == RecordOf(experiment.dataset, row, File.device, last)
           verdict   == IsFault(score)
           window    == Pushed(WindowOf(record.node), verdict)
           confirmed == Confirmed(window)
           recent    == LastOf(HistoryLength, Append(history, record))
<1>3. /\ at' = NextAt /\ history' = recent
      /\ log' = Append(log, Entry(record, score, verdict, confirmed))
      /\ devices' = DeviceCounted(record.device, record.label, confirmed)
      /\ attacks' = CategoryCounted(record.category, confirmed)
  BY <1>1, Zenon DEF ProcessRecord, Entry
<1>4. PICK result \in IF AnalysisDue(confirmed) THEN Analyses(recent, record.node) ELSE {<<>>} :
        /\ causal' = IF result = <<>> THEN causal
                     ELSE Append(causal, CausalRow(counts.records, record, result))
        /\ Tallied(record, verdict, confirmed, result)
  BY <1>1, Zenon DEF ProcessRecord, Tallied
<1>5. verdict \in BOOLEAN /\ confirmed \in BOOLEAN
  <2>1. IsFault(score) \in BOOLEAN BY DEF IsFault
  <2>2. Confirmed(window) \in BOOLEAN BY DEF Confirmed
  <2> QED BY <2>1, <2>2
<1>6. record = RecordOf(experiment.dataset, row, File.device, last) OBVIOUS
<1> HIDE DEF record, verdict, window, confirmed
<1>7. Analysed(record, confirmed, result) BY <1>3, <1>4, Zenon DEF Analysed
<1> HIDE DEF recent
<1>8. Handled(row, record, score, verdict, confirmed, result)
  BY <1>3, <1>4, <1>5, <1>6, <1>7 DEF Handled
<1> QED BY <1>2, <1>3, <1>8 DEF row

(* The steps that handle no record leave what was counted alone.           *)
LEMMA OthersKeep ==
  EndOfStream \/ WriteReport \/ StudyThresholds \/ UNCHANGED vars =>
    /\ experiment' = experiment /\ at' = at /\ history' = history /\ counts' = counts
    /\ devices' = devices /\ attacks' = attacks /\ causal' = causal /\ log' = log
BY Zenon DEF EndOfStream, WriteReport, StudyThresholds, vars

(* The label of a record is 0 or 1, whatever its row says.                 *)
LEMMA LabelIs ==
  ASSUME NEW row, NEW device, NEW state,
         row.label \in {0, 1, Missing, NormalWord, AttackWord},
         NEW d \in Constructible
  PROVE  RecordOf(d, row, device, state).label \in {0, 1}
<1>1. EdgeLabel(row.label) \in {0, 1} BY DEF EdgeLabel, IsNumber
<1>2. TonLabel(row.label) \in {0, 1} BY DEF TonLabel, IsNumber
<1>3. EdgeRecord(row).label = EdgeLabel(row.label) BY DEF EdgeRecord
<1>4. TonRecord(row, device, state).label = TonLabel(row.label) BY DEF TonRecord
<1>5. CASE d = "edge_iiotset"
  <2>1. RecordOf(d, row, device, state) = EdgeRecord(row) BY <1>5 DEF RecordOf
  <2> QED BY <1>1, <1>3, <2>1
<1>6. CASE d = "ton_iot"
  <2>1. RecordOf(d, row, device, state) = TonRecord(row, device, state)
    BY <1>6 DEF RecordOf
  <2> QED BY <1>2, <1>4, <2>1
<1> QED BY <1>5, <1>6 DEF Constructible

-------------------------------------------------------------------------------
(* The counters of the experiment.                                         *)
LEMMA TalliedIs ==
  ASSUME counts \in [CountFields -> Nat], NEW record, record.label \in {0, 1},
         NEW verdict, NEW confirmed \in BOOLEAN, NEW result,
         Tallied(record, verdict, confirmed, result)
  PROVE  /\ counts' \in [CountFields -> Nat]
         /\ OneCell(counts, counts', record.label, confirmed)
         /\ counts'["records"] = counts["records"] + 1
         /\ counts'["inferences"] = counts["inferences"]
              + One(result # <<>> /\ result.status = "CAUSAL_INFERENCE")
         /\ counts'["insufficient"] = counts["insufficient"]
              + One(result # <<>> /\ result.status = "INSUFFICIENT_EVIDENCE")
<1> DEFINE label == record.label
           t == Counted(counts, label, confirmed)
           a == One(verdict)
           b == One(result # <<>> /\ result.status = "CAUSAL_INFERENCE")
           c == One(result # <<>> /\ result.status = "INSUFFICIENT_EVIDENCE")
<1>1. /\ t \in [CountFields -> Nat] /\ OneCell(counts, t, label, confirmed)
      /\ \A x \in CountFields \ CellFields : t[x] = counts[x]
  <2>1. CellFields \subseteq CountFields BY DEF CountFields
  <2>2. label \in {0, 1} OBVIOUS
  <2> HIDE DEF label
  <2> QED BY <2>1, <2>2, CountedIs
<1>2. a \in Nat /\ b \in Nat /\ c \in Nat BY DEF One
<1>3. counts' = [t EXCEPT !["records"] = t["records"] + 1, !["raw"] = t["raw"] + a,
                          !["inferences"] = t["inferences"] + b,
                          !["insufficient"] = t["insufficient"] + c]
  BY DEF Tallied
<1> HIDE DEF t, a, b, c
<1>4. /\ counts' \in [CountFields -> Nat]
      /\ counts'["records"] = t["records"] + 1
      /\ counts'["inferences"] = t["inferences"] + b
      /\ counts'["insufficient"] = t["insufficient"] + c
      /\ \A x \in CellFields : counts'[x] = t[x]
  BY <1>1, <1>2, <1>3 DEF CountFields, CellFields
<1>5. /\ t["records"] = counts["records"] /\ t["inferences"] = counts["inferences"]
      /\ t["insufficient"] = counts["insufficient"]
  BY <1>1 DEF CountFields, CellFields
<1>6. OneCell(counts, counts', label, confirmed)
  <2>1. /\ counts'["confirmed"] = t["confirmed"] /\ counts'["tp"] = t["tp"]
        /\ counts'["fp"] = t["fp"] /\ counts'["fn"] = t["fn"] /\ counts'["tn"] = t["tn"]
    BY <1>4 DEF CellFields
  <2> QED BY <1>1, <2>1 DEF OneCell
<1> QED BY <1>4, <1>5, <1>6 DEF b, c

(* A dictionary of counters sums up to the counters of the experiment, and *)
(* the attacks of each device are the ones found and the ones missed.      *)
Balanced(dict, F, o) ==
  /\ Stats(dict, F)
  /\ SumOfField(dict, "total") = o["records"]
  /\ SumOfField(dict, "confirmed") = o["tp"] + o["fp"]

AttacksFound(dict, o) ==
  /\ SumOfField(dict, "attack") = o["tp"] + o["fn"]
  /\ \A d \in DOMAIN dict : dict[d]["attack"] = dict[d]["tp"] + dict[d]["fn"]

(* The cells by label and by verdict.                                      *)
LEMMA OneSplits ==
  ASSUME NEW label \in {0, 1}, NEW c \in BOOLEAN
  PROVE  /\ One(label = 1) = One(label = 1 /\ c) + One(label = 1 /\ ~c)
         /\ One(c) = One(label = 1 /\ c) + One(label = 0 /\ c)
         /\ One(label = 1) \in Nat /\ One(c) \in Nat /\ One(label = 1 /\ c) \in Nat
         /\ One(label = 0 /\ c) \in Nat /\ One(label = 1 /\ ~c) \in Nat
<1>1. CASE c
  <2>1. CASE label = 1 BY <1>1, <2>1 DEF One
  <2>2. CASE label = 0 BY <1>1, <2>2 DEF One
  <2> QED BY <2>1, <2>2
<1>2. CASE ~c
  <2>1. CASE label = 1 BY <1>2, <2>1 DEF One
  <2>2. CASE label = 0 BY <1>2, <2>2 DEF One
  <2> QED BY <2>1, <2>2
<1> QED BY <1>1, <1>2

LEMMA BalancedPut ==
  ASSUME NEW F, {"total", "confirmed"} \subseteq F, NEW none, Zeros(none, F),
         NEW dict, NEW o \in [CountFields -> Nat], NEW p, Balanced(dict, F, o),
         NEW label \in {0, 1}, NEW c \in BOOLEAN,
         OneCell(o, p, label, c), p["records"] = o["records"] + 1,
         NEW key, NEW new \in [F -> Nat],
         new["total"] = EntryOf(dict, key, none)["total"] + 1,
         new["confirmed"] = EntryOf(dict, key, none)["confirmed"] + One(c)
  PROVE  Balanced(Put(dict, key, new), F, p)
<1> DEFINE old == EntryOf(dict, key, none)
           t == Put(dict, key, new)
<1>1. Stats(dict, F) BY DEF Balanced
<1>2. old \in [F -> Nat] BY <1>1, EntryTyped
<1>3. \A x \in F : /\ Stats(t, F) /\ SumOfField(dict, x) \in Int
                   /\ SumOfField(t, x) = SumOfField(dict, x) + (new[x] - old[x])
  BY <1>1, PutSum
<1> HIDE DEF old, t
<1>4. old["total"] \in Nat /\ old["confirmed"] \in Nat BY <1>2
<1>5. new["total"] = old["total"] + 1 /\ new["confirmed"] = old["confirmed"] + One(c)
  BY DEF old
<1>6. /\ Stats(t, F)
      /\ SumOfField(t, "total") = SumOfField(dict, "total") + 1
      /\ SumOfField(t, "confirmed") = SumOfField(dict, "confirmed") + One(c)
  <2>1. One(c) \in Nat BY DEF One
  <2> QED BY <1>3, <1>4, <1>5, <2>1
<1>7. /\ SumOfField(dict, "total") = o["records"]
      /\ SumOfField(dict, "confirmed") = o["tp"] + o["fp"]
  BY DEF Balanced
<1>8. o["tp"] \in Nat /\ o["fp"] \in Nat /\ o["records"] \in Nat
  BY DEF CountFields, CellFields
<1>9. p["tp"] = o["tp"] + One(label = 1 /\ c) /\ p["fp"] = o["fp"] + One(label = 0 /\ c)
  BY DEF OneCell
<1>10. SumOfField(t, "total") = p["records"] BY <1>6, <1>7
<1>11. SumOfField(t, "confirmed") = p["tp"] + p["fp"]
  <2> DEFINE a == One(label = 1 /\ c)
             b == One(label = 0 /\ c)
  <2>1. One(c) = a + b /\ a \in Nat /\ b \in Nat BY OneSplits
  <2>2. p["tp"] = o["tp"] + a /\ p["fp"] = o["fp"] + b BY <1>9
  <2> HIDE DEF a, b
  <2> QED BY <1>6, <1>7, <1>8, <2>1, <2>2
<1> QED BY <1>6, <1>10, <1>11 DEF Balanced, t

LEMMA DevicesNext ==
  ASSUME NEW o \in [CountFields -> Nat], NEW p,
         Balanced(devices, StatFields, o), AttacksFound(devices, o),
         NEW key, NEW label \in {0, 1}, NEW c \in BOOLEAN,
         OneCell(o, p, label, c), p["records"] = o["records"] + 1
  PROVE  /\ Balanced(DeviceCounted(key, label, c), StatFields, p)
         /\ AttacksFound(DeviceCounted(key, label, c), p)
<1> DEFINE old == EntryOf(devices, key, NoRecords)
           new == CountRecord(old, label, c)
           t == Put(devices, key, new)
<1>1. DeviceCounted(key, label, c) = t BY DEF DeviceCounted
<1>2. Stats(devices, StatFields) /\ Zeros(NoRecords, StatFields)
  BY NoneCounted DEF Balanced
<1>3. old \in [StatFields -> Nat] BY <1>2, EntryTyped
<1> HIDE DEF old
<1>4. /\ new \in [StatFields -> Nat] /\ OneCell(old, new, label, c)
      /\ new["total"] = old["total"] + 1
      /\ new["attack"] = old["attack"] + One(label = 1)
  BY <1>3, CountRecordIs
<1> HIDE DEF new
<1>5. {"total", "confirmed", "attack", "tp", "fn"} \subseteq StatFields
  BY DEF StatFields, CellFields
<1>6. new["confirmed"] = old["confirmed"] + One(c) BY <1>4 DEF OneCell
<1>7. Balanced(t, StatFields, p)
  BY <1>2, <1>4, <1>5, <1>6, BalancedPut DEF old
<1>8. \A x \in StatFields :
        /\ SumOfField(devices, x) \in Int
        /\ SumOfField(t, x) = SumOfField(devices, x) + (new[x] - old[x])
  BY <1>2, <1>4, PutSum DEF old
<1>9. /\ old["attack"] \in Nat /\ old["tp"] \in Nat /\ old["fn"] \in Nat BY <1>3, <1>5
<1> DEFINE a == One(label = 1 /\ c)
           b == One(label = 1 /\ ~c)
<1>10. One(label = 1) = a + b /\ a \in Nat /\ b \in Nat BY OneSplits
<1>11. /\ new["tp"] = old["tp"] + a /\ new["fn"] = old["fn"] + b
       /\ p["tp"] = o["tp"] + a /\ p["fn"] = o["fn"] + b
  BY <1>4 DEF OneCell
<1> HIDE DEF a, b
<1>12. SumOfField(t, "attack") = p["tp"] + p["fn"]
  <2>1. SumOfField(devices, "attack") = o["tp"] + o["fn"] BY DEF AttacksFound
  <2>2. SumOfField(t, "attack") = (o["tp"] + o["fn"]) + (new["attack"] - old["attack"])
    BY <1>5, <1>8, <2>1
  <2>3. o["tp"] \in Nat /\ o["fn"] \in Nat BY DEF CountFields, CellFields
  <2>4. new["attack"] = old["attack"] + (a + b) BY <1>4, <1>10
  <2> QED BY <1>9, <1>10, <1>11, <2>2, <2>3, <2>4
<1>13. old["attack"] = old["tp"] + old["fn"]
  <2>1. CASE key \in DOMAIN devices BY <2>1 DEF old, EntryOf, AttacksFound
  <2>2. CASE key \notin DOMAIN devices
    <3>1. old = NoRecords BY <2>2 DEF old, EntryOf
    <3> QED BY <3>1 DEF NoRecords
  <2> QED BY <2>1, <2>2
<1>14. new["attack"] = new["tp"] + new["fn"] BY <1>4, <1>9, <1>10, <1>11, <1>13
<1>15. ASSUME NEW d \in DOMAIN t PROVE t[d]["attack"] = t[d]["tp"] + t[d]["fn"]
  <2>1. CASE d = key
    <3>1. t[d] = new BY <2>1 DEF Put
    <3> QED BY <1>14, <3>1
  <2>2. CASE d # key
    <3>1. d \in DOMAIN devices /\ t[d] = devices[d] BY <2>2 DEF Put
    <3> QED BY <3>1 DEF AttacksFound
  <2> QED BY <2>1, <2>2
<1> HIDE DEF t
<1>16. AttacksFound(t, p) BY <1>12, <1>15 DEF AttacksFound
<1> QED BY <1>1, <1>7, <1>16

LEMMA CategoriesNext ==
  ASSUME NEW o \in [CountFields -> Nat], NEW p, Balanced(attacks, CategoryFields, o),
         NEW key, NEW label \in {0, 1}, NEW c \in BOOLEAN,
         OneCell(o, p, label, c), p["records"] = o["records"] + 1
  PROVE  Balanced(CategoryCounted(key, c), CategoryFields, p)
<1> DEFINE old == EntryOf(attacks, key, NoneOfCategory)
           new == [total |-> old.total + 1, confirmed |-> old.confirmed + One(c)]
<1>1. CategoryCounted(key, c) = Put(attacks, key, new) BY DEF CategoryCounted
<1>2. Stats(attacks, CategoryFields) /\ Zeros(NoneOfCategory, CategoryFields)
  BY NoneCounted DEF Balanced
<1>3. old \in [CategoryFields -> Nat] BY <1>2, EntryTyped
<1>4. old.total \in Nat /\ old.confirmed \in Nat BY <1>3 DEF CategoryFields
<1> HIDE DEF old
<1>5. /\ new \in [CategoryFields -> Nat]
      /\ new["total"] = old["total"] + 1 /\ new["confirmed"] = old["confirmed"] + One(c)
  <2>1. One(c) \in Nat BY DEF One
  <2> QED BY <1>4, <2>1 DEF CategoryFields
<1> HIDE DEF new
<1>6. {"total", "confirmed"} \subseteq CategoryFields BY DEF CategoryFields
<1>7. Balanced(Put(attacks, key, new), CategoryFields, p)
  BY <1>2, <1>5, <1>6, BalancedPut DEF old
<1> QED BY <1>1, <1>7

-------------------------------------------------------------------------------
(* The files of an experiment, and how many records the adapter has handed *)
(* out when it is to read a row of one of them.                            *)
RowsOf(files) == [f \in DOMAIN files |-> files[f].rows]

InFiles(files, a) ==
  /\ a[1] \in 1 .. Len(files) + 1 /\ a[2] \in Nat \ {0}
  /\ a[1] <= Len(files) => a[2] <= Len(files[a[1]].rows)
  /\ a[1] > Len(files) => a[2] = 1

HandedOut(files, a) == Len(Flat(RowsOf(files), a[1] - 1)) + (a[2] - 1)

RowLists(files, V) ==
  /\ Len(files) \in Nat /\ DOMAIN files = 1 .. Len(files)
  /\ RowsOf(files) \in [1 .. Len(files) -> Seq(V)]
  /\ \A i \in 1 .. Len(files) :
       /\ files[i].rows = RowsOf(files)[i] /\ Len(files[i].rows) \in Nat \ {0}
       /\ \A j \in 1 .. Len(files[i].rows) :
            files[i].rows[j].label \in {0, 1, Missing, NormalWord, AttackWord}

LEMMA FilesAreLists ==
  ASSUME NEW files, FilesOf(files)
  PROVE  \E V : RowLists(files, V)
<1> DEFINE n == Len(files)
           V == UNION {{files[i].rows[j] : j \in DOMAIN files[i].rows} : i \in DOMAIN files}
           g == RowsOf(files)
<1>1. files \in Seq({files[i] : i \in DOMAIN files}) BY DEF FilesOf
<1>2. n \in Nat /\ DOMAIN files = 1 .. n BY <1>1, SeqAsFunction
<1>3. \A i \in 1 .. n :
        /\ files[i].rows \in Seq({files[i].rows[j] : j \in DOMAIN files[i].rows})
        /\ files[i].rows # <<>>
        /\ \A j \in DOMAIN files[i].rows :
             files[i].rows[j].label \in {0, 1, Missing, NormalWord, AttackWord}
  BY <1>2 DEF FilesOf
<1>4. \A i \in 1 .. n : g[i] = files[i].rows BY <1>2 DEF RowsOf
<1>5. \A i \in 1 .. n : /\ files[i].rows \in Seq(V) /\ Len(files[i].rows) \in Nat \ {0}
                        /\ DOMAIN files[i].rows = 1 .. Len(files[i].rows)
  <2> TAKE i \in 1 .. n
  <2> DEFINE r == files[i].rows
             W == {r[j] : j \in DOMAIN r}
  <2>1. r \in Seq(W) /\ r # <<>> BY <1>3
  <2>2. W \subseteq V BY <1>2
  <2> HIDE DEF V, r, W
  <2>3. r \in Seq(V) BY <2>1, <2>2
  <2>4. Len(r) \in Nat /\ DOMAIN r = 1 .. Len(r) BY <2>3, SeqAsFunction
  <2>5. Len(r) # 0 BY <2>1
  <2> QED BY <2>3, <2>4, <2>5 DEF r
<1> HIDE DEF V
<1>6. g \in [1 .. n -> Seq(V)] BY <1>2, <1>5 DEF RowsOf
<1> HIDE DEF n, g
<1>7. \A i \in 1 .. n : \A j \in 1 .. Len(files[i].rows) :
        files[i].rows[j].label \in {0, 1, Missing, NormalWord, AttackWord}
  BY <1>3, <1>5
<1>8. RowLists(files, V) BY <1>2, <1>4, <1>5, <1>6, <1>7, Zenon DEF RowLists, n, g
<1> QED BY <1>8

(* More lists are not shorter.                                             *)
LEMMA FlatLonger ==
  ASSUME NEW V, NEW n \in Nat, NEW g \in [1 .. n -> Seq(V)], NEW k \in 0 .. n
  PROVE  Len(Flat(g, k)) <= Len(Flat(g, n))
<1> DEFINE Bad == {i \in Nat : k <= i /\ i <= n /\ ~ (Len(Flat(g, k)) <= Len(Flat(g, i)))}
<1>0. \A i \in 0 .. n : Flat(g, i) \in Seq(V) /\ Len(Flat(g, i)) \in Nat
  <2> TAKE i \in 0 .. n
  <2>1. Flat(g, i) \in Seq(V) BY FlatStep
  <2> QED BY <2>1, SeqAsFunction
<1>1. Bad = {}
  <2> SUFFICES ASSUME Bad # {} PROVE FALSE OBVIOUS
  <2>1. PICK i \in Bad : \A y \in Bad : i <= y
    <3>1. Bad \in SUBSET Nat OBVIOUS
    <3> HIDE DEF Bad
    <3> QED BY <2>1, <3>1, LeastNatural
  <2>2. i \in Nat /\ k <= i /\ i <= n /\ ~ (Len(Flat(g, k)) <= Len(Flat(g, i))) OBVIOUS
  <2>3. k # i BY <1>0, <2>2
  <2>4. i - 1 \in 0 .. n /\ i - 1 \in Nat /\ i \in 1 .. n /\ k <= i - 1 /\ ~ (i <= i - 1)
    BY <2>2, <2>3
  <2>5. i - 1 \notin Bad BY <2>1, <2>4
  <2>6. Len(Flat(g, k)) <= Len(Flat(g, i - 1)) BY <2>4, <2>5
  <2>7. Flat(g, i) = Flat(g, i - 1) \o g[i] /\ g[i] \in Seq(V) /\ Flat(g, i - 1) \in Seq(V)
    BY <2>4, FlatStep
  <2>8. Len(Flat(g, i)) = Len(Flat(g, i - 1)) + Len(g[i]) /\ Len(g[i]) \in Nat
    BY <2>7, SeqAsFunction, ConcatParts
  <2>9. Len(Flat(g, i - 1)) \in Nat /\ Len(Flat(g, k)) \in Nat BY <1>0, <2>4
  <2> DEFINE x == Len(Flat(g, i - 1))
             y == Len(Flat(g, k))
             z == Len(g[i])
  <2>10. Len(Flat(g, i)) = x + z /\ z \in Nat /\ x \in Nat /\ y \in Nat /\ y <= x
         /\ ~ (y <= Len(Flat(g, i)))
    BY <2>2, <2>6, <2>8, <2>9
  <2> HIDE DEF x, y, z
  <2>11. y <= x + z BY <2>10
  <2> QED BY <2>10, <2>11
<1> QED BY <1>1

LEMMA HandedOutNext ==
  ASSUME NEW files, FilesOf(files), NEW a, InFiles(files, a), a[1] <= Len(files), NEW b,
         b = IF a[2] < Len(files[a[1]].rows) THEN <<a[1], a[2] + 1>> ELSE <<a[1] + 1, 1>>
  PROVE  /\ InFiles(files, b) /\ HandedOut(files, b) = HandedOut(files, a) + 1
         /\ HandedOut(files, a) \in Nat
<1>1. PICK V : RowLists(files, V) BY FilesAreLists
<1> DEFINE n == Len(files)
           g == RowsOf(files)
           i == a[1]
           j == a[2]
           m == Len(files[i].rows)
<1>2. n \in Nat /\ g \in [1 .. n -> Seq(V)] BY <1>1 DEF RowLists
<1>3. i \in 1 .. n /\ j \in Nat \ {0} /\ j <= m BY <1>2 DEF InFiles
<1>4. m \in Nat /\ g[i] = files[i].rows BY <1>1, <1>3 DEF RowLists
<1>5. /\ Flat(g, i) = Flat(g, i - 1) \o g[i] /\ g[i] \in Seq(V)
      /\ Flat(g, i - 1) \in Seq(V)
  <2>1. i - 1 \in 0 .. n BY <1>2, <1>3
  <2> QED BY <1>2, <1>3, <2>1, FlatStep
<1>6. Len(Flat(g, i)) = Len(Flat(g, i - 1)) + m /\ Len(Flat(g, i - 1)) \in Nat
  BY <1>4, <1>5, SeqAsFunction, ConcatParts
<1>7. HandedOut(files, a) = Len(Flat(g, i - 1)) + (j - 1) BY DEF HandedOut
<1>8. HandedOut(files, b) = Len(Flat(g, b[1] - 1)) + (b[2] - 1) BY DEF HandedOut
<1> HIDE DEF g
<1>9. CASE j < m
  <2>1. b[1] = i /\ b[2] = j + 1 BY <1>9
  <2>2. InFiles(files, b) BY <1>2, <1>3, <1>4, <1>9, <2>1 DEF InFiles
  <2> DEFINE x == Len(Flat(g, i - 1))
  <2>3. HandedOut(files, a) = x + (j - 1) BY <1>7
  <2>4. HandedOut(files, b) = x + ((j + 1) - 1)
    <3>1. HandedOut(files, b) = Len(Flat(g, b[1] - 1)) + (b[2] - 1) BY <1>8
    <3> HIDE DEF i, j
    <3> QED BY <2>1, <3>1
  <2>5. x \in Nat /\ j \in Nat \ {0} BY <1>3, <1>6
  <2> HIDE DEF x, i, j
  <2>6. x + ((j + 1) - 1) = (x + (j - 1)) + 1 /\ x + (j - 1) \in Nat BY <2>5
  <2> QED BY <2>2, <2>3, <2>4, <2>6
<1>10. CASE ~ (j < m)
  <2>1. b[1] = i + 1 /\ b[2] = 1 /\ j = m BY <1>3, <1>4, <1>10
  <2>2. InFiles(files, b)
    <3>1. i + 1 \in 1 .. n + 1 BY <1>2, <1>3
    <3>2. ASSUME i + 1 <= n PROVE 1 <= Len(files[i + 1].rows)
      <4> DEFINE k == i + 1
      <4>1. k \in 1 .. n BY <1>2, <1>3, <3>2
      <4> HIDE DEF k
      <4>2. Len(files[k].rows) \in Nat \ {0} BY <1>1, <4>1 DEF RowLists
      <4>3. 1 <= Len(files[k].rows) BY <4>2
      <4> QED BY <4>3 DEF k
    <3> QED BY <2>1, <3>1, <3>2 DEF InFiles
  <2>3. (i + 1) - 1 = i BY <1>3
  <2> DEFINE x == Len(Flat(g, i - 1))
  <2>4. HandedOut(files, a) = x + (m - 1) BY <1>7, <2>1
  <2>5. HandedOut(files, b) = (x + m) + (1 - 1)
    <3>1. HandedOut(files, b) = Len(Flat(g, b[1] - 1)) + (b[2] - 1) BY <1>8
    <3> HIDE DEF i, m, x
    <3>2. b[1] - 1 = i BY <2>1, <2>3
    <3>3. b[2] - 1 = 1 - 1 BY <2>1
    <3>4. Len(Flat(g, i)) = x + m BY <1>6 DEF x
    <3> QED BY <3>1, <3>2, <3>3, <3>4
  <2>6. x \in Nat /\ m \in Nat \ {0} BY <1>3, <1>4, <1>6
  <2> HIDE DEF x, m
  <2>7. (x + m) + (1 - 1) = (x + (m - 1)) + 1 /\ x + (m - 1) \in Nat BY <2>6
  <2> QED BY <2>2, <2>4, <2>5, <2>7
<1> QED BY <1>9, <1>10

LEMMA HandedOutAll ==
  ASSUME NEW files, FilesOf(files), NEW a, InFiles(files, a)
  PROVE  /\ HandedOut(files, a) \in Nat /\ Len(FlattenSeq(RowsOf(files))) \in Nat
         /\ HandedOut(files, a) <= Len(FlattenSeq(RowsOf(files)))
         /\ a[1] > Len(files) => HandedOut(files, a) = Len(FlattenSeq(RowsOf(files)))
<1>1. PICK V : RowLists(files, V) BY FilesAreLists
<1> DEFINE n == Len(files)
           g == RowsOf(files)
           i == a[1]
           j == a[2]
           m == Len(files[i].rows)
<1>2. n \in Nat /\ g \in [1 .. n -> Seq(V)] BY <1>1 DEF RowLists
<1>3. FlattenSeq(g) = Flat(g, n) BY <1>2, FlattenTyped
<1>4. i \in 1 .. n + 1 /\ i - 1 \in 0 .. n /\ j \in Nat \ {0} BY <1>2 DEF InFiles
<1>5. HandedOut(files, a) = Len(Flat(g, i - 1)) + (j - 1) BY DEF HandedOut
<1>6. \A k \in 0 .. n : Len(Flat(g, k)) \in Nat
  <2> TAKE k \in 0 .. n
  <2>1. Flat(g, k) \in Seq(V) BY <1>2, FlatStep
  <2> QED BY <2>1, SeqAsFunction
<1>7. n \in 0 .. n BY <1>2
<1> HIDE DEF g
<1>8. CASE i > n
  <2>1. j = 1 /\ i - 1 = n BY <1>2, <1>4, <1>8 DEF InFiles
  <2>2. HandedOut(files, a) = Len(Flat(g, n)) BY <1>5, <1>6, <1>7, <2>1
  <2> QED BY <1>3, <1>6, <1>7, <2>2 DEF g
<1>9. CASE ~ (i > n)
  <2>1. i \in 1 .. n /\ j <= m BY <1>2, <1>4, <1>9 DEF InFiles
  <2>2. m \in Nat /\ g[i] = files[i].rows BY <1>1, <2>1 DEF RowLists, g
  <2>3. /\ Flat(g, i) = Flat(g, i - 1) \o g[i] /\ g[i] \in Seq(V)
        /\ Flat(g, i - 1) \in Seq(V)
    BY <1>2, <1>4, <2>1, FlatStep
  <2>4. Len(Flat(g, i)) = Len(Flat(g, i - 1)) + m /\ Len(Flat(g, i - 1)) \in Nat
    BY <2>2, <2>3, SeqAsFunction, ConcatParts
  <2>5. i \in 0 .. n BY <2>1
  <2>6. Len(Flat(g, i)) <= Len(Flat(g, n)) /\ Len(Flat(g, n)) \in Nat /\ Len(Flat(g, i)) \in Nat
    BY <1>2, <1>6, <1>7, <2>5, FlatLonger
  <2>7. HandedOut(files, a) \in Nat /\ HandedOut(files, a) <= Len(Flat(g, n))
    <3> DEFINE x == Len(Flat(g, i - 1))
               y == Len(Flat(g, n))
    <3>1. /\ HandedOut(files, a) = x + (j - 1) /\ x \in Nat /\ y \in Nat /\ x + m <= y
          /\ j \in Nat \ {0} /\ j <= m /\ m \in Nat
      BY <1>4, <1>5, <2>1, <2>2, <2>4, <2>6
    <3> HIDE DEF x, y, j, m
    <3>2. x + (j - 1) \in Nat /\ x + (j - 1) <= y BY <3>1
    <3> QED BY <3>1, <3>2 DEF y
  <2> QED BY <1>3, <1>9, <2>6, <2>7 DEF g
<1> QED BY <1>8, <1>9

-------------------------------------------------------------------------------
(* Where the adapter is and what was counted: as many records as were      *)
(* handed out, never more than a limit of one or more; the stream ends     *)
(* when it is exhausted or the limit is reached; and the dictionaries sum  *)
(* up to the counters.                                                     *)
PInv ==
  /\ experiment \in Experiment
  /\ stage = "stream" => experiment.dataset \in Constructible
  /\ InFiles(experiment.files, at)
  /\ counts["records"] = HandedOut(experiment.files, at)
  /\ experiment.limit = NoLimit \/ counts["records"] <= 1 \/ counts["records"] <= experiment.limit
  /\ stage \in {"report", "study", "done"} => Exhausted \/ LimitReached

TInv ==
  /\ counts \in [CountFields -> Nat]
  /\ counts["records"] = (counts["tp"] + counts["fp"]) + (counts["fn"] + counts["tn"])
  /\ Balanced(devices, StatFields, counts) /\ AttacksFound(devices, counts)
  /\ Balanced(attacks, CategoryFields, counts)

LEMMA NoneBalanced ==
  /\ NoCounts \in [CountFields -> Nat]
  /\ \A x \in CountFields : NoCounts[x] = 0
  /\ \A F : Balanced(<<>>, F, NoCounts)
  /\ AttacksFound(<<>>, NoCounts)
<1>1. NoCounts \in [CountFields -> Nat] /\ \A x \in CountFields : NoCounts[x] = 0
  BY DEF NoCounts, CountFields, CellFields
<1>2. DOMAIN <<>> = {} /\ IsFiniteSet({}) BY FS_EmptySet
<1>3. \A F : Stats(<<>>, F) BY <1>2 DEF Stats
<1>4. \A x : SumOfField(<<>>, x) = 0
  <2> TAKE x
  <2>1. SumOfField(<<>>, x) = SumOver(Column(<<>>, x), {}) BY <1>2, SumOfFieldIs
  <2> QED BY <1>2, <2>1, SumUnfold
<1>5. /\ NoCounts["records"] = 0 /\ NoCounts["tp"] = 0 /\ NoCounts["fp"] = 0
      /\ NoCounts["fn"] = 0
  BY <1>1 DEF CountFields, CellFields
<1> QED BY <1>1, <1>2, <1>3, <1>4, <1>5 DEF Balanced, AttacksFound

LEMMA TInit == Init => TInv
<1> HAVE Init
<1>1. counts = NoCounts /\ devices = <<>> /\ attacks = <<>> BY DEF Init
<1>2. /\ NoCounts["records"] = 0 /\ NoCounts["tp"] = 0 /\ NoCounts["fp"] = 0
      /\ NoCounts["fn"] = 0 /\ NoCounts["tn"] = 0
  BY NoneBalanced DEF CountFields, CellFields
<1> QED BY <1>1, <1>2, NoneBalanced DEF TInv

LEMMA PInit == Init => PInv
<1> HAVE Init
<1> DEFINE files == experiment.files
<1>1. /\ experiment \in Experiment /\ counts = NoCounts /\ at = <<1, 1>>
      /\ stage = IF experiment.dataset \in Constructible /\ files # <<>>
                 THEN "stream" ELSE "failed"
  BY DEF Init
<1>2. stage \in {"stream", "failed"} /\ (stage = "stream" => experiment.dataset \in Constructible)
  BY <1>1
<1>3. FilesOf(files) BY <1>1, StudyAssumption
<1>4. PICK V : RowLists(files, V) BY <1>3, FilesAreLists
<1> DEFINE n == Len(files)
<1>5. /\ n \in Nat /\ RowsOf(files) \in [1 .. n -> Seq(V)]
      /\ \A i \in 1 .. n : Len(files[i].rows) \in Nat \ {0}
  BY <1>4 DEF RowLists
<1>6. at[1] = 1 /\ at[2] = 1 BY <1>1
<1>7. 1 <= n => 1 <= Len(files[1].rows)
  <2>1. ASSUME 1 <= n PROVE Len(files[1].rows) \in Nat \ {0}
    <3>1. 1 \in 1 .. n BY <1>5, <2>1
    <3> QED BY <1>5, <3>1
  <2> QED BY <2>1
<1>8. InFiles(files, at) BY <1>5, <1>6, <1>7 DEF InFiles
<1>9. HandedOut(files, at) = 0
  <2>1. Flat(RowsOf(files), 0) = <<>> BY <1>5, FlatStep
  <2>2. at[1] - 1 = 0 /\ at[2] - 1 = 0 BY <1>6
  <2>3. HandedOut(files, at) = Len(Flat(RowsOf(files), 0)) + 0 BY <2>2 DEF HandedOut
  <2> QED BY <2>1, <2>3
<1>10. counts["records"] = 0 BY <1>1, NoneBalanced DEF CountFields, CellFields
<1> QED BY <1>1, <1>2, <1>8, <1>9, <1>10 DEF PInv

LEMMA RecordLabelled ==
  ASSUME PInv, stage = "stream", ~Exhausted,
         NEW row, row = File.rows[at[2]], NEW record,
         record = RecordOf(experiment.dataset, row, File.device, last)
  PROVE  record.label \in {0, 1}
<1> DEFINE files == experiment.files
           i == at[1]
           j == at[2]
<1>1. experiment \in Experiment /\ InFiles(files, at) /\ experiment.dataset \in Constructible
  BY DEF PInv
<1>2. FilesOf(files) BY <1>1, StudyAssumption
<1>3. PICK V : RowLists(files, V) BY <1>2, FilesAreLists
<1>4. Len(files) \in Nat BY <1>3 DEF RowLists
<1>5. i \in 1 .. Len(files) + 1 /\ j \in Nat \ {0} BY <1>1 DEF InFiles
<1>6. ~ (i > Len(files)) BY DEF Exhausted
<1>7. i \in 1 .. Len(files) BY <1>4, <1>5, <1>6
<1>8. j <= Len(files[i].rows) BY <1>1, <1>4, <1>7 DEF InFiles
<1>9. j \in 1 .. Len(files[i].rows)
  <2>1. Len(files[i].rows) \in Nat BY <1>3, <1>7 DEF RowLists
  <2> QED BY <1>5, <1>8, <2>1
<1>10. files[i].rows[j].label \in {0, 1, Missing, NormalWord, AttackWord}
  BY <1>3, <1>7, <1>9, Zenon DEF RowLists
<1>11. row.label \in {0, 1, Missing, NormalWord, AttackWord} BY <1>10, Zenon DEF File
<1> QED BY <1>1, <1>11, LabelIs

LEMMA TNext == PInv /\ TInv /\ [Next]_vars => TInv'
<1> SUFFICES ASSUME PInv, TInv, [Next]_vars PROVE TInv' OBVIOUS
<1>1. CASE Stream
  <2>1. PICK record, score, verdict, confirmed, result :
          Handled(File.rows[at[2]], record, score, verdict, confirmed, result)
    BY <1>1, StreamHandles
  <2>2. stage = "stream" /\ ~Exhausted BY <1>1, StreamHandles
  <2> DEFINE label == record.label
  <2>3. /\ record = RecordOf(experiment.dataset, File.rows[at[2]], File.device, last)
        /\ confirmed \in BOOLEAN /\ Tallied(record, verdict, confirmed, result)
        /\ devices' = DeviceCounted(record.device, label, confirmed)
        /\ attacks' = CategoryCounted(record.category, confirmed)
    BY <2>1, Zenon DEF Handled
  <2>4. label \in {0, 1} BY <2>2, <2>3, RecordLabelled
  <2>5. /\ counts \in [CountFields -> Nat] /\ Balanced(devices, StatFields, counts)
        /\ Balanced(attacks, CategoryFields, counts) /\ AttacksFound(devices, counts)
        /\ counts["records"] = (counts["tp"] + counts["fp"]) + (counts["fn"] + counts["tn"])
    BY DEF TInv
  <2>6. /\ counts' \in [CountFields -> Nat] /\ OneCell(counts, counts', label, confirmed)
        /\ counts'["records"] = counts["records"] + 1
    BY <2>3, <2>4, <2>5, TalliedIs
  <2> HIDE DEF label
  <2>7. Balanced(devices', StatFields, counts') /\ AttacksFound(devices', counts')
    BY <2>3, <2>4, <2>5, <2>6, DevicesNext
  <2>8. Balanced(attacks', CategoryFields, counts')
    BY <2>3, <2>4, <2>5, <2>6, CategoriesNext
  <2>9. counts'["records"] = (counts'["tp"] + counts'["fp"]) + (counts'["fn"] + counts'["tn"])
    <3> DEFINE tp == counts["tp"]
               fp == counts["fp"]
               fn == counts["fn"]
               tn == counts["tn"]
    <3>1. tp \in Nat /\ fp \in Nat /\ fn \in Nat /\ tn \in Nat
      BY <2>5 DEF CountFields, CellFields
    <3>2. counts'["records"] = ((tp + fp) + (fn + tn)) + 1 BY <2>5, <2>6
    <3>3. /\ counts'["tp"] = tp + One(label = 1 /\ confirmed)
          /\ counts'["fp"] = fp + One(label = 0 /\ confirmed)
          /\ counts'["fn"] = fn + One(label = 1 /\ ~confirmed)
          /\ counts'["tn"] = tn + One(label = 0 /\ ~confirmed)
      BY <2>6 DEF OneCell
    <3> HIDE DEF tp, fp, fn, tn
    <3>4. CASE label = 1 /\ confirmed BY <3>1, <3>2, <3>3, <3>4 DEF One
    <3>5. CASE label = 0 /\ confirmed BY <3>1, <3>2, <3>3, <3>5 DEF One
    <3>6. CASE label = 1 /\ ~confirmed BY <3>1, <3>2, <3>3, <3>6 DEF One
    <3>7. CASE label = 0 /\ ~confirmed BY <3>1, <3>2, <3>3, <3>7 DEF One
    <3> QED BY <2>4, <3>4, <3>5, <3>6, <3>7
  <2> QED BY <2>6, <2>7, <2>8, <2>9 DEF TInv
<1>2. CASE EndOfStream \/ WriteReport \/ StudyThresholds \/ UNCHANGED vars
  <2>1. counts' = counts /\ devices' = devices /\ attacks' = attacks
    BY <1>2, OthersKeep
  <2> QED BY <2>1, Zenon DEF TInv
<1> QED BY <1>1, <1>2 DEF Next

LEMMA PNext == PInv /\ TInv /\ [Next]_vars => PInv'
<1> SUFFICES ASSUME PInv, TInv, [Next]_vars PROVE PInv' OBVIOUS
<1> DEFINE files == experiment.files
           r == counts["records"]
<1>1. /\ experiment \in Experiment /\ InFiles(files, at) /\ r = HandedOut(files, at)
      /\ stage = "stream" => experiment.dataset \in Constructible
      /\ experiment.limit = NoLimit \/ r <= 1 \/ r <= experiment.limit
      /\ stage \in {"report", "study", "done"} => Exhausted \/ LimitReached
  BY DEF PInv
<1>2. FilesOf(files) /\ experiment.limit \in Nat \cup {NoLimit} BY <1>1, StudyAssumption
<1>3. CASE Stream
  <2>1. /\ stage = "stream" /\ ~Exhausted /\ ~LimitReached /\ at' = NextAt
        /\ experiment' = experiment /\ stage' = stage
    BY <1>3, StreamHandles
  <2>2. PICK record, score, verdict, confirmed, result :
          Handled(File.rows[at[2]], record, score, verdict, confirmed, result)
    BY <1>3, StreamHandles
  <2>3. /\ record = RecordOf(experiment.dataset, File.rows[at[2]], File.device, last)
        /\ confirmed \in BOOLEAN /\ Tallied(record, verdict, confirmed, result)
    BY <2>2, Zenon DEF Handled
  <2>4. record.label \in {0, 1} BY <2>1, <2>3, RecordLabelled
  <2>5. counts \in [CountFields -> Nat] BY DEF TInv
  <2>6. counts'["records"] = r + 1 BY <2>3, <2>4, <2>5, TalliedIs
  <2>7. at[1] <= Len(files)
    <3>1. PICK V : RowLists(files, V) BY <1>2, FilesAreLists
    <3>2. Len(files) \in Nat BY <3>1 DEF RowLists
    <3>3. at[1] \in 1 .. Len(files) + 1 BY <1>1 DEF InFiles
    <3>4. ~ (at[1] > Len(files)) BY <2>1 DEF Exhausted
    <3> QED BY <3>2, <3>3, <3>4
  <2>8. NextAt = IF at[2] < Len(files[at[1]].rows) THEN <<at[1], at[2] + 1>>
                 ELSE <<at[1] + 1, 1>>
    BY DEF NextAt, File
  <2>9. /\ InFiles(files, NextAt) /\ HandedOut(files, NextAt) = HandedOut(files, at) + 1
        /\ HandedOut(files, at) \in Nat
    BY <1>1, <1>2, <2>7, <2>8, HandedOutNext
  <2>10. experiment.limit = NoLimit \/ r + 1 <= 1 \/ r + 1 <= experiment.limit
    <3>1. r \in Nat BY <1>1, <2>9
    <3>2. experiment.limit = NoLimit \/ ~ (r >= experiment.limit) \/ ~ (r > 0)
      BY <2>1 DEF LimitReached
    <3> HIDE DEF r
    <3> QED BY <1>2, <3>1, <3>2
  <2>11. stage' = "stream" BY <2>1
  <2>12. /\ InFiles(experiment'.files, at')
         /\ counts'["records"] = HandedOut(experiment'.files, at')
    BY <1>1, <2>1, <2>6, <2>9
  <2>13. \/ experiment'.limit = NoLimit \/ counts'["records"] <= 1
         \/ counts'["records"] <= experiment'.limit
    BY <2>1, <2>6, <2>10
  <2> QED BY <1>1, <2>1, <2>11, <2>12, <2>13 DEF PInv
<1>4. CASE EndOfStream \/ WriteReport \/ StudyThresholds \/ UNCHANGED vars
  <2>1. experiment' = experiment /\ at' = at /\ counts' = counts BY <1>4, OthersKeep
  <2>2. Exhausted' = Exhausted /\ LimitReached' = LimitReached
    BY <2>1 DEF Exhausted, LimitReached
  <2>3. /\ stage' = "stream" => stage = "stream"
        /\ stage' \in {"report", "study", "done"} => Exhausted \/ LimitReached
    <3>1. CASE EndOfStream BY <3>1 DEF EndOfStream
    <3>2. CASE WriteReport BY <1>1, <3>2 DEF WriteReport
    <3>3. CASE StudyThresholds BY <1>1, <3>3 DEF StudyThresholds
    <3>4. CASE UNCHANGED vars BY <1>1, <3>4 DEF vars
    <3> QED BY <1>4, <3>1, <3>2, <3>3, <3>4
  <2> QED BY <1>1, <2>1, <2>2, <2>3, Zenon DEF PInv
<1> QED BY <1>3, <1>4 DEF Next

-------------------------------------------------------------------------------
(* The records of a node: as many as the list has, each of them, no other. *)
NodesAt(L, n, k) == {i \in 1 .. k : L[i].node = n}

Picked(s, L, n, k) ==
  /\ IsFiniteSet(NodesAt(L, n, k)) /\ Len(s) = Cardinality(NodesAt(L, n, k))
  /\ \A j \in 1 .. Len(s) : \E i \in NodesAt(L, n, k) : s[j] = L[i]
  /\ \A i \in NodesAt(L, n, k) : \E j \in 1 .. Len(s) : s[j] = L[i]

LEMMA PickedNext ==
  ASSUME NEW S, NEW L \in Seq(S), NEW n, NEW k \in 1 .. Len(L), NEW s \in Seq(S),
         Picked(s, L, n, k - 1)
  PROVE  Picked(s \o Here(L[k], n), L, n, k)
<1> DEFINE A == NodesAt(L, n, k - 1)
           B == NodesAt(L, n, k)
           t == s \o Here(L[k], n)
<1>1. /\ IsFiniteSet(A) /\ Len(s) = Cardinality(A) /\ Len(s) \in Nat
      /\ \A j \in 1 .. Len(s) : \E i \in A : s[j] = L[i]
      /\ \A i \in A : \E j \in 1 .. Len(s) : s[j] = L[i]
  BY SeqAsFunction DEF Picked
<1>2. Len(L) \in Nat /\ k \in Nat /\ k - 1 \in Nat /\ L[k] \in S
  BY SeqAsFunction, ElementOfSeq
<1>3. CASE L[k].node = n
  <2>1. t = Append(s, L[k])
    <3>1. Here(L[k], n) = <<L[k]>> BY <1>3 DEF Here
    <3> QED BY <1>2, <3>1, AppendIsConcat
  <2>2. /\ Len(t) = Len(s) + 1 /\ t[Len(s) + 1] = L[k]
        /\ \A j \in 1 .. Len(s) : t[j] = s[j]
    BY <1>2, <2>1, AppendProperties
  <2>3. B = A \cup {k} /\ k \notin A BY <1>2, <1>3 DEF NodesAt
  <2> HIDE DEF A, B, t
  <2>4. IsFiniteSet(B) /\ Cardinality(B) = Cardinality(A) + 1
    BY <1>1, <2>3, FS_AddElement
  <2>5. ASSUME NEW j \in 1 .. Len(t) PROVE \E i \in B : t[j] = L[i]
    <3>1. CASE j = Len(s) + 1 BY <2>2, <2>3, <3>1
    <3>2. CASE j # Len(s) + 1
      <4>1. j \in 1 .. Len(s) BY <1>1, <2>2, <3>2
      <4>2. PICK i \in A : s[j] = L[i] BY <1>1, <4>1
      <4> QED BY <2>2, <2>3, <4>1, <4>2
    <3> QED BY <3>1, <3>2
  <2>6. ASSUME NEW i \in B PROVE \E j \in 1 .. Len(t) : t[j] = L[i]
    <3>1. CASE i = k
      <4>1. Len(s) + 1 \in 1 .. Len(t) BY <1>1, <2>2
      <4> QED BY <2>2, <3>1, <4>1
    <3>2. CASE i # k
      <4>1. i \in A BY <2>3, <3>2
      <4>2. PICK j \in 1 .. Len(s) : s[j] = L[i] BY <1>1, <4>1
      <4>3. j \in 1 .. Len(t) /\ t[j] = s[j] BY <1>1, <2>2, <4>2
      <4> QED BY <4>2, <4>3
    <3> QED BY <3>1, <3>2
  <2> QED BY <1>1, <2>2, <2>4, <2>5, <2>6 DEF Picked, B, t
<1>4. CASE L[k].node # n
  <2>1. Here(L[k], n) = <<>> BY <1>4 DEF Here
  <2>2. t = s BY <2>1, ConcatEmptySeq
  <2>3. B = A
    <3>1. 1 .. k = (1 .. k - 1) \cup {k} BY <1>2
    <3> QED BY <1>4, <3>1 DEF NodesAt
  <2> QED BY <1>1, <2>2, <2>3 DEF Picked
<1> QED BY <1>3, <1>4

LEMMA OfNodeIs ==
  ASSUME NEW S, NEW L \in Seq(S), NEW n
  PROVE  OfNode(L, n) \in Seq(S) /\ Picked(OfNode(L, n), L, n, Len(L))
<1> DEFINE m == Len(L)
           g == [i \in 1 .. m |-> Here(L[i], n)]
           Bad == {k \in Nat : k <= m /\ ~ Picked(Flat(g, k), L, n, k)}
<1>1. m \in Nat /\ DOMAIN L = 1 .. m /\ \A i \in 1 .. m : L[i] \in S
  BY SeqAsFunction, ElementOfSeq
<1>2. OfNode(L, n) = FlattenSeq(g)
  <2>1. [i \in DOMAIN L |-> IF L[i].node = n THEN <<L[i]>> ELSE <<>>] = g
    BY <1>1 DEF Here
  <2> QED BY <2>1 DEF OfNode
<1>3. \A x \in S : Here(x, n) \in Seq(S) BY DEF Here
<1>4. g \in [1 .. m -> Seq(S)] /\ \A i \in 1 .. m : g[i] = Here(L[i], n) BY <1>1, <1>3
<1> HIDE DEF m, g
<1>5. FlattenSeq(g) = Flat(g, m) /\ FlattenSeq(g) \in Seq(S) BY <1>1, <1>4, FlattenTyped
<1>6. Bad = {}
  <2> SUFFICES ASSUME Bad # {} PROVE FALSE OBVIOUS
  <2>1. PICK k \in Bad : \A y \in Bad : k <= y
    <3>1. Bad \in SUBSET Nat OBVIOUS
    <3> HIDE DEF Bad
    <3> QED BY <2>1, <3>1, LeastNatural
  <2>2. k \in Nat /\ k <= m /\ ~ Picked(Flat(g, k), L, n, k) OBVIOUS
  <2>3. CASE k = 0
    <3>1. Flat(g, 0) = <<>> BY <1>1, <1>4, FlatStep
    <3>2. NodesAt(L, n, 0) = {} BY DEF NodesAt
    <3>3. IsFiniteSet({}) /\ Cardinality({}) = 0 BY FS_EmptySet
    <3>4. Len(<<>>) = 0 OBVIOUS
    <3> DEFINE e == <<>>
               A == NodesAt(L, n, 0)
    <3>5. Len(e) = 0 /\ A = {} /\ 1 .. 0 = {} BY <3>2
    <3> HIDE DEF e, A, Bad
    <3>6. Picked(e, L, n, 0) BY <3>3, <3>5 DEF Picked, A
    <3> QED BY <2>2, <2>3, <3>1, <3>6 DEF e
  <2>4. CASE k # 0
    <3>1. k \in 1 .. m /\ k - 1 \in Nat /\ k - 1 <= m /\ ~ (k <= k - 1) /\ k - 1 \in 0 .. m
      BY <1>1, <2>2, <2>4
    <3>2. k - 1 \notin Bad BY <2>1, <3>1
    <3>3. Picked(Flat(g, k - 1), L, n, k - 1) BY <3>1, <3>2
    <3>4. Flat(g, k) = Flat(g, k - 1) \o g[k] /\ Flat(g, k - 1) \in Seq(S)
      BY <1>1, <1>4, <3>1, FlatStep
    <3>5. Picked(Flat(g, k - 1) \o Here(L[k], n), L, n, k)
      BY <3>1, <3>3, <3>4, PickedNext DEF m
    <3> QED BY <1>4, <2>2, <3>1, <3>4, <3>5
  <2> QED BY <2>3, <2>4
<1>7. m <= m BY <1>1
<1>8. Picked(Flat(g, m), L, n, m) BY <1>1, <1>6, <1>7
<1> QED BY <1>2, <1>5, <1>8 DEF m

(* H holds what the last entries of L were made of.                        *)
Matches(H, L) ==
  /\ Len(H) <= Len(L)
  /\ \A i \in 1 .. Len(H) :
       /\ L[(Len(L) - Len(H)) + i].node = H[i].node
       /\ L[(Len(L) - Len(H)) + i].seen = H[i].features

LEMMA MatchesNext ==
  ASSUME NEW S, NEW H \in Seq(S), NEW T, NEW L \in Seq(T), Matches(H, L),
         NEW record, NEW e, e.node = record.node, e.seen = record.features, NEW h \in Nat
  PROVE  Matches(LastOf(h, Append(H, record)), Append(L, e))
<1> DEFINE U == Append(H, record)
           M == Append(L, e)
           p == Len(H)
           q == Len(L)
           R == LastOf(h, U)
           c == Held(h, Len(U))
           V == S \cup {record}
           W == T \cup {e}
<1>1. p \in Nat /\ q \in Nat /\ p <= q BY SeqAsFunction DEF Matches
<1>2. H \in Seq(V) /\ record \in V /\ L \in Seq(W) /\ e \in W
  <2>1. S \subseteq V /\ record \in V /\ T \subseteq W /\ e \in W OBVIOUS
  <2> HIDE DEF V, W
  <2> QED BY <2>1
<1> HIDE DEF V, W
<1>3. /\ U \in Seq(V) /\ Len(U) = p + 1 /\ U[p + 1] = record
      /\ \A i \in 1 .. p : U[i] = H[i]
  BY <1>2, AppendProperties
<1>4. /\ Len(M) = q + 1 /\ M[q + 1] = e /\ \A i \in 1 .. q : M[i] = L[i]
  BY <1>2, AppendProperties
<1>5. /\ Len(R) = c /\ \A i \in 1 .. c : R[i] = U[(Len(U) - c) + i]
  <2>1. /\ LastOf(h, U) \in Seq(V) /\ Len(LastOf(h, U)) = Held(h, Len(U))
        /\ \A i \in 1 .. Held(h, Len(U)) : LastOf(h, U)[i] = U[Len(U) - Held(h, Len(U)) + i]
    BY <1>3, LastOfIs
  <2> QED BY <2>1
<1>6. c \in Nat /\ c <= p + 1
  <2> DEFINE u == Len(U)
  <2>1. u = p + 1 /\ p \in Nat BY <1>1, <1>3
  <2> HIDE DEF u, p
  <2>2. u \in Nat BY <2>1
  <2>3. Held(h, u) \in Nat /\ Held(h, u) <= p + 1 BY <2>1, <2>2, HeldNat
  <2> QED BY <2>3 DEF u
<1>7. \A i \in 1 .. p : L[(q - p) + i].node = H[i].node /\ L[(q - p) + i].seen = H[i].features
  BY DEF Matches
<1> HIDE DEF U, M, R, c, p, q
<1>8. ASSUME NEW i \in 1 .. c
      PROVE  M[((q + 1) - c) + i].node = R[i].node /\ M[((q + 1) - c) + i].seen = R[i].features
  <2> DEFINE x == ((p + 1) - c) + i
             y == ((q + 1) - c) + i
  <2>1. R[i] = U[x] BY <1>3, <1>5
  <2>2. x \in 1 .. p + 1 /\ y = (q - p) + x BY <1>1, <1>6
  <2> HIDE DEF x, y
  <2>3. CASE x = p + 1
    <3>1. y = q + 1 BY <1>1, <2>2, <2>3
    <3> QED BY <1>3, <1>4, <2>1, <2>3, <3>1 DEF y
  <2>4. CASE x # p + 1
    <3>1. x \in 1 .. p /\ y \in 1 .. q BY <1>1, <2>2, <2>4
    <3>2. U[x] = H[x] /\ M[y] = L[y] BY <1>3, <1>4, <3>1
    <3>3. L[y].node = H[x].node /\ L[y].seen = H[x].features BY <1>7, <2>2, <3>1
    <3> QED BY <2>1, <3>2, <3>3 DEF y
  <2> QED BY <2>3, <2>4
<1>9. Len(R) <= Len(M) BY <1>1, <1>4, <1>5, <1>6
<1>10. Matches(R, M)
  <2>1. Len(R) = c /\ Len(M) = q + 1 BY <1>4, <1>5
  <2> QED BY <1>8, <1>9, <2>1 DEF Matches
<1> QED BY <1>10 DEF R, M, U

-------------------------------------------------------------------------------
(* What an analysis returns: a verdict, and a cause only for a pair of     *)
(* columns that varied among enough records of the node.                   *)
LEMMA GraphListed ==
  \A device : \E k \in Nat : DOMAIN GraphOf(device) = 1 .. k
<1> TAKE device
<1> DEFINE g == GraphOf(device)
           D(t) == \E k \in Nat : DOMAIN t = 1 .. k
<1>1. \A a : D(<<a>>)
  <2> TAKE a
  <2>1. DOMAIN <<a>> = 1 .. 1 OBVIOUS
  <2> QED BY <2>1
<1>2. \A a, b : D(<<a, b>>)
  <2> TAKE a, b
  <2>1. DOMAIN <<a, b>> = 1 .. 2 OBVIOUS
  <2> QED BY <2>1
<1>3. D(<<>>)
  <2>1. DOMAIN <<>> = 1 .. 0 OBVIOUS
  <2> QED BY <2>1
<1>4. \/ g = <<>> \/ (\E a : g = <<a>>) \/ (\E a, b : g = <<a, b>>)
  <2>1. CASE device = "IoT_Weather" BY <2>1 DEF GraphOf
  <2>2. CASE device = "IoT_Motion_Light" BY <2>2 DEF GraphOf
  <2>3. CASE device = "IoT_Fridge" BY <2>3 DEF GraphOf
  <2>4. CASE device = "IoT_Modbus" BY <2>4 DEF GraphOf
  <2>5. CASE device = "IoT_GPS_Tracker" BY <2>5 DEF GraphOf
  <2>6. CASE device = "IoT_Garage_Door" BY <2>6 DEF GraphOf
  <2>7. CASE device \notin {"IoT_Weather", "IoT_Motion_Light", "IoT_Fridge", "IoT_Modbus",
                            "IoT_GPS_Tracker", "IoT_Garage_Door"}
    BY <2>7 DEF GraphOf
  <2> QED BY <2>1, <2>2, <2>3, <2>4, <2>5, <2>6, <2>7
<1> HIDE DEF g, D
<1>5. D(g) BY <1>1, <1>2, <1>3, <1>4
<1> QED BY <1>5 DEF D, g

Backs(records, result) ==
  /\ Len(records) >= MinRecords
  /\ Varies(records, result.pair[1]) /\ Varies(records, result.pair[2])

Evidence(records, result) ==
  /\ result # <<>>
  /\ \/ result.status = "INSUFFICIENT_EVIDENCE"
     \/ result.status = "CAUSAL_INFERENCE" /\ Backs(records, result)

LEMMA InsufficientIs ==
  \A cause, records : Evidence(records, Insufficient(cause))
<1> TAKE cause, records
<1> DEFINE r == Insufficient(cause)
<1>1. r.status = "INSUFFICIENT_EVIDENCE" BY DEF Insufficient
<1>2. "status" \in DOMAIN r BY DEF Insufficient
<1>3. DOMAIN <<>> = {} OBVIOUS
<1> HIDE DEF r
<1>4. r # <<>> BY <1>2, <1>3
<1> QED BY <1>1, <1>4 DEF Evidence, r

LEMMA StrongestIs ==
  ASSUME NEW graph, NEW k \in Nat, DOMAIN graph = 1 .. k,
         NEW E \in SUBSET {graph[i] : i \in DOMAIN graph}, NEW effect \in [E -> Nat], E # {}
  PROVE  \E p \in E : \E top : Strongest(graph, effect) = Inference(p, top)
<1> DEFINE G == {graph[i] : i \in DOMAIN graph}
           X == {effect[p] : p \in DOMAIN effect}
           top == Max(X)
           I == {i \in DOMAIN graph : graph[i] \in DOMAIN effect /\ effect[graph[i]] = top}
           first == Min(I)
<1>1. DOMAIN effect = E /\ \A p \in E : effect[p] \in Nat OBVIOUS
<1>2. IsFiniteSet(E)
  <2> DEFINE N == 1 .. k
             f == [i \in N |-> graph[i]]
  <2>1. IsFiniteSet(N) BY FS_Interval
  <2>2. f \in Surjection(N, G) BY Zenon DEF Surjection
  <2>3. IsFiniteSet(G) BY <2>1, <2>2, FS_Surjection
  <2> QED BY <2>3, FS_Subset
<1>3. IsFiniteSet(X)
  <2>1. effect \in Surjection(E, X) BY <1>1, Zenon DEF Surjection
  <2> HIDE DEF X
  <2> QED BY <1>2, <2>1, FS_Surjection
<1>4. X \in SUBSET Nat /\ X # {} BY <1>1
<1>5. top \in X
  <2> HIDE DEF X
  <2>1. \E m \in X : \A y \in X : y <= m BY <1>3, <1>4, MaxOfFinite
  <2>2. \E m \in X : \A y \in X : m >= y BY <1>4, <2>1
  <2> QED BY <2>2 DEF Max
<1>6. PICK p \in E : effect[p] = top BY <1>1, <1>5
<1> HIDE DEF top
<1>7. I \in SUBSET Nat /\ I # {} BY <1>1, <1>6
<1>8. first \in I
  <2> HIDE DEF I
  <2> QED BY <1>7, MinOfNaturals
<1>9. graph[first] \in E BY <1>1, <1>8
<1>10. Strongest(graph, effect) = Inference(graph[first], top)
  BY Zenon DEF Strongest, top
<1> QED BY <1>9, <1>10

LEMMA AnalysesAre ==
  ASSUME NEW H, NEW n, NEW result \in Analyses(H, n), Len(OfNode(H, n)) \in Nat
  PROVE  Evidence(OfNode(H, n), result)
<1> DEFINE records == OfNode(H, n)
           graph   == GraphOf(Last(records).device)
           pairs   == {p \in {graph[i] : i \in DOMAIN graph} : Estimable(records, p)}
           Found   == {Conclusion(graph, effect) :
                         effect \in UNION {[estimated -> Effects] : estimated \in SUBSET pairs}}
<1>1. result \in IF Len(records) < MinRecords THEN {Insufficient("UNKNOWN")}
                 ELSE IF graph = <<>> THEN {Insufficient("SENSOR_ANOMALY")} ELSE Found
  BY Zenon DEF Analyses
<1>2. PICK k \in Nat : DOMAIN graph = 1 .. k BY GraphListed
<1> HIDE DEF records, graph
<1>3. CASE Len(records) < MinRecords
  <2>1. result = Insufficient("UNKNOWN") BY <1>1, <1>3
  <2> QED BY <2>1, InsufficientIs
<1>4. CASE ~ (Len(records) < MinRecords) /\ graph = <<>>
  <2>1. result = Insufficient("SENSOR_ANOMALY") BY <1>1, <1>4
  <2> QED BY <2>1, InsufficientIs
<1>5. CASE ~ (Len(records) < MinRecords) /\ result \in Found
  <2>1. PICK E \in SUBSET pairs : \E effect \in [E -> Effects] :
               result = Conclusion(graph, effect)
    BY <1>5
  <2>2. PICK effect \in [E -> Effects] : result = Conclusion(graph, effect) BY <2>1
  <2>3. CASE \A p \in DOMAIN effect : effect[p] = 0
    <3>1. result = Insufficient("INSUFFICIENT_VARIANCE") BY <2>2, <2>3, Zenon DEF Conclusion
    <3> QED BY <3>1, InsufficientIs
  <2>4. CASE ~ \A p \in DOMAIN effect : effect[p] = 0
    <3>1. result = Strongest(graph, effect) BY <2>2, <2>4, Zenon DEF Conclusion
    <3>2. E # {} BY <2>4
    <3>3. E \in SUBSET {graph[i] : i \in DOMAIN graph} BY <2>1
    <3>4. effect \in [E -> Nat]
      <4>1. Effects \subseteq Nat BY AnalysisAssumption
      <4> QED BY <4>1
    <3>5. PICK p \in E : \E top : Strongest(graph, effect) = Inference(p, top)
      BY <1>2, <3>2, <3>3, <3>4, StrongestIs
    <3>6. PICK top : result = Inference(p, top) BY <3>1, <3>5
    <3>7. result.status = "CAUSAL_INFERENCE" /\ result.pair = p /\ "status" \in DOMAIN result
      BY <3>6 DEF Inference
    <3>8. result # <<>>
      <4>1. DOMAIN <<>> = {} OBVIOUS
      <4> QED BY <3>7, <4>1
    <3>9. Estimable(records, p) BY <2>1
    <3>10. Len(records) >= MinRecords
      <4>1. MinRecords \in Nat /\ Len(records) \in Nat BY AnalysisAssumption DEF records
      <4> QED BY <1>5, <4>1
    <3>11. Varies(records, p[1]) /\ Varies(records, p[2]) BY <3>9 DEF Estimable
    <3>12. Backs(records, result) BY <3>7, <3>10, <3>11, Zenon DEF Backs
    <3> QED BY <3>7, <3>8, <3>12 DEF Evidence, records
  <2> QED BY <2>3, <2>4
<1> QED BY <1>1, <1>3, <1>4, <1>5

(* A column that varies has two records that tell it.                      *)
LEMMA VariesDiffer ==
  ASSUME NEW S, NEW R \in Seq(S), NEW c, Varies(R, c)
  PROVE  \E i, l \in 1 .. Len(R) :
           /\ c \in DOMAIN R[i].features
           /\ c \in DOMAIN R[l].features => R[i].features[c] # R[l].features[c]
<1>1. DOMAIN R = 1 .. Len(R) BY SeqAsFunction
<1>2. PICK i \in 1 .. Len(R) : c \in DOMAIN R[i].features BY <1>1 DEF Varies
<1> DEFINE v == R[i].features[c]
<1>3. CASE \E l \in 1 .. Len(R) : c \in DOMAIN R[l].features => v # R[l].features[c]
  BY <1>2, <1>3
<1>4. CASE ~ \E l \in 1 .. Len(R) : c \in DOMAIN R[l].features => v # R[l].features[c]
  <2>1. \A l \in 1 .. Len(R) : c \in DOMAIN R[l].features /\ v = R[l].features[c] BY <1>4
  <2>2. Cells(R, c) \subseteq {v}
    <3>1. ASSUME NEW x \in Cells(R, c) PROVE x = v
      <4>1. PICK l \in 1 .. Len(R) :
              x = IF c \in DOMAIN R[l].features THEN R[l].features[c] ELSE 0
        BY <1>1, <3>1 DEF Cells
      <4> QED BY <2>1, <4>1
    <3> QED BY <3>1
  <2>3. IsFiniteSet({v}) /\ Cardinality({v}) = 1 BY FS_Singleton
  <2> HIDE DEF v
  <2> DEFINE A == Cells(R, c)
             B == {v}
  <2>4. A \subseteq B /\ IsFiniteSet(B) /\ Cardinality(B) = 1 BY <2>2, <2>3
  <2>5. Cardinality(A) > 1 BY DEF Varies
  <2> HIDE DEF A, B
  <2>6. Cardinality(A) <= Cardinality(B) /\ IsFiniteSet(A) BY <2>4, FS_Subset
  <2>7. Cardinality(A) \in Nat BY <2>6, FS_CardinalityType
  <2> QED BY <2>4, <2>5, <2>6, <2>7
<1> QED BY <1>3, <1>4

(* The records of a node in a list that matches the end of another are     *)
(* also among those of the other.                                          *)
LEMMA MatchesPicks ==
  ASSUME NEW S, NEW H \in Seq(S), NEW T, NEW L \in Seq(T), Matches(H, L), NEW n
  PROVE  /\ Len(OfNode(H, n)) <= Len(OfNode(L, n))
         /\ Len(OfNode(H, n)) \in Nat /\ Len(OfNode(L, n)) \in Nat
         /\ \A i \in 1 .. Len(OfNode(H, n)) : \E j \in 1 .. Len(OfNode(L, n)) :
              OfNode(L, n)[j].seen = OfNode(H, n)[i].features
<1> DEFINE h == OfNode(H, n)
           l == OfNode(L, n)
           p == Len(H)
           q == Len(L)
           A == NodesAt(H, n, p)
           B == NodesAt(L, n, q)
<1>1. p \in Nat /\ q \in Nat /\ p <= q BY SeqAsFunction DEF Matches
<1>2. /\ h \in Seq(S) /\ IsFiniteSet(A) /\ Len(h) = Cardinality(A)
      /\ \A j \in 1 .. Len(h) : \E i \in A : h[j] = H[i]
  BY OfNodeIs DEF Picked
<1>3. /\ l \in Seq(T) /\ IsFiniteSet(B) /\ Len(l) = Cardinality(B)
      /\ \A i \in B : \E j \in 1 .. Len(l) : l[j] = L[i]
  BY OfNodeIs DEF Picked
<1>4. Len(h) \in Nat /\ Len(l) \in Nat BY <1>2, <1>3, SeqAsFunction
<1>5. \A i \in 1 .. p : /\ L[(q - p) + i].node = H[i].node
                        /\ L[(q - p) + i].seen = H[i].features
  BY DEF Matches
<1> HIDE DEF h, l, p, q
<1>6. A = {i \in 1 .. p : H[i].node = n} /\ B = {i \in 1 .. q : L[i].node = n}
  BY DEF NodesAt
<1>7. \A i \in A : (q - p) + i \in B
  <2> TAKE i \in A
  <2>1. i \in 1 .. p /\ H[i].node = n BY <1>6
  <2>2. (q - p) + i \in 1 .. q BY <1>1, <2>1
  <2>3. L[(q - p) + i].node = n BY <1>5, <2>1
  <2> QED BY <1>6, <2>2, <2>3
<1> DEFINE shift == [i \in A |-> (q - p) + i]
<1>8. Cardinality(A) <= Cardinality(B)
  <2>1. shift \in [A -> B] BY <1>7
  <2>2. \A i, j \in A : shift[i] = shift[j] => i = j
    <3> TAKE i, j \in A
    <3>1. i \in Nat /\ j \in Nat BY <1>1, <1>6
    <3> QED BY <1>1, <3>1
  <2> HIDE DEF shift, A, B
  <2>3. shift \in Injection(A, B) BY <2>1, <2>2, Zenon DEF Injection, IsInjective
  <2> QED BY <1>3, <2>3, FS_Injection
<1>9. ASSUME NEW j \in 1 .. Len(h)
      PROVE  \E x \in 1 .. Len(l) : l[x].seen = h[j].features
  <2>1. PICK i \in A : h[j] = H[i] BY <1>2, <1>9
  <2>2. L[(q - p) + i].seen = H[i].features BY <1>5, <1>6, <2>1
  <2>3. PICK x \in 1 .. Len(l) : l[x] = L[(q - p) + i] BY <1>3, <1>7, <2>1
  <2> QED BY <2>1, <2>2, <2>3
<1> QED BY <1>2, <1>3, <1>4, <1>8, <1>9 DEF h, l

(* What a row of the causal results says of the records seen so far.       *)
Backing(seen, pair) ==
  /\ Len(seen) >= MinRecords
  /\ \A c \in {pair[1], pair[2]} :
       \E j, l \in DOMAIN seen :
         /\ c \in DOMAIN seen[j].seen
         /\ c \in DOMAIN seen[l].seen => seen[j].seen[c] # seen[l].seen[c]

LEMMA BackingIs ==
  ASSUME NEW S, NEW H \in Seq(S), NEW T, NEW L \in Seq(T), Matches(H, L), NEW n,
         NEW result, Backs(OfNode(H, n), result)
  PROVE  Backing(OfNode(L, n), result.pair)
<1> DEFINE h == OfNode(H, n)
           s == OfNode(L, n)
           pair == result.pair
<1>1. /\ Len(h) <= Len(s) /\ Len(h) \in Nat /\ Len(s) \in Nat
      /\ \A i \in 1 .. Len(h) : \E j \in 1 .. Len(s) : s[j].seen = h[i].features
  BY MatchesPicks
<1>2. h \in Seq(S) /\ s \in Seq(T) BY OfNodeIs
<1>3. DOMAIN s = 1 .. Len(s) BY <1>2, SeqAsFunction
<1>4. Len(h) >= MinRecords /\ Varies(h, pair[1]) /\ Varies(h, pair[2]) BY DEF Backs
<1> HIDE DEF h, s, pair
<1>5. Len(s) >= MinRecords BY <1>1, <1>4, AnalysisAssumption
<1>6. ASSUME NEW c, Varies(h, c)
      PROVE  \E j, l \in DOMAIN s :
               /\ c \in DOMAIN s[j].seen
               /\ c \in DOMAIN s[l].seen => s[j].seen[c] # s[l].seen[c]
  <2>1. PICK i, k \in 1 .. Len(h) :
          /\ c \in DOMAIN h[i].features
          /\ c \in DOMAIN h[k].features => h[i].features[c] # h[k].features[c]
    BY <1>2, <1>6, VariesDiffer
  <2>2. PICK j \in 1 .. Len(s) : s[j].seen = h[i].features BY <1>1, <2>1
  <2>3. PICK l \in 1 .. Len(s) : s[l].seen = h[k].features BY <1>1, <2>1
  <2> QED BY <1>3, <2>1, <2>2, <2>3
<1>7. \A c \in {pair[1], pair[2]} :
        \E j, l \in DOMAIN s :
          /\ c \in DOMAIN s[j].seen
          /\ c \in DOMAIN s[l].seen => s[j].seen[c] # s[l].seen[c]
  BY <1>4, <1>6
<1>8. Backing(s, pair) BY <1>5, <1>7, Zenon DEF Backing
<1> QED BY <1>8 DEF s, pair

-------------------------------------------------------------------------------
(* The records so far, the ones kept for the analysis, and the rows of the *)
(* analyses made: one for each verdict that was counted, about a confirmed *)
(* record, and a cause only where the records of the node back it.         *)
Grounded(row, L) ==
  /\ row.index \in Nat /\ row.index < Len(L) /\ L[row.index + 1].confirmed
  /\ row.status = "CAUSAL_INFERENCE" =>
       Backing(OfNode(SubSeq(L, 1, row.index + 1), row.node), row.pair)

Recorded(H, L, R, o) ==
  /\ \E S : H \in Seq(S)
  /\ \E S : L \in Seq(S)
  /\ \E S : R \in Seq(S)
  /\ o["records"] = Len(L) /\ Matches(H, L)
  /\ \A i \in 1 .. Len(R) : Grounded(R[i], L)
  /\ o["inferences"] + o["insufficient"] = Len(R)

RInv == Recorded(history, log, causal, counts)

LEMMA SubSeqOfAppend ==
  ASSUME NEW S, NEW L \in Seq(S), NEW e \in S, NEW m \in 1 .. Len(L) + 1
  PROVE  /\ m <= Len(L) => SubSeq(Append(L, e), 1, m) = SubSeq(L, 1, m)
         /\ m = Len(L) + 1 => SubSeq(Append(L, e), 1, m) = Append(L, e)
<1> DEFINE M == Append(L, e)
           q == Len(L)
           s == SubSeq(M, 1, m)
           r == SubSeq(L, 1, m)
<1>1. q \in Nat /\ \A i \in 1 .. q : L[i] \in S BY SeqAsFunction, ElementOfSeq
<1>2. M \in Seq(S) /\ Len(M) = q + 1 /\ M[q + 1] = e /\ \A i \in 1 .. q : M[i] = L[i]
  BY AppendProperties
<1>3. \A i \in 1 .. q + 1 : M[i] \in S BY <1>1, <1>2
<1> HIDE DEF M, q
<1>4. m \in Nat \ {0} /\ m <= q + 1 BY <1>1 DEF q
<1>5. s \in Seq(S) /\ Len(s) = m /\ \A i \in 1 .. m : s[i] = M[i]
  <2>1. \A i \in 1 .. m : M[i] \in S BY <1>1, <1>3, <1>4
  <2>2. /\ s \in Seq(S) /\ Len(s) = IF 1 <= m THEN m - 1 + 1 ELSE 0
        /\ \A i \in 1 .. m - 1 + 1 : s[i] = M[1 + i - 1]
    BY <1>4, <2>1, SubSeqProperties
  <2> HIDE DEF s
  <2>3. m - 1 + 1 = m /\ \A i \in 1 .. m : 1 + i - 1 = i BY <1>4
  <2> QED BY <1>4, <2>2, <2>3
<1>6. ASSUME m <= q PROVE s = r
  <2>1. \A i \in 1 .. m : L[i] \in S BY <1>1, <1>4, <1>6
  <2>2. /\ r \in Seq(S) /\ Len(r) = IF 1 <= m THEN m - 1 + 1 ELSE 0
        /\ \A i \in 1 .. m - 1 + 1 : r[i] = L[1 + i - 1]
    BY <1>4, <2>1, SubSeqProperties
  <2> HIDE DEF s, r
  <2>3. m - 1 + 1 = m /\ \A i \in 1 .. m : 1 + i - 1 = i BY <1>4
  <2>4. Len(r) = m /\ \A i \in 1 .. m : r[i] = L[i] BY <1>4, <2>2, <2>3
  <2>5. \A i \in 1 .. m : s[i] = r[i] BY <1>1, <1>2, <1>4, <1>5, <1>6, <2>4
  <2> QED BY <1>5, <2>2, <2>4, <2>5, SameSequences
<1>7. ASSUME m = q + 1 PROVE s = M BY <1>2, <1>5, <1>7, SameSequences
<1> QED BY <1>6, <1>7 DEF M, q, s, r

LEMMA GroundedKept ==
  ASSUME NEW S, NEW L \in Seq(S), NEW e \in S, NEW row, Grounded(row, L)
  PROVE  Grounded(row, Append(L, e))
<1> DEFINE q == Len(L)
           x == row.index
           M == Append(L, e)
<1>1. q \in Nat /\ x \in Nat /\ x < q /\ L[x + 1].confirmed BY SeqAsFunction DEF Grounded
<1>2. Len(M) = q + 1 /\ \A i \in 1 .. q : M[i] = L[i] BY AppendProperties
<1>3. x + 1 \in 1 .. q + 1 /\ x + 1 \in 1 .. q BY <1>1
<1>4. SubSeq(M, 1, x + 1) = SubSeq(L, 1, x + 1)
  <2> DEFINE m == x + 1
  <2>1. m \in 1 .. Len(L) + 1 /\ m <= Len(L) BY <1>1, <1>3
  <2> HIDE DEF m, x
  <2>2. SubSeq(M, 1, m) = SubSeq(L, 1, m) BY <2>1, SubSeqOfAppend
  <2> QED BY <2>2 DEF m
<1>5. row.status = "CAUSAL_INFERENCE" => Backing(OfNode(SubSeq(M, 1, x + 1), row.node), row.pair)
  BY <1>4 DEF Grounded
<1> HIDE DEF M, q
<1>6. x < Len(M) /\ M[x + 1].confirmed BY <1>1, <1>2, <1>3
<1> QED BY <1>1, <1>5, <1>6 DEF Grounded, M

(* The row of an analysis of the record that comes last.                   *)
LEMMA GroundedNew ==
  ASSUME NEW A, NEW H \in Seq(A), NEW S, NEW L \in Seq(S), NEW e \in S,
         Matches(H, Append(L, e)), e.confirmed,
         NEW record, NEW result, Evidence(OfNode(H, record.node), result)
  PROVE  Grounded(CausalRow(Len(L), record, result), Append(L, e))
<1> DEFINE q == Len(L)
           M == Append(L, e)
           row == CausalRow(q, record, result)
<1>1. q \in Nat BY SeqAsFunction
<1>2. M \in Seq(S) /\ Len(M) = q + 1 /\ M[q + 1] = e BY AppendProperties
<1>3. row.index = q /\ row.status = result.status /\ row.pair = result.pair
      /\ row.node = record.node
  BY DEF CausalRow
<1>4. SubSeq(M, 1, q + 1) = M
  <2> DEFINE m == q + 1
  <2>1. m \in 1 .. Len(L) + 1 /\ m = Len(L) + 1 BY <1>1
  <2> HIDE DEF m
  <2>2. SubSeq(M, 1, m) = M BY <2>1, SubSeqOfAppend
  <2> QED BY <2>2 DEF m
<1>5. ASSUME result.status = "CAUSAL_INFERENCE"
      PROVE  Backing(OfNode(M, record.node), result.pair)
  <2>1. Backs(OfNode(H, record.node), result) BY <1>5 DEF Evidence
  <2> HIDE DEF M
  <2>2. Matches(H, M) BY DEF M
  <2> QED BY <1>2, <2>1, <2>2, BackingIs
<1> HIDE DEF M, q, row
<1>6. row.status = "CAUSAL_INFERENCE" =>
        Backing(OfNode(SubSeq(M, 1, row.index + 1), row.node), row.pair)
  BY <1>3, <1>4, <1>5
<1>7. row.index < Len(M) /\ M[row.index + 1].confirmed BY <1>1, <1>2, <1>3
<1> QED BY <1>1, <1>3, <1>6, <1>7 DEF Grounded, M, q, row

LEMMA RInit == Init => RInv
<1> HAVE Init
<1>1. history = <<>> /\ log = <<>> /\ causal = <<>> /\ counts = NoCounts BY DEF Init
<1>2. /\ counts["records"] = 0 /\ counts["inferences"] = 0 /\ counts["insufficient"] = 0
  BY <1>1, NoneBalanced DEF CountFields
<1> DEFINE e == <<>>
<1>3. e \in Seq({}) /\ Len(e) = 0 /\ 1 .. 0 = {} OBVIOUS
<1> HIDE DEF e
<1>4. Matches(e, e) BY <1>3 DEF Matches
<1> DEFINE o == NoCounts
<1> HIDE DEF o
<1>5. Recorded(e, e, e, o) BY <1>1, <1>2, <1>3, <1>4 DEF Recorded, o
<1>6. RInv BY <1>1, <1>5 DEF RInv, e, o
<1> QED BY <1>6

LEMMA RNext == PInv /\ TInv /\ RInv /\ [Next]_vars => RInv'
<1> SUFFICES ASSUME PInv, TInv, RInv, [Next]_vars PROVE RInv' OBVIOUS
<1>1. CASE Stream
  <2>1. PICK A, B, C : history \in Seq(A) /\ log \in Seq(B) /\ causal \in Seq(C)
    BY DEF RInv, Recorded
  <2>2. PICK record, score, verdict, confirmed, result :
          Handled(File.rows[at[2]], record, score, verdict, confirmed, result)
    BY <1>1, StreamHandles
  <2>3. stage = "stream" /\ ~Exhausted BY <1>1, StreamHandles
  <2> DEFINE row == File.rows[at[2]]
             e == Entry(record, score, verdict, confirmed)
             W == A \cup {record}
             V == B \cup {e}
             added == CausalRow(counts.records, record, result)
             X == C \cup {added}
  <2>4. /\ record = RecordOf(experiment.dataset, row, File.device, last)
        /\ confirmed \in BOOLEAN /\ Tallied(record, verdict, confirmed, result)
        /\ log' = Append(log, e) /\ Analysed(record, confirmed, result)
    BY <2>2, Zenon DEF Handled
  <2>5. record.label \in {0, 1} BY <2>3, <2>4, RecordLabelled
  <2>6. /\ counts'["records"] = counts["records"] + 1
        /\ counts'["inferences"] = counts["inferences"]
             + One(result # <<>> /\ result.status = "CAUSAL_INFERENCE")
        /\ counts'["insufficient"] = counts["insufficient"]
             + One(result # <<>> /\ result.status = "INSUFFICIENT_EVIDENCE")
    <3>1. counts \in [CountFields -> Nat] BY DEF TInv
    <3> QED BY <2>4, <2>5, <3>1, TalliedIs
  <2>7. e.node = record.node /\ e.seen = record.features /\ e.confirmed = confirmed
    BY EntryFields
  <2>8. /\ history \in Seq(A) /\ log \in Seq(B) /\ causal \in Seq(C)
        /\ counts["records"] = Len(log) /\ Matches(history, log)
        /\ \A i \in 1 .. Len(causal) : Grounded(causal[i], log)
        /\ counts["inferences"] + counts["insufficient"] = Len(causal)
    BY <2>1 DEF RInv, Recorded
  <2>9. /\ history' = LastOf(HistoryLength, Append(history, record))
        /\ result \in IF AnalysisDue(confirmed) THEN Analyses(history', record.node)
                      ELSE {<<>>}
        /\ causal' = IF result = <<>> THEN causal ELSE Append(causal, added)
    BY <2>4, Zenon DEF Analysed
  <2>10. A \subseteq W /\ record \in W /\ B \subseteq V /\ e \in V /\ C \subseteq X /\ added \in X
    OBVIOUS
  <2>11. counts["inferences"] \in Nat /\ counts["insufficient"] \in Nat
    BY DEF TInv, CountFields
  <2>12. added = CausalRow(Len(log), record, result) BY <2>8
  <2> HIDE DEF row, e, W, V, added, X
  <2>13. history \in Seq(W) /\ log \in Seq(V) /\ causal \in Seq(X) BY <2>8, <2>10
  <2>14. HistoryLength \in Nat BY StudyAssumption
  <2>15. history' \in Seq(W)
    <3>1. Append(history, record) \in Seq(W) BY <2>10, <2>13, AppendProperties
    <3> QED BY <2>9, <2>14, <3>1, LastOfIs
  <2>16. log' \in Seq(V) /\ Len(log') = Len(log) + 1
    BY <2>4, <2>10, <2>13, AppendProperties
  <2>17. Matches(history', log')
    BY <2>4, <2>7, <2>8, <2>9, <2>14, MatchesNext
  <2>18. \A i \in 1 .. Len(causal) : Grounded(causal[i], log')
    BY <2>4, <2>8, <2>10, <2>13, GroundedKept
  <2>19. counts'["records"] = Len(log') BY <2>6, <2>8, <2>16
  <2>20. CASE result = <<>>
    <3>1. causal' = causal BY <2>9, <2>20
    <3>2. One(result # <<>> /\ result.status = "CAUSAL_INFERENCE") = 0
          /\ One(result # <<>> /\ result.status = "INSUFFICIENT_EVIDENCE") = 0
      BY <2>20 DEF One
    <3>3. counts'["inferences"] + counts'["insufficient"] = Len(causal')
      BY <2>6, <2>8, <2>11, <3>1, <3>2
    <3>4. causal' \in Seq(X) /\ \A i \in 1 .. Len(causal') : Grounded(causal'[i], log')
      BY <2>13, <2>18, <3>1
    <3>5. Recorded(history', log', causal', counts')
      BY <2>15, <2>16, <2>17, <2>19, <3>3, <3>4, Zenon DEF Recorded
    <3> QED BY <3>5 DEF RInv
  <2>21. CASE result # <<>>
    <3>1. causal' = Append(causal, added) BY <2>9, <2>21
    <3>2. confirmed /\ result \in Analyses(history', record.node)
      <4>1. AnalysisDue(confirmed) /\ result \in Analyses(history', record.node)
        BY <2>9, <2>21
      <4> QED BY <4>1 DEF AnalysisDue
    <3>3. Evidence(OfNode(history', record.node), result)
      <4>1. Len(OfNode(history', record.node)) \in Nat
        BY <2>15, <2>16, <2>17, MatchesPicks
      <4> QED BY <3>2, <4>1, AnalysesAre
    <3>4. Grounded(added, log')
      BY <2>4, <2>7, <2>10, <2>12, <2>13, <2>15, <2>17, <3>2, <3>3, GroundedNew
    <3>5. /\ causal' \in Seq(X) /\ Len(causal') = Len(causal) + 1
          /\ causal'[Len(causal) + 1] = added
          /\ \A i \in 1 .. Len(causal) : causal'[i] = causal[i]
      BY <2>10, <2>13, <3>1, AppendProperties
    <3>6. Len(causal) \in Nat BY <2>13, SeqAsFunction
    <3>7. ASSUME NEW i \in 1 .. Len(causal') PROVE Grounded(causal'[i], log')
      <4>1. CASE i = Len(causal) + 1 BY <3>4, <3>5, <4>1
      <4>2. CASE i # Len(causal) + 1
        <5>1. i \in 1 .. Len(causal) BY <3>5, <3>6, <4>2
        <5> QED BY <2>18, <3>5, <5>1
      <4> QED BY <4>1, <4>2
    <3>8. counts'["inferences"] + counts'["insufficient"] = Len(causal')
      <4>1. CASE result.status = "CAUSAL_INFERENCE"
        <5>1. One(result # <<>> /\ result.status = "CAUSAL_INFERENCE") = 1
              /\ One(result # <<>> /\ result.status = "INSUFFICIENT_EVIDENCE") = 0
          BY <2>21, <4>1 DEF One
        <5> QED BY <2>6, <2>8, <2>11, <3>5, <3>6, <5>1
      <4>2. CASE result.status = "INSUFFICIENT_EVIDENCE"
        <5>1. One(result # <<>> /\ result.status = "CAUSAL_INFERENCE") = 0
              /\ One(result # <<>> /\ result.status = "INSUFFICIENT_EVIDENCE") = 1
          BY <2>21, <4>2 DEF One
        <5> QED BY <2>6, <2>8, <2>11, <3>5, <3>6, <5>1
      <4> QED BY <3>3, <4>1, <4>2 DEF Evidence
    <3>9. Recorded(history', log', causal', counts')
      BY <2>15, <2>16, <2>17, <2>19, <3>5, <3>7, <3>8, Zenon DEF Recorded
    <3> QED BY <3>9 DEF RInv
  <2> QED BY <2>20, <2>21
<1>2. CASE EndOfStream \/ WriteReport \/ StudyThresholds \/ UNCHANGED vars
  <2>1. counts' = counts /\ history' = history /\ causal' = causal /\ log' = log
    BY <1>2, OthersKeep
  <2> QED BY <2>1 DEF RInv
<1> QED BY <1>1, <1>2 DEF Next

-------------------------------------------------------------------------------
(* What is reported of them.                                               *)
OInv ==
  stage \in {"study", "done"} =>
    report.overall.totals = counts /\ Len(report.causal) >= 1

LEMMA OInit == Init => OInv
<1> HAVE Init
<1>1. stage = IF experiment.dataset \in Constructible /\ experiment.files # <<>>
              THEN "stream" ELSE "failed"
  BY DEF Init
<1>2. stage \in {"stream", "failed"} BY <1>1
<1> QED BY <1>2 DEF OInv

LEMMA ONext == RInv /\ OInv /\ [Next]_vars => OInv'
<1> SUFFICES ASSUME RInv, OInv, [Next]_vars PROVE OInv' OBVIOUS
<1>1. CASE Stream
  <2>1. stage' = "stream" BY <1>1, StreamHandles
  <2> QED BY <2>1 DEF OInv
<1>2. CASE EndOfStream
  <2>1. stage' = "report" BY <1>2 DEF EndOfStream
  <2> QED BY <2>1 DEF OInv
<1>3. CASE WriteReport
  <2>1. counts' = counts BY <1>3 DEF WriteReport
  <2>2. report'.overall.totals = counts BY <1>3 DEF WriteReport
  <2>3. report'.causal = IF causal = <<>> THEN <<Placeholder>> ELSE causal
    BY <1>3 DEF WriteReport
  <2>4. Len(report'.causal) >= 1
    <3>1. PICK C : causal \in Seq(C) BY DEF RInv, Recorded
    <3>3. CASE causal = <<>>
      <4>1. report'.causal = <<Placeholder>> BY <2>3, <3>3
      <4>2. \A p : Len(<<p>>) >= 1 OBVIOUS
      <4> QED BY <4>1, <4>2
    <3>4. CASE causal # <<>>
      <4>1. report'.causal = causal BY <2>3, <3>4
      <4>2. Len(causal) \in Nat /\ Len(causal) # 0 BY <3>1, <3>4, EmptySeq
      <4>3. Len(causal) >= 1 BY <4>2
      <4> QED BY <4>1, <4>3
    <3> QED BY <3>3, <3>4
  <2> QED BY <2>1, <2>2, <2>4 DEF OInv
<1>4. CASE StudyThresholds
  <2>1. stage = "study" /\ counts' = counts /\ report' = report
    BY <1>4 DEF StudyThresholds
  <2> QED BY <2>1 DEF OInv
<1>5. CASE UNCHANGED vars
  <2>1. stage' = stage /\ counts' = counts /\ report' = report BY <1>5 DEF vars
  <2> QED BY <2>1 DEF OInv
<1> QED BY <1>1, <1>2, <1>3, <1>4, <1>5 DEF Next

LEMMA HandedOutAtEnd ==
  ASSUME PInv, Exhausted \/ LimitReached
  PROVE  LET rows == Len(FlattenSeq(RowsOf(experiment.files)))
         IN  /\ experiment.limit = NoLimit => counts["records"] = rows
             /\ experiment.limit \notin {NoLimit, 0} =>
                  counts["records"] = Min({rows, experiment.limit})
<1> DEFINE files == experiment.files
           rows == Len(FlattenSeq(RowsOf(files)))
           limit == experiment.limit
           r == counts["records"]
<1>1. /\ experiment \in Experiment /\ InFiles(files, at) /\ r = HandedOut(files, at)
      /\ limit = NoLimit \/ r <= 1 \/ r <= limit
  BY DEF PInv
<1>2. FilesOf(files) /\ limit \in Nat \cup {NoLimit} BY <1>1, StudyAssumption
<1>3. r \in Nat /\ rows \in Nat /\ r <= rows /\ (at[1] > Len(files) => r = rows)
  BY <1>1, <1>2, HandedOutAll
<1>4. r = rows \/ (limit # NoLimit /\ r >= limit /\ r > 0)
  <2>1. CASE Exhausted BY <1>3, <2>1 DEF Exhausted
  <2>2. CASE LimitReached BY <2>2 DEF LimitReached
  <2> QED BY <2>1, <2>2
<1> HIDE DEF rows, limit, r, files
<1>5. limit = NoLimit => r = rows BY <1>4
<1>6. ASSUME limit \notin {NoLimit, 0} PROVE r = Min({rows, limit})
  <2>1. limit \in Nat /\ limit >= 1 BY <1>2, <1>6
  <2>2. r <= limit BY <1>1, <1>3, <1>6, <2>1
  <2> DEFINE least == Min({rows, limit})
  <2>3. least \in {rows, limit} /\ least <= rows /\ least <= limit
    <3>1. rows \in Int /\ limit \in Int BY <1>3, <2>1
    <3>2. \A a, b \in Int :
            Min({a, b}) \in {a, b} /\ Min({a, b}) <= a /\ Min({a, b}) <= b
      BY MinOfTwo
    <3> QED BY ONLY <3>1, <3>2, Zenon
  <2> HIDE DEF least
  <2>4. r = rows \/ r = limit BY <1>3, <1>4, <2>1, <2>2
  <2>5. r = least BY <1>3, <2>1, <2>2, <2>3, <2>4
  <2> QED BY <2>5 DEF least
<1> QED BY <1>5, <1>6 DEF rows, limit, r, files

LEMMA BalanceImplied == PInv /\ TInv /\ RInv /\ OInv => CountsBalance
<1> SUFFICES ASSUME PInv, TInv, RInv, OInv, stage \in {"study", "done"}
             PROVE  CountsBalance
  BY DEF CountsBalance
<1> DEFINE o == report.overall.totals
           rows == Len(FlattenSeq([f \in DOMAIN experiment.files |-> experiment.files[f].rows]))
<1>1. o = counts /\ Len(report.causal) >= 1 BY DEF OInv
<1>2. /\ experiment.limit = NoLimit => o.records = rows
      /\ experiment.limit \notin {NoLimit, 0} => o.records = Min({rows, experiment.limit})
  <2>1. Exhausted \/ LimitReached BY DEF PInv
  <2>2. rows = Len(FlattenSeq(RowsOf(experiment.files))) BY DEF RowsOf
  <2> HIDE DEF o, rows
  <2> QED BY <1>1, <2>1, <2>2, HandedOutAtEnd
<1> HIDE DEF o
<1>3. o.records = o.tp + o.fp + o.fn + o.tn
  <2>1. /\ counts["tp"] \in Nat /\ counts["fp"] \in Nat /\ counts["fn"] \in Nat
        /\ counts["tn"] \in Nat
    BY DEF TInv, CountFields, CellFields
  <2>2. counts["records"] = (counts["tp"] + counts["fp"]) + (counts["fn"] + counts["tn"])
    BY DEF TInv
  <2> QED BY <1>1, <2>1, <2>2
<1>4. \A dict \in {devices, attacks} :
        /\ SumOfField(dict, "total") = o.records
        /\ SumOfField(dict, "confirmed") = o.tp + o.fp
  <2>1. Balanced(devices, StatFields, o) /\ Balanced(attacks, CategoryFields, o)
    BY <1>1 DEF TInv
  <2> QED BY <2>1 DEF Balanced
<1>5. /\ SumOfField(devices, "attack") = o.tp + o.fn
      /\ \A d \in DOMAIN devices : devices[d].attack = devices[d].tp + devices[d].fn
  BY <1>1 DEF TInv, AttacksFound
<1>6. o.inferences + o.insufficient = Len(causal) BY <1>1 DEF RInv, Recorded
<1>7. \A i \in DOMAIN causal :
        /\ log[causal[i].index + 1].confirmed
        /\ causal[i].status = "CAUSAL_INFERENCE" =>
             Backing(OfNode(SubSeq(log, 1, causal[i].index + 1), causal[i].node),
                     causal[i].pair)
  <2>1. PICK C : causal \in Seq(C) BY DEF RInv, Recorded
  <2>2. DOMAIN causal = 1 .. Len(causal) BY <2>1, SeqAsFunction
  <2> QED BY <2>2 DEF RInv, Recorded, Grounded
<1>8. \A i \in DOMAIN causal :
        /\ log[causal[i].index + 1].confirmed
        /\ causal[i].status = "CAUSAL_INFERENCE" =>
             LET seen == OfNode(SubSeq(log, 1, causal[i].index + 1), causal[i].node)
             IN  /\ Len(seen) >= MinRecords
                 /\ \A c \in {causal[i].pair[1], causal[i].pair[2]} :
                      \E j, l \in DOMAIN seen :
                        /\ c \in DOMAIN seen[j].seen
                        /\ c \in DOMAIN seen[l].seen => seen[j].seen[c] # seen[l].seen[c]
  BY <1>7, Zenon DEF Backing
<1> HIDE DEF rows
<1> QED BY <1>1, <1>2, <1>3, <1>4, <1>5, <1>6, <1>8, Zenon DEF CountsBalance, o, rows

(* However the records and the analyses fall out, and wherever the limit   *)
(* cuts the stream: the report accounts for every record handed out, by    *)
(* cell, device and category, and every cause it names rests on columns    *)
(* that varied among enough records of the node (run_dataset_experiment).  *)
THEOREM CountsAlwaysBalance == Spec => []CountsBalance
<1>1. Init => PInv /\ TInv /\ RInv /\ OInv BY PInit, TInit, RInit, OInit
<1>2. PInv /\ TInv /\ RInv /\ OInv /\ [Next]_vars => (PInv /\ TInv /\ RInv /\ OInv)'
  BY PNext, TNext, RNext, ONext
<1>3. PInv /\ TInv /\ RInv /\ OInv => CountsBalance BY BalanceImplied
<1> QED BY <1>1, <1>2, <1>3, PTL DEF Spec

===============================================================================
