--------------------------- MODULE IndexServer_proofs ---------------------------
(***************************************************************************)
(* For every set of stored names and of messages, and any number of        *)
(* indexers.  First the list of segments: the names stay unique, the merge *)
(* finds its inputs, and the list implements the live index.  Then what    *)
(* the server has in its files at each moment, although the threads that   *)
(* stop() does not wait for run beside the save.                           *)
(***************************************************************************)
EXTENDS IndexServer, TLAPS

(* The list of segments. *)

\* No name at work or taken exceeds the counter.
NamesBounded ==
  /\ \A s \in segments : s.name \in 1 .. segNumMax /\ s.from \subseteq 1 .. segNumMax
  /\ indexing \subseteq 1 .. segNumMax
  /\ snew \in 0 .. segNumMax

\* The segments at work hold different documents, and an indexer's are new.
FromDisjoint ==
  /\ \A s \in segments : s.from # {} /\ s.from \cap indexing = {}
  /\ \A s, t \in segments : s # t => s.from \cap t.from = {}

\* A merge under way has two inputs.
MergeShape ==
  \/ mergeIn = {} /\ snew = 0
  \/ \E a, b \in Nat : a # b /\ mergeIn = {a, b}

NothingBeforeLoad ==
  loadResult = "none" => segments = {} /\ segNumMax = 0 /\ indexing = {} /\ mergeIn = {}

\* The inductive invariant.  MergeInputsPresent holds because only MergeDone
\* removes names from the list, and there is one merge at a time.
SMInv ==
  /\ TypeOK
  /\ NamesUnique
  /\ MergeInputsPresent
  /\ NamesBounded
  /\ FromDisjoint
  /\ MergeShape
  /\ NothingBeforeLoad

-----------------------------------------------------------------------------
(* What the operators of SegmentManager do *)

\* Fresh segments are distinct, and each holds the document of its own name.
LEMMA SegmentsOfFacts ==
  ASSUME NEW names \in SUBSET Nat
  PROVE  /\ SegmentsOf(names) \in SUBSET Segment
         /\ \A s \in SegmentsOf(names) : s.name \in names /\ s.from = {s.name}
         /\ \A s, t \in SegmentsOf(names) : s.name = t.name => s = t
         /\ names = {} => SegmentsOf(names) = {}
BY DEF SegmentsOf, Segment

\* With unique names, on_merge_done() replaces exactly two segments.
LEMMA MergePair ==
  ASSUME TypeOK, NamesUnique, MergeInputsPresent, MergeShape, snew # 0
  PROVE  \E x, y \in segments :
           /\ x # y
           /\ mergeIn = {x.name, y.name}
           /\ {s \in segments : s.name \in mergeIn} = {x, y}
           /\ FromOf({s \in segments : s.name \in mergeIn}) = x.from \cup y.from
<1>1. PICK a \in Nat, b \in Nat : a # b /\ mergeIn = {a, b}
  BY DEF MergeShape
<1>2. PICK x \in segments, y \in segments : x.name = a /\ y.name = b
  BY <1>1 DEF MergeInputsPresent, NamesOf
<1>3. {s \in segments : s.name \in mergeIn} = {x, y}
  BY <1>1, <1>2 DEF NamesUnique
<1>4. FromOf({x, y}) = x.from \cup y.from
  BY DEF FromOf
<1> QED
  BY <1>1, <1>2, <1>3, <1>4

-----------------------------------------------------------------------------
(* The invariant *)

\* The initial state satisfies the invariant.
LEMMA InitSMInv == Init => SMInv
BY DEF Init, SMInv, TypeOK, NamesUnique, NamesOf, MergeInputsPresent, NamesBounded,
       FromDisjoint, MergeShape, NothingBeforeLoad

\* init_from_file() establishes it from an empty list.
LEMMA LoadSMInv ==
  ASSUME SMInv, NEW names \in SUBSET (Nat \ {0}), Load(names) \/ LoadFails(names)
  PROVE  SMInv'
<1> USE DEF SMInv, Load, LoadFails
<1>1. segments = {} /\ segNumMax = 0 /\ indexing = {} /\ mergeIn = {} /\ snew = 0
  BY DEF NothingBeforeLoad, MergeShape
<1>2. segNumMax' \in Nat /\ names \subseteq 1 .. segNumMax'
  <2>1. segNumMax' \in names \cup {0} /\ \A n \in names : n <= segNumMax'
    BY <1>1 DEF RaiseMax
  <2>2. ASSUME NEW n \in names PROVE n \in 1 .. segNumMax'
    BY <2>1
  <2> QED
    BY <2>1, <2>2
<1>3. /\ segments' \in SUBSET Segment
      /\ \A s \in segments' : s.name \in names /\ s.from = {s.name}
      /\ \A s, t \in segments' : s.name = t.name => s = t
  BY SegmentsOfFacts
<1>4. TypeOK'
  BY <1>1, <1>2, <1>3 DEF TypeOK
<1>5. NamesUnique' /\ MergeInputsPresent'
  BY <1>1, <1>3 DEF NamesUnique, NamesOf, MergeInputsPresent
<1>6. NamesBounded'
  <2>1. \A s \in segments' : s.name \in 1 .. segNumMax' /\ s.from \subseteq 1 .. segNumMax'
    BY <1>2, <1>3
  <2>2. indexing' = {} /\ snew' = 0
    BY <1>1
  <2> QED
    BY <1>2, <2>1, <2>2 DEF NamesBounded
<1>7. FromDisjoint' /\ MergeShape' /\ NothingBeforeLoad'
  BY <1>1, <1>3 DEF FromDisjoint, MergeShape, NothingBeforeLoad
<1> QED
  BY <1>4, <1>5, <1>6, <1>7

\* next_segment_name() gives a name above every other, to an indexer ...
LEMMA TakeNameSMInv == ASSUME SMInv, TakeName PROVE SMInv'
<1> USE DEF SMInv, TakeName, next_segment_name
<1>1. TypeOK' /\ MergeInputsPresent'
  BY DEF TypeOK, MergeInputsPresent
<1>2. NamesUnique'
  BY DEF NamesUnique, NamesOf, NamesBounded, TypeOK
<1>3. NamesBounded'
  BY DEF NamesBounded, TypeOK
<1>4. FromDisjoint'
  BY DEF FromDisjoint, NamesBounded, TypeOK
<1>5. MergeShape' /\ NothingBeforeLoad'
  BY DEF MergeShape, NothingBeforeLoad
<1> QED
  BY <1>1, <1>2, <1>3, <1>4, <1>5

\* ... or to the merge.
LEMMA MergeNameSMInv == ASSUME SMInv, MergeName PROVE SMInv'
<1> USE DEF SMInv, MergeName, next_segment_name
<1>1. TypeOK' /\ MergeInputsPresent'
  BY DEF TypeOK, MergeInputsPresent
<1>2. NamesUnique'
  BY DEF NamesUnique, NamesOf, NamesBounded, TypeOK
<1>3. NamesBounded'
  BY DEF NamesBounded, TypeOK
<1>4. FromDisjoint' /\ MergeShape' /\ NothingBeforeLoad'
  BY DEF FromDisjoint, MergeShape, NothingBeforeLoad
<1> QED
  BY <1>1, <1>2, <1>3, <1>4

\* add_segment() publishes documents that no segment holds.
LEMMA AddSegmentSMInv == ASSUME SMInv, NEW n \in indexing, AddSegment(n) PROVE SMInv'
<1> USE DEF SMInv, AddSegment
<1>1. n \in Nat /\ SegmentsOf({n}) = {[name |-> n, from |-> {n}]}
  BY DEF TypeOK, SegmentsOf
<1> DEFINE new == [name |-> n, from |-> {n}]
<1>2. /\ segments' = segments \cup {new} /\ new \in Segment
      /\ new.name = n /\ new.from = {n}
      /\ indexing' = indexing \ {n} /\ segNumMax' = segNumMax /\ snew' = snew
  BY <1>1 DEF Segment
<1> HIDE DEF new
<1>3. TypeOK' /\ MergeInputsPresent'
  BY <1>2 DEF TypeOK, MergeInputsPresent, NamesOf
<1>4. NamesUnique'
  <2>1. n \notin NamesOf(segments) /\ n # snew
    BY DEF NamesUnique
  <2>2. \A s, t \in segments' : s.name = t.name => s = t
    BY <1>2, <2>1 DEF NamesUnique, NamesOf
  <2>3. NamesOf(segments') = NamesOf(segments) \cup {n}
    BY <1>2 DEF NamesOf
  <2> QED
    BY <1>2, <2>1, <2>2, <2>3 DEF NamesUnique
<1>5. NamesBounded'
  <2>1. n \in 1 .. segNumMax
    BY DEF NamesBounded
  <2> QED
    BY <1>2, <2>1 DEF NamesBounded
<1>6. FromDisjoint'
  <2>1. \A s \in segments : n \notin s.from
    BY DEF FromDisjoint
  <2> QED
    BY <1>2, <2>1 DEF FromDisjoint
<1>7. MergeShape' /\ NothingBeforeLoad'
  BY DEF MergeShape, NothingBeforeLoad
<1> QED
  BY <1>3, <1>4, <1>5, <1>6, <1>7

\* run() picks its inputs in the list.
LEMMA MergeSnapshotSMInv == ASSUME SMInv, MergeSnapshot PROVE SMInv'
<1> USE DEF SMInv, MergeSnapshot
<1>1. PICK a \in NamesOf(segments), b \in NamesOf(segments) : a < b /\ mergeIn' = {a, b}
  BY DEF TwoSmallest
<1>2. a \in Nat /\ b \in Nat /\ a # b
  BY <1>1 DEF TypeOK, Segment, NamesOf
<1>3. TypeOK' /\ MergeInputsPresent' /\ MergeShape'
  BY <1>1, <1>2 DEF TypeOK, MergeInputsPresent, MergeShape, NamesOf
<1>4. NamesUnique' /\ NamesBounded' /\ FromDisjoint' /\ NothingBeforeLoad'
  BY DEF NamesUnique, NamesOf, NamesBounded, FromDisjoint, NothingBeforeLoad
<1> QED
  BY <1>3, <1>4

\* on_merge_done() puts the documents of two segments into one.
LEMMA MergeDoneSMInv == ASSUME SMInv, MergeDone PROVE SMInv'
<1> USE DEF SMInv, MergeDone
<1>1. PICK x \in segments, y \in segments :
        /\ x # y
        /\ {s \in segments : s.name \in mergeIn} = {x, y}
        /\ FromOf({s \in segments : s.name \in mergeIn}) = x.from \cup y.from
  BY MergePair
<1> DEFINE new == [name |-> snew, from |-> x.from \cup y.from]
<1>2. segments' = (segments \ {x, y}) \cup {new}
  BY <1>1 DEF on_merge_done
<1>3. /\ x \in Segment /\ y \in Segment /\ new \in Segment
      /\ new.name = snew /\ new.from = x.from \cup y.from
  BY DEF TypeOK, Segment
<1> HIDE DEF new
<1>4. TypeOK' /\ MergeInputsPresent' /\ MergeShape' /\ NothingBeforeLoad'
  BY <1>2, <1>3 DEF TypeOK, MergeInputsPresent, MergeShape, NothingBeforeLoad
<1>5. NamesUnique'
  BY <1>2, <1>3 DEF NamesUnique, NamesOf, NamesBounded, TypeOK
<1>6. NamesBounded'
  <2>1. /\ x.from \subseteq 1 .. segNumMax /\ y.from \subseteq 1 .. segNumMax
        /\ snew \in 1 .. segNumMax
    BY DEF NamesBounded, TypeOK
  <2>2. \A s \in segments' : s.name \in 1 .. segNumMax /\ s.from \subseteq 1 .. segNumMax
    BY <1>2, <1>3, <2>1 DEF NamesBounded
  <2>3. segNumMax' = segNumMax /\ indexing' = indexing /\ snew' = 0 /\ 0 \in 0 .. segNumMax
    BY DEF TypeOK
  <2> QED
    BY <2>2, <2>3 DEF NamesBounded
<1>7. FromDisjoint'
  BY <1>2, <1>3 DEF FromDisjoint
<1> QED
  BY <1>4, <1>5, <1>6, <1>7

\* Every step keeps the invariant.
LEMMA NextSMInv == SMInv /\ [Next]_smvars => SMInv'
<1> SUFFICES ASSUME SMInv, [Next]_smvars PROVE SMInv'
  OBVIOUS
<1>1. CASE UNCHANGED smvars
  BY <1>1 DEF smvars, SMInv, TypeOK, NamesUnique, NamesOf, MergeInputsPresent, NamesBounded,
              FromDisjoint, MergeShape, NothingBeforeLoad
<1>2. CASE \E names \in SUBSET StoredNames : Load(names) \/ LoadFails(names)
  BY <1>2, LoadSMInv, StoredNamesAssumption
<1> QED
  BY <1>1, <1>2, TakeNameSMInv, AddSegmentSMInv, MergeSnapshotSMInv, MergeNameSMInv,
     MergeDoneSMInv DEF Next

\* Every reachable state satisfies the invariant.
THEOREM SegmentListInvariant == Spec => []SMInv
BY InitSMInv, NextSMInv, PTL DEF Spec

\* The variables of segment_manager.h keep their types.
THEOREM SegmentListTyped == Spec => []TypeOK
<1>1. SMInv => TypeOK
  BY DEF SMInv
<1> QED
  BY SegmentListInvariant, <1>1, PTL

\* next_segment_name() never gives a name that is at work or taken.
THEOREM SegmentNamesUnique == Spec => []NamesUnique
<1>1. SMInv => NamesUnique
  BY DEF SMInv
<1> QED
  BY SegmentListInvariant, <1>1, PTL

\* on_merge_done() always finds the segments it erases.
THEOREM MergeFindsItsInputs == Spec => []MergeInputsPresent
<1>1. SMInv => MergeInputsPresent
  BY DEF SMInv
<1> QED
  BY SegmentListInvariant, <1>1, PTL

-----------------------------------------------------------------------------
(* The list implements the live index *)

\* The set of document sets that stands for the list.
Parts == {s.from : s \in segments}

\* Every step of the list is a step of the live index, or none.
LEMMA StepRefines == SMInv /\ SMInv' /\ [Next]_smvars => [Live!Next]_Parts
<1> SUFFICES ASSUME SMInv, SMInv', [Next]_smvars PROVE Live!Next \/ UNCHANGED Parts
  BY DEF Parts
<1> USE DEF Parts
<1>1. CASE UNCHANGED smvars
  BY <1>1 DEF smvars
<1>2. ASSUME NEW names \in SUBSET StoredNames, Load(names) \/ LoadFails(names)
      PROVE  Live!Next
  <2>1. segments = {}
    BY <1>2 DEF SMInv, NothingBeforeLoad, Load, LoadFails
  <2>2. \A A, B \in Parts' : A # B => A \cap B = {}
    BY DEF SMInv, FromDisjoint
  <2> QED
    BY <2>1, <2>2 DEF Live!Next, Live!Load
<1>3. ASSUME NEW n \in indexing, AddSegment(n) PROVE Live!Next
  <2>1. Parts' = Parts \cup {{n}}
    <3> DEFINE new == [name |-> n, from |-> {n}]
    <3>1. segments' = segments \cup {new} /\ new.from = {n}
      BY <1>3 DEF AddSegment, SegmentsOf
    <3> HIDE DEF new
    <3>2. Parts' = Parts \cup {new.from}
      BY <3>1
    <3> QED
      BY <3>1, <3>2
  <2>2. {n} \cap UNION Parts = {}
    BY DEF SMInv, FromDisjoint
  <2> QED
    BY <2>1, <2>2 DEF Live!Next, Live!Add, Live!Docs
<1>4. ASSUME MergeDone PROVE Live!Next
  <2>1. PICK x \in segments, y \in segments :
          /\ x # y
          /\ {s \in segments : s.name \in mergeIn} = {x, y}
          /\ FromOf({s \in segments : s.name \in mergeIn}) = x.from \cup y.from
    BY <1>4, MergePair DEF SMInv, MergeDone
  <2> DEFINE new == [name |-> snew, from |-> x.from \cup y.from]
  <2>2. segments' = (segments \ {x, y}) \cup {new} /\ new.from = x.from \cup y.from
    BY <1>4, <2>1 DEF MergeDone, on_merge_done
  <2>3. x.from # y.from /\ \A s \in segments \ {x, y} : s.from \notin {x.from, y.from}
    BY <2>1 DEF SMInv, FromDisjoint
  <2> HIDE DEF new
  <2>4. Parts' = (Parts \ {x.from, y.from}) \cup {x.from \cup y.from}
    BY <2>2, <2>3
  <2>5. Live!Merge(x.from, y.from)
    BY <2>3, <2>4 DEF Live!Merge
  <2> QED
    BY <2>5 DEF Live!Next
<1>5. ASSUME TakeName \/ MergeSnapshot \/ MergeName PROVE UNCHANGED Parts
  BY <1>5 DEF TakeName, MergeSnapshot, MergeName
<1> QED
  BY <1>1, <1>2, <1>3, <1>4, <1>5 DEF Next

\* However merges and indexers interleave, the segment list behaves as a live
\* index: its documents stay in disjoint sets and none is lost or doubled.
THEOREM ImplementsLiveIndex == Spec => LiveSpec
<1>1. Init => Live!Init
  BY DEF Init, Live!Init
<1>2. SMInv /\ SMInv' /\ [Next]_smvars => [Live!Next]_{s.from : s \in segments}
  BY StepRefines DEF Parts
<1> QED
  BY <1>1, <1>2, SegmentListInvariant, PTL DEF Spec, Live!Spec, LiveSpec

-----------------------------------------------------------------------------
(* The server: SMInv holds beside it. *)

\* The places of main() before the threads are started.
Early == {"create", "write", "load"}

\* main() is past the load, and its image in segments.meta is not touched.
Serving == {"load", "serve", "stop", "save", "msgid", "snapshot", "close", "copy"}

\* A list that an image may have: disjoint segments, and every stored document.
Covers(segs) ==
  /\ \A s, t \in segs : s # t => s.name # t.name /\ s.from \cap t.from = {}
  /\ StoredNames \subseteq FromOf(segs)

\* What is whole at which place of main(), but for what was lost unnoticed.
FilesInPlace ==
  /\ pc \in {"create", "write"} => ~IsWhole(meta)
  /\ pc = "load" /\ IsWhole(meta) => meta = FirstImage
  /\ pc \in Serving => IsWhole(meta) \/ "meta" \in lost
  /\ pc \in {"snapshot", "close"} => IsWhole(image)
  /\ pc = "close" => Covers(image.segs)
  /\ pc \in {"copy", "copying"} => IsWhole(tmp) \/ "tmp" \in lost
  /\ pc = "remove" =>
       IsWhole(meta) \/ "meta" \in lost \/ "tmp" \in lost \/ (copyFailed /\ IsWhole(tmp))

\* The save reads a list that was loaded in full, and never loses a document.
ListInPlace ==
  /\ pc \in {"msgid", "snapshot"} => loadResult = "ok"
  /\ loadResult = "ok" => StoredNames \subseteq FromOf(segments)

\* No body runs before its thread has been started, and each is started once.
ThreadsInPlace ==
  \A t \in Threads :
    /\ pc \in Early => ctl[t] = "idle"
    /\ pc \in Early \cup {"serve"} /\ ctl[t] \in {"idle", "starting"} => body[t] = "none"

FilesTyped ==
  /\ pc \in Pc /\ IsFile(image) /\ IsFile(meta) /\ IsFile(tmp)
  /\ lost \in SUBSET {"meta", "tmp"} /\ copyFailed \in BOOLEAN

MessagesTyped == msgId \in Nat /\ processed \in Nat

\* The inductive invariant.
ServerInv ==
  /\ SMInv /\ T!ThreadTypeOK /\ FilesTyped /\ MessagesTyped
  /\ FilesInPlace /\ ListInPlace /\ ThreadsInPlace
  /\ SavedImageCovers /\ CrashFindsAnImage /\ OnlyInFlightUnprocessed

-----------------------------------------------------------------------------
(* The operators *)

\* An image of typed segments is a file that is whole.
LEMMA WholeFacts ==
  ASSUME NEW msg \in Nat, NEW segs \in SUBSET Segment
  PROVE  /\ Whole(msg, segs) \in WholeFile /\ IsFile(Whole(msg, segs))
         /\ IsWhole(Whole(msg, segs))
         /\ Whole(msg, segs).msg = msg /\ Whole(msg, segs).segs = segs
BY DEF Whole, WholeFile, IsFile, IsWhole

\* A file that is not whole has no image.
LEMMA PartFacts == IsFile(NoFile) /\ IsFile(Torn) /\ ~IsWhole(NoFile) /\ ~IsWhole(Torn)
BY DEF IsFile, IsWhole, NoFile, Torn

\* A whole file is an image.
LEMMA WholeIsImage ==
  ASSUME NEW f, IsFile(f), IsWhole(f)
  PROVE  f.msg \in Nat /\ f.segs \in SUBSET Segment
BY DEF IsFile, IsWhole, WholeFile, NoFile, Torn

\* What main() writes at first has the stored names, each a segment of its own.
LEMMA FirstImageFacts ==
  /\ FirstImage \in WholeFile /\ IsFile(FirstImage) /\ IsWhole(FirstImage)
  /\ NamesOf(FirstImage.segs) = StoredNames
  /\ FirstImage.msg = InitialMsgId /\ FirstImage.segs = SegmentsOf(StoredNames)
  /\ Covers(FirstImage.segs)
<1> DEFINE segs == SegmentsOf(StoredNames)
<1>1. segs \in SUBSET Segment /\ FirstImage = Whole(InitialMsgId, segs)
  BY StoredNamesAssumption, SegmentsOfFacts DEF FirstImage
<1>2. FirstImage \in WholeFile /\ IsFile(FirstImage) /\ IsWhole(FirstImage)
      /\ FirstImage.msg = InitialMsgId /\ FirstImage.segs = SegmentsOf(StoredNames)
  BY <1>1, WholeFacts, InitialMsgIdAssumption
<1>3. ASSUME NEW n \in StoredNames PROVE \E s \in segs : s.name = n /\ s.from = {n}
  <2> DEFINE s == [name |-> n, from |-> {n}]
  <2>1. s \in segs /\ s.name = n /\ s.from = {n}
    BY DEF SegmentsOf
  <2> HIDE DEF s
  <2> QED
    BY <2>1
<1>4. /\ \A s \in segs : s.name \in StoredNames /\ s.from = {s.name}
      /\ \A s, t \in segs : s.name = t.name => s = t
  BY StoredNamesAssumption, SegmentsOfFacts
<1>8. segs = SegmentsOf(StoredNames)
  OBVIOUS
<1> HIDE DEF segs
<1>5. NamesOf(segs) = StoredNames
  BY <1>3, <1>4 DEF NamesOf
<1>6. StoredNames \subseteq FromOf(segs)
  BY <1>3 DEF FromOf
<1>7. \A s, t \in segs : s # t => s.name # t.name /\ s.from \cap t.from = {}
  BY <1>4
<1> QED
  BY <1>2, <1>5, <1>6, <1>7, <1>8 DEF Covers

-----------------------------------------------------------------------------
(* The initial state *)

\* The initial state satisfies the invariant.
LEMMA InitServerInv == ServerInit => ServerInv
<1> SUFFICES ASSUME ServerInit PROVE ServerInv
  OBVIOUS
<1> USE DEF ServerInit
<1>1. SMInv
  BY InitSMInv
<1>2. T!ThreadTypeOK
  BY DEF T!ThreadInit, T!ThreadTypeOK, T!Handle, T!Body, T!Ctl
<1>3. FilesTyped /\ MessagesTyped
  BY PartFacts DEF FilesTyped, MessagesTyped, Pc
<1>4. FilesInPlace /\ SavedImageCovers /\ CrashFindsAnImage
  BY PartFacts DEF FilesInPlace, SavedImageCovers, CrashFindsAnImage, Serving
<1>5. ListInPlace /\ ThreadsInPlace /\ OnlyInFlightUnprocessed
  BY DEF Init, T!ThreadInit, ListInPlace, ThreadsInPlace, OnlyInFlightUnprocessed, Threads, Early
<1> QED
  BY <1>1, <1>2, <1>3, <1>4, <1>5 DEF ServerInv

-----------------------------------------------------------------------------
(* The list *)

\* Every step of the server is a step of the list, or leaves it.
LEMMA ListStep == ASSUME ServerInv, [ServerNext]_vars PROVE [Next]_smvars
<1>1. CASE UNCHANGED vars
  BY <1>1 DEF vars
<1>2. CASE LoadMeta
  <2>1. NamesOf(meta.segs) = StoredNames
    BY <1>2, FirstImageFacts DEF LoadMeta, MainMoves, ServerInv, FilesInPlace
  <2> QED
    BY <1>2, <2>1 DEF LoadMeta, Next
<1>3. CASE LoadMetaFails
  BY <1>3 DEF LoadMetaFails, Next
<1>4. CASE CreateMeta \/ WriteMeta
  BY <1>4 DEF CreateMeta, WriteMeta
<1>5. CASE StartThreads \/ WakeUp \/ StopThreads \/ Stopped
  BY <1>5 DEF StartThreads, WakeUp, StopThreads, Stopped
<1>6. CASE SaveStep
  BY <1>6 DEF SaveStep, OpenTmp, SaveNothing, ReadMsgId, SaveSnapshot, CloseTmp,
              CopyBegins, CopyEnds, CopyFails, RemoveTmp
<1>7. CASE MergeBody
  BY <1>7 DEF MergeBody, BodyLoop, MergeSleeps, MergeWorks, MergeCommits, Next
<1>8. CASE UpdateBody
  BY <1>8 DEF UpdateBody, BodyLoop, Process, HasNext, HasNoNext
<1>9. CASE Indexer
  BY <1>9 DEF Indexer, Next
<1> QED
  BY <1>1, <1>2, <1>3, <1>4, <1>5, <1>6, <1>7, <1>8, <1>9 DEF ServerNext, Main, LoadStep

\* So the list keeps its invariant.
LEMMA ListKept == ASSUME ServerInv, [ServerNext]_vars PROVE SMInv'
BY ListStep, NextSMInv DEF ServerInv

\* Only the load can take documents out of the list.
LEMMA DocumentsStay ==
  ASSUME SMInv, [Next]_smvars, loadResult = "ok"
  PROVE  loadResult' = "ok" /\ FromOf(segments) \subseteq FromOf(segments')
<1>1. CASE UNCHANGED smvars
  BY <1>1 DEF smvars
<1>2. CASE TakeName \/ MergeSnapshot \/ MergeName
  BY <1>2 DEF TakeName, MergeSnapshot, MergeName
<1>3. ASSUME NEW n \in indexing, AddSegment(n) PROVE
        loadResult' = "ok" /\ FromOf(segments) \subseteq FromOf(segments')
  BY <1>3 DEF AddSegment, FromOf
<1>4. CASE MergeDone
  <2> DEFINE old == {s \in segments : s.name \in mergeIn}
             new == [name |-> snew, from |-> FromOf(old)]
  <2>1. segments' = (segments \ old) \cup {new} /\ new.from = FromOf(old)
        /\ loadResult' = loadResult
    BY <1>4 DEF MergeDone, on_merge_done
  <2> HIDE DEF new
  <2>2. FromOf(segments) \subseteq FromOf(segments')
    BY <2>1 DEF FromOf
  <2> QED
    BY <2>1, <2>2
<1>5. ~(\E names \in SUBSET StoredNames : Load(names) \/ LoadFails(names))
  BY DEF Load, LoadFails
<1> QED
  BY <1>1, <1>2, <1>3, <1>4, <1>5 DEF Next

\* The list that the save reads has every stored document, in disjoint segments.
LEMMA ListCovers ==
  ASSUME SMInv, StoredNames \subseteq FromOf(segments)
  PROVE  Covers(segments) /\ segments \in SUBSET Segment
BY DEF SMInv, TypeOK, NamesUnique, FromDisjoint, Covers

-----------------------------------------------------------------------------
(* The files *)

\* Steps of the threads and indexers, and of start() and stop().
Quiet == StartThreads \/ StopThreads \/ MergeBody \/ UpdateBody \/ Indexer

\* They leave main() where it is, and the files.
LEMMA QuietStep == ASSUME Quiet PROVE UNCHANGED <<pc, image, disk>>
BY DEF Quiet, StartThreads, StopThreads, MergeBody, UpdateBody, Indexer, BodyLoop,
       MergeSleeps, MergeWorks, MergeCommits, Process, HasNext, HasNoNext

\* Every step of main() keeps the files in their types and places.
LEMMA FilesKept ==
  ASSUME ServerInv, [ServerNext]_vars
  PROVE  FilesTyped' /\ FilesInPlace' /\ SavedImageCovers' /\ CrashFindsAnImage'
<1> USE DEF ServerInv, FilesTyped, FilesInPlace, CrashFindsAnImage, Serving, MainMoves, Pc, disk
<1>1. CASE UNCHANGED <<pc, image, disk>>
  BY <1>1 DEF SavedImageCovers, IsFile, IsWhole
<1>2. CASE CreateMeta
  BY <1>2, PartFacts DEF CreateMeta, OpenOutput, SavedImageCovers
<1>3. CASE WriteMeta
  BY <1>3, FirstImageFacts DEF WriteMeta, CloseOutput, SavedImageCovers, Covers
<1>4. CASE LoadMeta \/ LoadMetaFails
  BY <1>4 DEF LoadMeta, LoadMetaFails, SavedImageCovers
<1>5. CASE WakeUp \/ Stopped \/ SaveNothing
  BY <1>5 DEF WakeUp, Stopped, SaveNothing, SavedImageCovers
<1>6. CASE OpenTmp
  BY <1>6, PartFacts DEF OpenTmp, OpenOutput, SavedImageCovers
<1>7. CASE ReadMsgId
  <2>1. image' = Whole(msgId, {}) /\ msgId \in Nat
    BY <1>7 DEF ReadMsgId, MessagesTyped
  <2>2. IsFile(image') /\ IsWhole(image')
    BY <2>1, WholeFacts
  <2> QED
    BY <1>7, <2>2 DEF ReadMsgId, SavedImageCovers
<1>8. CASE SaveSnapshot
  <2>1. image' = Whole(image.msg, segments) /\ image.msg \in Nat
    BY <1>8, WholeIsImage DEF SaveSnapshot
  <2>2. Covers(segments) /\ segments \in SUBSET Segment
    BY <1>8, ListCovers DEF SaveSnapshot, ListInPlace
  <2>3. IsFile(image') /\ IsWhole(image') /\ Covers(image'.segs)
    BY <2>1, <2>2, WholeFacts
  <2> QED
    BY <1>8, <2>3 DEF SaveSnapshot, SavedImageCovers
<1>9. CASE CloseTmp
  BY <1>9 DEF CloseTmp, CloseOutput, SavedImageCovers, Covers
<1>10. CASE CopyBegins
  BY <1>10, PartFacts DEF CopyBegins, SavedImageCovers
<1>11. CASE CopyEnds
  <2>1. pc = "copying" /\ pc' = "remove" /\ UNCHANGED <<image, tmp, lost, copyFailed>> /\ meta' = tmp
    BY <1>11 DEF CopyEnds
  <2>2. FilesTyped' /\ FilesInPlace' /\ CrashFindsAnImage'
    BY <2>1 DEF IsWhole
  <2>3. SavedImageCovers'
    BY <2>1 DEF SavedImageCovers
  <2> QED
    BY <2>2, <2>3
<1>12. CASE CopyFails
  <2>1. /\ pc \in {"copy", "copying"} /\ pc' = "remove" /\ copyFailed' = TRUE
        /\ UNCHANGED <<image, meta, tmp, lost>>
    BY <1>12 DEF CopyFails
  <2>2. FilesTyped' /\ FilesInPlace' /\ CrashFindsAnImage'
    BY <2>1 DEF IsWhole
  <2>3. SavedImageCovers'
    BY <2>1 DEF SavedImageCovers
  <2> QED
    BY <2>2, <2>3
<1>13. CASE RemoveTmp
  BY <1>13, PartFacts DEF RemoveTmp, SavedImageCovers
<1> QED
  BY <1>1, <1>2, <1>3, <1>4, <1>5, <1>6, <1>7, <1>8, <1>9, <1>10, <1>11, <1>12, <1>13, QuietStep
  DEF ServerNext, Main, LoadStep, SaveStep, Quiet, vars

\* The save goes on only after a load in full, and no document is lost.
LEMMA ListPlaceKept == ASSUME ServerInv, [ServerNext]_vars PROVE ListInPlace'
<1> USE DEF ServerInv
<1>1. CASE loadResult = "ok"
  <2>1. loadResult' = "ok" /\ StoredNames \subseteq FromOf(segments')
    BY <1>1, ListStep, DocumentsStay DEF ListInPlace
  <2> QED
    BY <2>1 DEF ListInPlace
<1>2. CASE loadResult # "ok"
  <2>1. pc \notin {"msgid", "snapshot"}
    BY <1>2 DEF ListInPlace
  <2>2. CASE LoadMeta
    <3>1. segments' = FirstImage.segs /\ pc' = "serve"
      BY <2>2, FirstImageFacts DEF LoadMeta, Load, MainMoves, FilesInPlace
    <3> QED
      BY <3>1, FirstImageFacts DEF Covers, ListInPlace
  <2>3. CASE LoadMetaFails
    <3>1. loadResult' = "error" /\ pc' = "serve"
      BY <2>3 DEF LoadMetaFails, LoadFails, MainMoves
    <3> QED
      BY <3>1 DEF ListInPlace
  <2>4. CASE MergeBody \/ UpdateBody \/ Indexer
    <3>1. loadResult' = loadResult
      BY <2>4 DEF MergeBody, UpdateBody, Indexer, BodyLoop, MergeSleeps, MergeWorks, MergeCommits,
         MergeSnapshot, MergeName, MergeDone, Process, HasNext, HasNoNext, TakeName, AddSegment, smvars
    <3>2. pc' = pc
      BY <2>4, QuietStep DEF Quiet
    <3> QED
      BY <1>2, <2>1, <3>1, <3>2 DEF ListInPlace
  <2>5. CASE UNCHANGED vars \/ StartThreads \/ StopThreads
    BY <1>2, <2>1, <2>5 DEF vars, StartThreads, StopThreads, smvars, ListInPlace
  <2>6. CASE CreateMeta \/ WriteMeta \/ WakeUp \/ Stopped \/ SaveStep
    <3>1. pc' \notin {"msgid", "snapshot"}
      BY <1>2, <2>1, <2>6 DEF CreateMeta, WriteMeta, WakeUp, Stopped, SaveStep, OpenTmp,
         SaveNothing, ReadMsgId, SaveSnapshot, CloseTmp, CopyBegins, CopyEnds, CopyFails, RemoveTmp, MainMoves
    <3>2. loadResult' = loadResult
      BY <2>6 DEF CreateMeta, WriteMeta, WakeUp, Stopped, SaveStep, OpenTmp, SaveNothing,
         ReadMsgId, SaveSnapshot, CloseTmp, CopyBegins, CopyEnds, CopyFails, RemoveTmp, smvars
    <3> QED
      BY <1>2, <3>1, <3>2 DEF ListInPlace
  <2> QED
    BY <2>2, <2>3, <2>4, <2>5, <2>6 DEF ServerNext, Main, LoadStep
<1> QED
  BY <1>1, <1>2

-----------------------------------------------------------------------------
(* The threads and the message in flight *)

\* Steps that no thread takes part in.
Alone == LoadStep \/ WakeUp \/ Stopped \/ SaveStep \/ Indexer \/ MergeWorks

\* They leave the threads as they are, and all but the load leave the messages.
LEMMA AloneStep ==
  ASSUME Alone
  PROVE  /\ UNCHANGED threadVars
         /\ LoadMeta \/ UNCHANGED <<msgId, processed>>
BY DEF Alone, LoadStep, CreateMeta, WriteMeta, LoadMeta, LoadMetaFails, WakeUp, Stopped,
       SaveStep, OpenTmp, SaveNothing, ReadMsgId, SaveSnapshot, CloseTmp, CopyBegins, CopyEnds,
       CopyFails, RemoveTmp, Indexer, MergeWorks

\* main() leaves the places before the threads by LoadMeta, and comes to none.
LEMMA EarlyStep ==
  ASSUME ServerInv, [ServerNext]_vars
  PROVE  /\ pc' \in Early => pc \in Early
         /\ pc' = "serve" => pc \in Early \cup {"serve"}
<1> USE DEF Early, MainMoves
<1>1. CASE UNCHANGED pc
  BY <1>1
<1>2. CASE LoadStep \/ WakeUp \/ Stopped \/ SaveStep
  BY <1>2 DEF LoadStep, CreateMeta, WriteMeta, LoadMeta, LoadMetaFails, WakeUp, Stopped,
     SaveStep, OpenTmp, SaveNothing, ReadMsgId, SaveSnapshot, CloseTmp, CopyBegins, CopyEnds,
     CopyFails, RemoveTmp
<1> QED
  BY <1>1, <1>2, QuietStep DEF ServerNext, Main, Quiet, vars

\* The steps of LuceneThread that the server takes.
ThreadStep(t) ==
  \/ T!Start(t) \/ T!Spawn(t) \/ T!StartDone(t)
  \/ T!StopTest(t) \/ T!StopClear(t) \/ T!Join(t) \/ T!JoinReturn(t)
  \/ T!Loop(t) \/ T!Leave(t) \/ T!Work(t)

\* They keep the types of the thread objects.
LEMMA ThreadStepTyped == ASSUME T!ThreadTypeOK, NEW t \in Threads, ThreadStep(t) PROVE T!ThreadTypeOK'
BY DEF ThreadStep, T!ThreadTypeOK, T!Handle, T!Body, T!Ctl, T!Control, T!BodyMoves,
       T!Start, T!Spawn, T!StartDone, T!StopTest, T!StopClear, T!Join, T!JoinReturn,
       T!Loop, T!Leave, T!Work

\* While main() has not called stop(), they start each thread once.
LEMMA ThreadStepInPlace ==
  ASSUME T!ThreadTypeOK, ThreadsInPlace, NEW t \in Threads,
         \/ pc = "serve" /\ (T!Start(t) \/ T!Spawn(t) \/ T!StartDone(t))
         \/ T!Loop(t) \/ T!Leave(t) \/ T!Work(t)
  PROVE  \A u \in Threads :
           /\ pc \in Early => ctl'[u] = "idle"
           /\ pc \in Early \cup {"serve"} /\ ctl'[u] \in {"idle", "starting"} => body'[u] = "none"
BY DEF ThreadsInPlace, T!ThreadTypeOK, T!Handle, T!Body, T!Ctl, T!Control, T!BodyMoves, Early,
       T!Start, T!Spawn, T!StartDone, T!Loop, T!Leave, T!Work

\* So the thread objects keep their types and their order with main().
LEMMA ThreadsKept == ASSUME ServerInv, [ServerNext]_vars PROVE T!ThreadTypeOK' /\ ThreadsInPlace'
<1> USE DEF ServerInv
<1>1. CASE UNCHANGED vars \/ Alone
  <2>1. UNCHANGED threadVars
    BY <1>1, AloneStep DEF vars
  <2> QED
    BY <2>1, EarlyStep DEF threadVars, T!ThreadTypeOK, T!Handle, T!Body, T!Ctl, ThreadsInPlace
<1>2. CASE StartThreads
  <2>1. PICK t \in Threads : T!Start(t) \/ T!Spawn(t) \/ T!StartDone(t)
    BY <1>2 DEF StartThreads, Threads
  <2>2. pc = "serve" /\ pc' = pc
    BY <1>2 DEF StartThreads
  <2>3. T!ThreadTypeOK'
    BY <2>1, ThreadStepTyped DEF ThreadStep
  <2> QED
    BY <2>1, <2>2, <2>3, ThreadStepInPlace DEF ThreadsInPlace
<1>3. CASE StopThreads
  <2>1. PICK t \in Threads :
          T!StopTest(t) \/ T!StopClear(t) \/ T!Join(t) \/ T!JoinReturn(t)
    BY <1>3 DEF StopThreads, Threads
  <2>2. pc' = "stop"
    BY <1>3 DEF StopThreads
  <2> QED
    BY <2>1, <2>2, ThreadStepTyped DEF ThreadStep, ThreadsInPlace, Early
<1>4. CASE MergeBody \/ UpdateBody
  <2>1. CASE MergeWorks \/ UNCHANGED threadVars
    BY <2>1, <1>1, <1>4, QuietStep DEF Alone, Quiet, threadVars, T!ThreadTypeOK, T!Handle, T!Body, T!Ctl, ThreadsInPlace
  <2>2. CASE \E t \in Threads : T!Loop(t) \/ T!Leave(t) \/ T!Work(t)
    <3>1. PICK t \in Threads : T!Loop(t) \/ T!Leave(t) \/ T!Work(t)
      BY <2>2
    <3>2. pc' = pc
      BY <1>4, QuietStep DEF Quiet
    <3>3. T!ThreadTypeOK'
      BY <3>1, ThreadStepTyped DEF ThreadStep
    <3> QED
      BY <3>1, <3>2, <3>3, ThreadStepInPlace DEF ThreadsInPlace
  <2> QED
    BY <1>4, <2>1, <2>2 DEF MergeBody, UpdateBody, BodyLoop, MergeSleeps, MergeWorks,
       MergeCommits, Process, HasNext, HasNoNext, Threads
<1> QED
  BY <1>1, <1>2, <1>3, <1>4 DEF ServerNext, Main, Alone

\* A message is in flight only in the body of the update thread.
LEMMA MessagesKept ==
  ASSUME ServerInv, [ServerNext]_vars
  PROVE  MessagesTyped' /\ OnlyInFlightUnprocessed'
<1> USE DEF ServerInv, MessagesTyped, OnlyInFlightUnprocessed
<1>1. CASE UNCHANGED <<msgId, processed, body>>
  BY <1>1
<1>2. CASE LoadMeta
  <2>1. msgId' = InitialMsgId /\ processed' = InitialMsgId
    BY <1>2, FirstImageFacts DEF LoadMeta, MainMoves, FilesInPlace
  <2> QED
    BY <2>1, InitialMsgIdAssumption
<1>3. CASE StartThreads
  <2>1. UNCHANGED <<msgId, processed, pc>> /\ pc = "serve"
    BY <1>3 DEF StartThreads
  <2>2. body["update"] = "work" => body'["update"] = "work"
    BY <1>3, <2>1 DEF StartThreads, ThreadsInPlace, Threads, T!ThreadTypeOK, T!Start, T!Spawn, T!StartDone, T!Control
  <2> QED
    BY <2>1, <2>2
<1>4. CASE MergeBody
  <2>1. UNCHANGED <<msgId, processed>>
    BY <1>4 DEF MergeBody, BodyLoop, MergeSleeps, MergeWorks, MergeCommits
  <2>2. body'["update"] = body["update"]
    BY <1>4 DEF MergeBody, BodyLoop, MergeSleeps, MergeWorks, MergeCommits, threadVars,
       Threads, T!ThreadTypeOK, T!Loop, T!Leave, T!Work, T!BodyMoves
  <2> QED
    BY <2>1, <2>2
<1>5. CASE BodyLoop("update")
  <2>1. UNCHANGED <<msgId, processed>> /\ body["update"] \in {"test", "leaving"}
    BY <1>5 DEF BodyLoop, T!Loop, T!Leave, T!BodyMoves
  <2> QED
    BY <2>1
<1>6. ASSUME NEW r \in MsgIds, HasNext(r) PROVE MessagesTyped' /\ OnlyInFlightUnprocessed'
  BY <1>6, MsgIdsAssumption DEF HasNext, InLoop, threadVars
<1>7. ASSUME NEW r \in MsgIds, HasNoNext(r) PROVE MessagesTyped' /\ OnlyInFlightUnprocessed'
  BY <1>7 DEF HasNoNext
<1>8. CASE Process
  BY <1>8 DEF Process
<1>9. CASE StopThreads
  BY <1>1, <1>9 DEF StopThreads, T!StopTest, T!StopClear, T!Join, T!JoinReturn
<1>10. CASE Alone
  BY <1>1, <1>2, <1>10, AloneStep DEF threadVars
<1> QED
  BY <1>1, <1>2, <1>3, <1>4, <1>5, <1>6, <1>7, <1>8, <1>9, <1>10
  DEF ServerNext, Main, UpdateBody, Alone, vars, threadVars

-----------------------------------------------------------------------------
(* The theorems *)

\* Every step keeps the invariant.
LEMMA NextServerInv == ServerInv /\ [ServerNext]_vars => ServerInv'
BY ListKept, FilesKept, ListPlaceKept, ThreadsKept, MessagesKept DEF ServerInv

\* Every reachable state satisfies the invariant.
THEOREM ServerInvariant == ServerSpec => []ServerInv
BY InitServerInv, NextServerInv, PTL DEF ServerSpec

\* The variables of the server and of its threads keep their types.
THEOREM ServerTyped == ServerSpec => []ServerTypeOK
<1>1. ServerInv => ServerTypeOK
  BY DEF ServerInv, SMInv, FilesTyped, MessagesTyped, ServerTypeOK
<1> QED
  BY ServerInvariant, <1>1, PTL

\* The image of a save has every stored document once, although stop() does not
\* wait and a merge may be committed while the save goes on.
THEOREM SavesAreCovering == ServerSpec => []SavedImageCovers
<1>1. ServerInv => SavedImageCovers
  BY DEF ServerInv
<1> QED
  BY ServerInvariant, <1>1, PTL

\* From the load on, one of the two files is whole at every moment, unless an
\* output has lost bytes unnoticed or the copy has failed: and then only in the
\* places of main() that CrashFindsAnImage names.
THEOREM CrashIsSafe == ServerSpec => []CrashFindsAnImage
<1>1. ServerInv => CrashFindsAnImage
  BY DEF ServerInv
<1> QED
  BY ServerInvariant, <1>1, PTL

\* At most the message whose body is still running is marked and not processed.
THEOREM OneMessageInFlight == ServerSpec => []OnlyInFlightUnprocessed
<1>1. ServerInv => OnlyInFlightUnprocessed
  BY DEF ServerInv
<1> QED
  BY ServerInvariant, <1>1, PTL

\* The server's list is a list of SegmentManager, so that all that is proved of
\* that module holds of the server: it implements the live index.
THEOREM ServerImplementsLiveIndex == ServerSpec => LiveSpec
<1>1. ServerInit => Init
  BY DEF ServerInit
<1>2. ServerInv /\ [ServerNext]_vars => [Next]_smvars
  BY ListStep
<1>3. ServerSpec => Spec
  BY <1>1, <1>2, ServerInvariant, PTL DEF ServerSpec, Spec
<1> QED
  BY <1>3, ImplementsLiveIndex
=============================================================================
