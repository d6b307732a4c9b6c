---------------------------- MODULE SegmentManager ----------------------------
(***************************************************************************)
(* SegmentManager (src/server/segment_manager.cpp) and the threads that    *)
(* call it: the one MergeThread (src/server/merge_thread.cpp) and the      *)
(* indexers, clients of next_segment_name() and add_segment().  The        *)
(* repository declares add_segment() for them and has no caller of it yet. *)
(*                                                                         *)
(* A segment name is the decimal numeral of a number and is modelled by    *)
(* the number.  The vector _segments is a set: nothing in the code depends *)
(* on its order, run() sorts its copy.  With each segment goes a ghost     *)
(* field, the names of the segments that its documents came in with.       *)
(***************************************************************************)
EXTENDS Integers, FiniteSets

CONSTANTS
  StoredNames,          \* the names a segments.meta may list
  MaxIndexed            \* bound: indexers take names up to this number

ASSUME StoredNamesAssumption == StoredNames \subseteq Nat \ {0}
ASSUME MaxIndexedAssumption == MaxIndexed \in Nat

VARIABLES
  segments,             \* _segments
  segNumMax,            \* _seg_num_max
  loadResult,           \* what init_from_file() returned
  indexing,             \* names that indexers took and have not added
  mergeIn,              \* MergeThread::run(): the names s1 and s2, {} outside
  snew                  \* MergeThread::run(): the name snew, 0 before it is taken

smvars == <<segments, segNumMax, loadResult, indexing, mergeIn, snew>>

MERGE_THRESHOLD == 3

Segment == [name : Nat, from : SUBSET Nat]

NamesOf(S) == {s.name : s \in S}
FromOf(S) == UNION {s.from : s \in S}
SegmentsOf(names) == {[name |-> n, from |-> {n}] : n \in names}

TypeOK ==
  /\ segments \in SUBSET Segment
  /\ segNumMax \in Nat
  /\ loadResult \in {"none", "ok", "error"}
  /\ indexing \in SUBSET Nat
  /\ mergeIn \in SUBSET Nat
  /\ snew \in Nat

Init ==
  /\ segments = {}
  /\ segNumMax = 0
  /\ loadResult = "none"
  /\ indexing = {}
  /\ mergeIn = {}
  /\ snew = 0

\* Mutant: init_from_file() does not keep the greatest number.
RaiseMax_Forgotten(names) == names \subseteq Nat /\ UNCHANGED segNumMax

\* _seg_num_max becomes the greatest of the names and of itself.
RaiseMax(names) ==
  /\ segNumMax' \in names \cup {segNumMax}
  /\ \A n \in names \cup {segNumMax} : n <= segNumMax'

\* init_from_file() of a complete segments.meta.
Load(names) ==
  /\ loadResult = "none"
  /\ segments' = SegmentsOf(names)
  /\ RaiseMax(names)
  /\ loadResult' = "ok"
  /\ UNCHANGED <<indexing, mergeIn, snew>>

\* An exception after the names in `read`: _segments is cleared and
\* _seg_num_max is left as it is.
LoadFails(read) ==
  /\ loadResult = "none"
  /\ segments' = {}
  /\ RaiseMax(read)
  /\ loadResult' = "error"
  /\ UNCHANGED <<indexing, mergeIn, snew>>

next_segment_name == segNumMax' = segNumMax + 1

\* An indexer: name, build the segment, add.
TakeName ==
  /\ loadResult # "none"
  /\ segNumMax < MaxIndexed
  /\ next_segment_name
  /\ indexing' = indexing \cup {segNumMax'}
  /\ UNCHANGED <<segments, loadResult, mergeIn, snew>>

AddSegment(n) ==
  /\ n \in indexing
  /\ segments' = segments \cup SegmentsOf({n})
  /\ indexing' = indexing \ {n}
  /\ UNCHANGED <<segNumMax, loadResult, mergeIn, snew>>

\* a and b are the first two of the sorted snapshot.
TwoSmallest(a, b) ==
  /\ a < b
  /\ \A c \in NamesOf(segments) \ {a, b} : b < c

\* One iteration of MergeThread::run(): snapshot, name, on_merge_done().
MergeSnapshot ==
  /\ loadResult # "none" /\ mergeIn = {}
  /\ Cardinality(segments) >= MERGE_THRESHOLD
  /\ \E a, b \in NamesOf(segments) : TwoSmallest(a, b) /\ mergeIn' = {a, b}
  /\ UNCHANGED <<segments, segNumMax, loadResult, indexing, snew>>

MergeName ==
  /\ mergeIn # {} /\ snew = 0
  /\ next_segment_name
  /\ snew' = segNumMax'
  /\ UNCHANGED <<segments, loadResult, indexing, mergeIn>>

\* Mutant: only the first of the two inputs is erased.
on_merge_done_KeepsSecond ==
  LET old == {s \in segments : s.name \in mergeIn}
  IN  \E s \in old :
        segments' = (segments \ {s}) \cup {[name |-> snew, from |-> FromOf(old)]}

on_merge_done ==
  LET old == {s \in segments : s.name \in mergeIn}
  IN  segments' = (segments \ old) \cup {[name |-> snew, from |-> FromOf(old)]}

\* Mutant: the next iteration goes on with the old snapshot.
MergeDone_StaleSnapshot ==
  /\ snew # 0
  /\ on_merge_done
  /\ snew' = 0
  /\ UNCHANGED <<segNumMax, loadResult, indexing, mergeIn>>

MergeDone ==
  /\ snew # 0
  /\ on_merge_done
  /\ mergeIn' = {} /\ snew' = 0
  /\ UNCHANGED <<segNumMax, loadResult, indexing>>

Next ==
  \/ \E names \in SUBSET StoredNames : Load(names) \/ LoadFails(names)
  \/ TakeName \/ (\E n \in indexing : AddSegment(n))
  \/ MergeSnapshot \/ MergeName \/ MergeDone

Spec == Init /\ [][Next]_smvars

-----------------------------------------------------------------------------
(* Properties *)

\* Two segments at work never have the same name, and a name that a thread has
\* taken and not yet published is nobody else's: next_segment_name() is called
\* under a mutex of its own, apart from the one of the list.
NamesUnique ==
  /\ \A s, t \in segments : s.name = t.name => s = t
  /\ NamesOf(segments) \cap (indexing \cup {snew}) = {}
  /\ snew \notin indexing

\* on_merge_done() finds both of its inputs in the list, although run() took
\* them from a copy and released the lock: erase(find(...)) of a name that is
\* gone would be undefined behaviour.
MergeInputsPresent == mergeIn \subseteq NamesOf(segments)

\* The list implements a live index: the documents stay divided into disjoint
\* sets and none is lost or doubled by a merge that races the indexers.
Live == INSTANCE LiveIndex WITH parts <- {s.from : s \in segments}
LiveSpec == Live!Spec
=============================================================================
