------------------------------ MODULE IndexServer ------------------------------
(***************************************************************************)
(* The server: main() (src/server/main.cpp) writes a segments.meta, loads  *)
(* it, runs the merge thread and the update thread, stops them and saves.  *)
(* It composes LuceneThread (start and stop of the two threads) and        *)
(* SegmentManager (the list and its clients) and adds                      *)
(*   - UpdateThread and its message id (src/server/update_thread.cpp),     *)
(*   - save_to_file() and the files segments.meta and segments.meta.tmp    *)
(*     (src/server/segment_manager.cpp).  Both are written through a       *)
(*     SimpleFSIndexOutput, which takes no notice of an open or a write    *)
(*     that fails (src/store/simple_fs_directory.cpp:151, 208).            *)
(* A crash is one of the process: it leaves the files as they are.         *)
(* The bodies of the two threads execute their loop's body step by step;   *)
(* an exception in them and a failing std::thread are left to              *)
(* LuceneThread.                                                           *)
(***************************************************************************)
EXTENDS SegmentManager

CONSTANTS
  InitialMsgId,         \* the message id main() writes (132 in the source)
  MsgIds                \* the ids has_next() draws

ASSUME InitialMsgIdAssumption == InitialMsgId \in Nat
ASSUME MsgIdsAssumption == MsgIds \subseteq Nat

VARIABLES
  running, handle, body, ctl,   \* the threads, see LuceneThread
  msgId,                \* _msg_id_hitherto
  processed,            \* ghost: the last message whose processing was done
  pc,                   \* where main() is, save_to_file() included
  image,                \* what save_to_file() has read so far
  meta, tmp,            \* the files segments.meta and segments.meta.tmp
  lost,                 \* ghost: the files whose open or write failed unnoticed
  copyFailed            \* ghost: copy_file() has returned false

Threads == {"merge", "update"}
T == INSTANCE LuceneThread

threadVars == <<running, handle, body, ctl>>
disk == <<meta, tmp, lost, copyFailed>>
vars == <<smvars, threadVars, msgId, processed, pc, image, disk>>

\* A file is absent, or has only some of its bytes, or holds a whole image.
NoFile == [state |-> "absent"]
Torn == [state |-> "torn"]
Whole(msg, segs) == [state |-> "whole", msg |-> msg, segs |-> segs]
IsWhole(file) == file.state = "whole"
WholeFile == [state : {"whole"}, msg : Nat, segs : SUBSET Segment]
IsFile(file) == file \in {NoFile, Torn} \/ file \in WholeFile

\* The first image is the one main() writes.
FirstImage == Whole(InitialMsgId, SegmentsOf(StoredNames))

Pc == {"create", "write", "load", "serve", "stop", "save", "msgid", "snapshot",
       "close", "copy", "copying", "remove", "exit"}

ServerTypeOK ==
  /\ TypeOK
  /\ T!ThreadTypeOK
  /\ msgId \in Nat
  /\ processed \in Nat
  /\ pc \in Pc
  /\ IsFile(image)
  /\ IsFile(meta)
  /\ IsFile(tmp)
  /\ lost \in SUBSET {"meta", "tmp"}
  /\ copyFailed \in BOOLEAN

ServerInit ==
  /\ Init
  /\ T!ThreadInit
  /\ msgId = 0
  /\ processed = 0
  /\ pc = "create"
  /\ image = NoFile
  /\ meta = NoFile
  /\ tmp = NoFile
  /\ lost = {}
  /\ copyFailed = FALSE

MainMoves(from, to) == pc = from /\ pc' = to

-----------------------------------------------------------------------------
(* main(): write and load *)

\* The output of `name` opens its file, or fails to and says nothing.
OpenOutput(name, file) ==
  \/ file' = Torn /\ UNCHANGED lost
  \/ file' = file /\ lost' = lost \cup {name}

\* Its close() flushes the buffer into the file.  After a failed open there is
\* none, and what a failed write has not written is lost.
CloseOutput(name, file, content) ==
  \/ file # NoFile /\ file' = content /\ UNCHANGED lost
  \/ file' = file /\ lost' = lost \cup {name}

CreateMeta ==
  /\ MainMoves("create", "write")
  /\ OpenOutput("meta", meta)
  /\ UNCHANGED <<smvars, threadVars, msgId, processed, image, tmp, copyFailed>>

WriteMeta ==
  /\ MainMoves("write", "load")
  /\ CloseOutput("meta", meta, FirstImage)
  /\ UNCHANGED <<smvars, threadVars, msgId, processed, image, tmp, copyFailed>>

\* The names in the file are all that is kept: every segment is whole again.
LoadMeta ==
  /\ IsWhole(meta)
  /\ MainMoves("load", "serve")
  /\ Load(NamesOf(meta.segs))
  /\ msgId' = meta.msg
  /\ processed' = meta.msg
  /\ UNCHANGED <<threadVars, image, disk>>

\* An exception in init_from_file(), of which main() takes no notice.  A file
\* that is absent or short always ends in one.
LoadMetaFails ==
  /\ MainMoves("load", "serve")
  /\ \E read \in SUBSET StoredNames : LoadFails(read)
  /\ UNCHANGED <<threadVars, msgId, processed, image, disk>>

-----------------------------------------------------------------------------
(* main(): start both threads, sleep, stop both threads *)

StartThreads ==
  /\ pc = "serve"
  /\ \/ T!Start("merge")
     \/ ctl["merge"] = "started" /\ T!Start("update")
     \/ \E t \in Threads : T!Spawn(t) \/ T!StartDone(t)
  /\ UNCHANGED <<smvars, msgId, processed, pc, image, disk>>

WakeUp ==
  /\ \A t \in Threads : ctl[t] = "started"
  /\ MainMoves("serve", "stop")
  /\ UNCHANGED <<smvars, threadVars, msgId, processed, image, disk>>

StopThreads ==
  /\ pc = "stop"
  /\ \/ T!StopTest("update")
     \/ ctl["update"] = "idle" /\ T!StopTest("merge")
     \/ \E t \in Threads :
          T!StopClear(t) \/ (ctl[t] = "cleared" /\ T!Join(t)) \/ T!JoinReturn(t)
  /\ UNCHANGED <<smvars, msgId, processed, pc, image, disk>>

Stopped ==
  /\ \A t \in Threads : ctl[t] = "idle"
  /\ MainMoves("stop", "save")
  /\ UNCHANGED <<smvars, threadVars, msgId, processed, image, disk>>

-----------------------------------------------------------------------------
(* main(): save_to_file() *)

OpenTmp ==
  /\ loadResult = "ok"
  /\ MainMoves("save", "msgid")
  /\ OpenOutput("tmp", tmp)
  /\ UNCHANGED <<smvars, threadVars, msgId, processed, image, meta, copyFailed>>

\* init_from_file() has failed before it set _directory: the save goes to
\* another directory, and these files stay.
SaveNothing ==
  /\ loadResult # "ok"
  /\ MainMoves("save", "exit")
  /\ UNCHANGED <<smvars, threadVars, msgId, processed, image, disk>>

ReadMsgId ==
  /\ MainMoves("msgid", "snapshot")
  /\ image' = Whole(msgId, {})
  /\ UNCHANGED <<smvars, threadVars, msgId, processed, disk>>

SaveSnapshot ==
  /\ MainMoves("snapshot", "close")
  /\ image' = Whole(image.msg, segments)
  /\ UNCHANGED <<smvars, threadVars, msgId, processed, disk>>

\* Mutant: the output is not closed before the copy, its buffer stays in memory.
CloseTmp_Unflushed ==
  /\ MainMoves("close", "copy")
  /\ UNCHANGED <<smvars, threadVars, msgId, processed, image, disk>>

CloseTmp ==
  /\ MainMoves("close", "copy")
  /\ CloseOutput("tmp", tmp, image)
  /\ UNCHANGED <<smvars, threadVars, msgId, processed, image, meta, copyFailed>>

\* copy_file() opens the temporary file, truncates segments.meta and writes it
\* anew with whatever the temporary file holds.
CopyBegins ==
  /\ tmp # NoFile
  /\ MainMoves("copy", "copying")
  /\ meta' = Torn
  /\ UNCHANGED <<smvars, threadVars, msgId, processed, image, tmp, lost, copyFailed>>

CopyEnds ==
  /\ MainMoves("copying", "remove")
  /\ meta' = tmp
  /\ UNCHANGED <<smvars, threadVars, msgId, processed, image, tmp, lost, copyFailed>>

\* copy_file() fails, before or after the truncation.
CopyFails ==
  /\ MainMoves("copy", "remove") \/ MainMoves("copying", "remove")
  /\ copyFailed' = TRUE
  /\ UNCHANGED <<smvars, threadVars, msgId, processed, image, meta, tmp, lost>>

\* remove_file(), whatever copy_file() has returned.  It may fail as well.
RemoveTmp ==
  /\ MainMoves("remove", "exit")
  /\ tmp' \in {tmp, NoFile}
  /\ UNCHANGED <<smvars, threadVars, msgId, processed, image, meta, lost, copyFailed>>

-----------------------------------------------------------------------------
(* The bodies of the threads, and the indexers *)

InLoop(t) == pc # "exit" /\ body[t] = "work"

\* The test of the loop, and the end of run_thread().
BodyLoop(t) ==
  /\ pc # "exit"
  /\ T!Loop(t) \/ T!Leave(t)
  /\ UNCHANGED <<smvars, msgId, processed, pc, image, disk>>

\* Mutant: `<=` in the place of `<`.
MergeSleeps_AtThreshold ==
  /\ InLoop("merge") /\ mergeIn = {}
  /\ Cardinality(segments) <= MERGE_THRESHOLD
  /\ T!Work("merge")
  /\ UNCHANGED <<smvars, msgId, processed, pc, image, disk>>

MergeSleeps ==
  /\ InLoop("merge") /\ mergeIn = {}
  /\ Cardinality(segments) < MERGE_THRESHOLD
  /\ T!Work("merge")
  /\ UNCHANGED <<smvars, msgId, processed, pc, image, disk>>

MergeWorks ==
  /\ InLoop("merge")
  /\ MergeSnapshot \/ MergeName
  /\ UNCHANGED <<threadVars, msgId, processed, pc, image, disk>>

MergeCommits ==
  /\ InLoop("merge")
  /\ MergeDone
  /\ T!Work("merge")
  /\ UNCHANGED <<msgId, processed, pc, image, disk>>

\* Mutant: the iteration ends before the message is processed.
HasNext_Returns(r) ==
  /\ InLoop("update") /\ processed = msgId
  /\ r > msgId
  /\ msgId' = r
  /\ T!Work("update")
  /\ UNCHANGED <<smvars, processed, pc, image, disk>>

\* has_next() stores the id of the message before it is processed.
HasNext(r) ==
  /\ InLoop("update") /\ processed = msgId
  /\ r > msgId
  /\ msgId' = r
  /\ UNCHANGED <<smvars, threadVars, processed, pc, image, disk>>

HasNoNext(r) ==
  /\ InLoop("update") /\ processed = msgId
  /\ r <= msgId
  /\ T!Work("update")
  /\ UNCHANGED <<smvars, msgId, processed, pc, image, disk>>

Process ==
  /\ InLoop("update") /\ processed # msgId
  /\ processed' = msgId
  /\ T!Work("update")
  /\ UNCHANGED <<smvars, msgId, pc, image, disk>>

Indexer ==
  /\ pc # "exit"
  /\ TakeName \/ (\E n \in indexing : AddSegment(n))
  /\ UNCHANGED <<threadVars, msgId, processed, pc, image, disk>>

-----------------------------------------------------------------------------

LoadStep == CreateMeta \/ WriteMeta \/ LoadMeta \/ LoadMetaFails

SaveStep ==
  \/ OpenTmp \/ SaveNothing \/ ReadMsgId \/ SaveSnapshot \/ CloseTmp
  \/ CopyBegins \/ CopyEnds \/ CopyFails \/ RemoveTmp

Main == LoadStep \/ StartThreads \/ WakeUp \/ StopThreads \/ Stopped \/ SaveStep

MergeBody == BodyLoop("merge") \/ MergeSleeps \/ MergeWorks \/ MergeCommits

UpdateBody ==
  \/ BodyLoop("update") \/ Process
  \/ \E r \in MsgIds : HasNext(r) \/ HasNoNext(r)

ServerNext == Main \/ MergeBody \/ UpdateBody \/ Indexer

ServerSpec == ServerInit /\ [][ServerNext]_vars

\* The scheduler runs the threads.  main() is left out: how long its sleep(30)
\* lasts, next to their steps, is open.
FairSpec == ServerSpec /\ WF_vars(MergeBody) /\ WF_vars(UpdateBody)

-----------------------------------------------------------------------------
(* Properties *)

\* An image that a save wrote divides the documents into disjoint segments and
\* has every document of the index that was loaded, although the threads that
\* stop() did not wait for still merge and index while it is taken.
SavedImageCovers ==
  \A file \in {meta, tmp} : IsWhole(file) =>
    /\ \A s, t \in file.segs : s # t => s.name # t.name /\ s.from \cap t.from = {}
    /\ StoredNames \subseteq FromOf(file.segs)

\* From the load on, a crash of the process at any moment finds a whole image in
\* segments.meta or in segments.meta.tmp, although the copy goes over the old
\* file in place and the temporary file is removed whatever came of the copy.
\* There are three exceptions and no other: the bytes of the first file were
\* lost unnoticed; those of the temporary file were, and it has been copied; or
\* copy_file() has failed and the temporary file has been removed after it.
CrashFindsAnImage ==
  pc \notin {"create", "write"} =>
    \/ IsWhole(meta) \/ IsWhole(tmp)
    \/ "meta" \in lost
    \/ "tmp" \in lost /\ pc \in {"copying", "remove", "exit"}
    \/ copyFailed /\ pc = "exit"

\* At most the message in flight is marked in the message id without having
\* been processed, and only while its thread is still at it.
OnlyInFlightUnprocessed ==
  processed # msgId => body["update"] = "work" /\ processed < msgId

\* If the main thread is scheduled and its sleep ends, the server comes to its
\* end: neither start() nor stop() nor the save ever hangs on a thread.
MainFinishes == WF_vars(Main) => <>(pc = "exit")

\* While main() sleeps and the merge thread lives, merging goes on until fewer
\* segments than the threshold are left, however the indexers interfere.
MergeConverges ==
  <>[](pc = "serve" /\ handle["merge"] = "joinable" /\ body["merge"] # "dead")
    => <>[](Cardinality(segments) < MERGE_THRESHOLD)
=============================================================================
