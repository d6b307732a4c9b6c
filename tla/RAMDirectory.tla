------------------------------ MODULE RAMDirectory ------------------------------
(***************************************************************************)
(* RAMDirectory (src/store/ram_directory.cpp) and the RAMFiles in it       *)
(* (src/store/ram_file.cpp), shared by threads.  The size of the directory *)
(* is kept twice: in its own counter, under its own lock, and in the       *)
(* counters of its files, under theirs.  A file knows its directory by a   *)
(* weak pointer, to add each new buffer to the directory's counter as well.*)
(*                                                                         *)
(* A call is a sequence of steps between which other threads run.  Sizes   *)
(* are counted in buffers of RAMOutputStream, all of one size.             *)
(***************************************************************************)
EXTENDS Integers, FiniteSets

CONSTANTS
  Threads,              \* the threads, each with at most one stream that writes
  Names,                \* the file names
  Files,                \* the RAMFile objects there may be, one a create_output()
  None,                 \* no thread, no name, no file
  MaxBuffers            \* bound: the buffers of a file

ASSUME NoneAssumption == None \notin Threads \cup Names \cup Files
ASSUME BoundAssumption == MaxBuffers \in Nat

VARIABLES
  m_isOpen,             \* m_isOpen
  hasMap,               \* whether m_fileMap still has its container
  m_fileMap,            \* the file of each name, or None
  dirSize,              \* RAMDirectory::m_sizeInBytes
  dirLock,              \* the thread in a SyncLock on the directory
  fileSize,             \* RAMFile::m_sizeInBytes
  attached,             \* the files whose m_directory_ is set
  fileLock,             \* the thread in a SyncLock on each file
  stream,               \* the file that the thread's RAMOutputStream writes
  call,                 \* the call a thread is in
  disturbed             \* ghost: a file was deleted, or created again, while a
                        \* stream wrote it or another call was about to

directory == <<m_isOpen, hasMap, m_fileMap, dirSize, dirLock>>
file == <<fileSize, attached, fileLock>>
vars == <<directory, file, stream, call, disturbed>>

\* "want" waits for the directory's lock and "in" has it; "grow" has the lock of
\* a file in add_buffer(), "pin" is past it and about to take m_directory_.lock();
\* "stamp" waits for the lock of a file to set its time.
\* "crash" has followed the null pointer of a map that close() reset.
At == {"idle", "want", "in", "grow", "pin", "stamp", "crash"}
Ops == {"create", "delete", "length", "list", "size", "find", "add"}
Idle == [at |-> "idle", op |-> "size", name |-> None, file |-> None]

TypeOK ==
  /\ m_isOpen \in BOOLEAN /\ hasMap \in BOOLEAN
  /\ m_fileMap \in [Names -> Files \cup {None}]
  /\ dirSize \in Int
  /\ dirLock \in Threads \cup {None}
  /\ fileSize \in [Files -> Nat]
  /\ attached \in SUBSET Files
  /\ fileLock \in [Files -> Threads \cup {None}]
  /\ stream \in [Threads -> Files \cup {None}]
  /\ disturbed \in BOOLEAN
  /\ call \in [Threads -> [at : At, op : Ops, name : Names \cup {None}, file : Files \cup {None}]]

Init ==
  /\ m_isOpen = TRUE /\ hasMap = TRUE
  /\ m_fileMap = [n \in Names |-> None]
  /\ dirSize = 0 /\ dirLock = None
  /\ fileSize = [f \in Files |-> 0]
  /\ attached = {}
  /\ fileLock = [f \in Files |-> None]
  /\ stream = [t \in Threads |-> None]
  /\ call = [t \in Threads |-> Idle]
  /\ disturbed = FALSE

-----------------------------------------------------------------------------

\* Thread t is at a step of op, or comes from there to another one.
Is(t, at, op) == call[t].at = at /\ call[t].op = op
Goes(t, at) == call' = [call EXCEPT ![t].at = at]
Returns(t) == call' = [call EXCEPT ![t] = Idle]
Crashes(t) == Goes(t, "crash")

\* The files that some stream or some call still refers to.
Streamed == {stream[t] : t \in Threads} \cup {call[t].file : t \in Threads}

\* A create_output() or delete_file() of n comes upon others that use it.
Disturbs(n) ==
  disturbed' = (\/ disturbed
                \/ m_fileMap[n] \in Streamed \ {None}
                \/ \E t \in Threads : call[t].op \in {"create", "delete"} /\ call[t].name = n)

Begin(t, op, n, f) ==
  /\ call[t] = Idle
  /\ call' = [call EXCEPT ![t] = [at |-> "want", op |-> op, name |-> n, file |-> f]]

Enter(t) ==
  /\ call[t].at = "want" /\ dirLock = None
  /\ dirLock' = t
  /\ Goes(t, "in")
  /\ UNCHANGED <<m_isOpen, hasMap, m_fileMap, dirSize, file, stream, disturbed>>

\* The end of the scope of the SyncLock on the directory, and of the call.
LeaveDirectory(t) == dirLock' = None /\ Returns(t)

\* Those that ask whether the directory is open inside of its lock; the others
\* have asked before.
AsksInside == {"delete", "length", "list", "size"}
UsesMap == {"create", "delete", "length", "list", "find"}
NeedsFile == {"delete", "length", "find"}

Rejected(t) ==
  /\ call[t].at = "in"
  /\ \/ call[t].op \in AsksInside /\ ~m_isOpen
     \/ call[t].op \in NeedsFile /\ hasMap /\ m_fileMap[call[t].name] = None
  /\ LeaveDirectory(t)
  /\ UNCHANGED <<m_isOpen, hasMap, m_fileMap, dirSize, file, stream, disturbed>>

\* It was open, and the map is gone: the null pointer of its container is used.
NullMap(t) ==
  /\ call[t].at = "in" /\ ~hasMap
  /\ call[t].op \in UsesMap /\ (call[t].op \in AsksInside => m_isOpen)
  /\ Crashes(t)
  /\ UNCHANGED <<directory, file, stream, disturbed>>

-----------------------------------------------------------------------------
(* create_output(), delete_file(), and the calls that change no size *)

\* The objects that nobody has used: whichever the constructor makes.
New == {f \in Files \ (attached \cup Streamed) : fileSize[f] = 0}

\* ensure_open() without the lock, and the constructor of the RAMFile.
CreateOutput(t, n) ==
  /\ m_isOpen /\ stream[t] = None /\ New # {}
  /\ Disturbs(n)
  /\ LET f == CHOOSE f \in New : TRUE
     IN  /\ Begin(t, "create", n, f)
         /\ attached' = attached \cup {f}
  /\ UNCHANGED <<directory, fileSize, fileLock, stream>>

\* Mutant: the size of a file that is replaced is not taken off.
PutFile_KeepsSize(t) ==
  /\ Is(t, "in", "create") /\ hasMap
  /\ LET f == call[t].file
         existing == m_fileMap[call[t].name]
     IN  /\ IF existing # None
            THEN /\ fileLock[existing] = None
                 /\ attached' = attached \ {existing}
            ELSE UNCHANGED attached
         /\ m_fileMap' = [m_fileMap EXCEPT ![call[t].name] = f]
         /\ stream' = [stream EXCEPT ![t] = f]
  /\ LeaveDirectory(t)
  /\ UNCHANGED <<m_isOpen, hasMap, dirSize, fileSize, fileLock, disturbed>>

\* A file of that name is taken off the size, under its own lock, and cut off.
PutFile(t) ==
  /\ Is(t, "in", "create") /\ hasMap
  /\ LET f == call[t].file
         existing == m_fileMap[call[t].name]
     IN  /\ IF existing # None
            THEN /\ fileLock[existing] = None
                 /\ dirSize' = dirSize - fileSize[existing]
                 /\ attached' = attached \ {existing}
            ELSE UNCHANGED <<dirSize, attached>>
         /\ m_fileMap' = [m_fileMap EXCEPT ![call[t].name] = f]
         /\ stream' = [stream EXCEPT ![t] = f]
  /\ LeaveDirectory(t)
  /\ UNCHANGED <<m_isOpen, hasMap, fileSize, fileLock, disturbed>>

DeleteFile(t, n) ==
  /\ Disturbs(n)
  /\ Begin(t, "delete", n, None)
  /\ UNCHANGED <<directory, file, stream>>

\* The size is taken off under the locks of both; m_directory_ stays set.
RemoveFile(t) ==
  /\ Is(t, "in", "delete") /\ m_isOpen /\ hasMap
  /\ LET f == m_fileMap[call[t].name]
     IN  /\ f # None
         /\ fileLock[f] = None
         /\ dirSize' = dirSize - fileSize[f]
         /\ m_fileMap' = [m_fileMap EXCEPT ![call[t].name] = None]
  /\ LeaveDirectory(t)
  /\ UNCHANGED <<m_isOpen, hasMap, file, stream, disturbed>>

\* "length" stands for file_length() and file_modified(), "list" for list_all()
\* and file_exists().
Ask(t) ==
  /\ \/ \E n \in Names : Begin(t, "length", n, None)
     \/ \E op \in {"list", "size"} : Begin(t, op, None, None)
  /\ UNCHANGED <<directory, file, stream, disturbed>>

\* What a file answers takes its lock inside of the directory's.
Answer(t) ==
  /\ m_isOpen
  /\ \/ Is(t, "in", "size")
     \/ Is(t, "in", "list") /\ hasMap
     \/ /\ Is(t, "in", "length") /\ hasMap
        /\ m_fileMap[call[t].name] # None
        /\ fileLock[m_fileMap[call[t].name]] = None
  /\ LeaveDirectory(t)
  /\ UNCHANGED <<m_isOpen, hasMap, m_fileMap, dirSize, file, stream, disturbed>>

\* touch_file() and open_input(), after ensure_open() without the lock.
Find(t, n) ==
  /\ m_isOpen
  /\ Begin(t, "find", n, None)
  /\ UNCHANGED <<directory, file, stream, disturbed>>

\* They leave the lock of the directory with the file, which touch_file() then
\* sets the time of; the stream of open_input() changes nothing here.
Found(t) ==
  /\ Is(t, "in", "find") /\ hasMap
  /\ m_fileMap[call[t].name] # None
  /\ \/ Returns(t)
     \/ call' = [call EXCEPT ![t].at = "stamp", ![t].file = m_fileMap[call[t].name]]
  /\ dirLock' = None
  /\ UNCHANGED <<m_isOpen, hasMap, m_fileMap, dirSize, file, stream, disturbed>>

Stamp(t) ==
  /\ call[t].at = "stamp" /\ fileLock[call[t].file] = None
  /\ Returns(t)
  /\ UNCHANGED <<directory, file, stream, disturbed>>

-----------------------------------------------------------------------------
(* RAMFile::add_buffer(), and the end of a stream *)

AddBuffer(t) ==
  LET f == stream[t]
  IN  /\ call[t] = Idle /\ f # None
      /\ fileSize[f] < MaxBuffers
      /\ fileLock[f] = None
      /\ fileLock' = [fileLock EXCEPT ![f] = t]
      /\ call' = [call EXCEPT ![t] = [at |-> "grow", op |-> "add", name |-> None, file |-> f]]
      /\ UNCHANGED <<directory, fileSize, attached, stream, disturbed>>

\* Mutant: the lock of the file is kept while the directory's is waited for.
Grow_KeepsLock(t) ==
  /\ call[t].at = "grow"
  /\ fileSize' = [fileSize EXCEPT ![call[t].file] = @ + 1]
  /\ Goes(t, "pin")
  /\ UNCHANGED <<directory, attached, fileLock, stream, disturbed>>

\* The buffer is counted in the file, and the lock of the file is left.
Grow(t) ==
  /\ call[t].at = "grow"
  /\ fileSize' = [fileSize EXCEPT ![call[t].file] = @ + 1]
  /\ fileLock' = [fileLock EXCEPT ![call[t].file] = None]
  /\ Goes(t, "pin")
  /\ UNCHANGED <<directory, attached, stream, disturbed>>

Pin(t) ==
  /\ call[t].at = "pin"
  /\ IF call[t].file \in attached THEN Goes(t, "want") ELSE Returns(t)
  /\ UNCHANGED <<directory, file, stream, disturbed>>

Count(t) ==
  /\ Is(t, "in", "add")
  /\ dirSize' = dirSize + 1
  /\ LeaveDirectory(t)
  /\ UNCHANGED <<m_isOpen, hasMap, m_fileMap, file, stream, disturbed>>

CloseStream(t) ==
  /\ call[t] = Idle /\ stream[t] # None
  /\ stream' = [stream EXCEPT ![t] = None]
  /\ UNCHANGED <<directory, file, call, disturbed>>

-----------------------------------------------------------------------------
(* close(), without any lock *)

Close ==
  /\ m_isOpen
  /\ m_isOpen' = FALSE
  /\ UNCHANGED <<hasMap, m_fileMap, dirSize, dirLock, file, stream, call, disturbed>>

ResetMap ==
  /\ ~m_isOpen /\ hasMap
  /\ hasMap' = FALSE
  /\ m_fileMap' = [n \in Names |-> None]
  /\ UNCHANGED <<m_isOpen, dirSize, dirLock, file, stream, call, disturbed>>

-----------------------------------------------------------------------------

Proceed(t) ==
  \/ Enter(t) \/ Rejected(t) \/ NullMap(t)
  \/ PutFile(t) \/ RemoveFile(t) \/ Answer(t) \/ Found(t) \/ Stamp(t)
  \/ Grow(t) \/ Pin(t) \/ Count(t)

Client(t) ==
  \/ \E n \in Names : CreateOutput(t, n) \/ DeleteFile(t, n) \/ Find(t, n)
  \/ Ask(t) \/ AddBuffer(t) \/ CloseStream(t)

\* The null pointer ends the process.
Crashed == \E t \in Threads : call[t].at = "crash"

Next ==
  /\ ~Crashed
  /\ Close \/ ResetMap \/ \E t \in Threads : Client(t) \/ Proceed(t)

Spec == Init /\ [][Next]_vars

\* A thread inside of a call runs, and gets the lock of the directory if it is
\* free again and again.
Fairness ==
  \A t \in Threads : WF_vars(~Crashed /\ Proceed(t)) /\ SF_vars(~Crashed /\ Enter(t))

-----------------------------------------------------------------------------
(* Properties *)

\* The two books agree at every moment: the directory's counter is the number of
\* the buffers in the counters of the files in its map, less those that
\* add_buffer() has counted in the file and not yet in the directory.  That ends
\* when a file is deleted that a stream still writes, because it keeps its
\* directory and adds to its size, or is replaced between the two counts of an
\* add_buffer().
Mapped == {m_fileMap[n] : n \in Names} \ {None}
Buffers(f) == {f} \X (1..fileSize[f])
Counted == UNION {Buffers(f) : f \in Mapped}
Uncounted == {t \in Threads : call[t].at = "pin" \/ (call[t].op = "add" /\ call[t].at \in {"want", "in"})}
SizeExact ==
  ~disturbed /\ hasMap =>
    dirSize = Cardinality(Counted) - Cardinality(Uncounted)

\* ram_directory.h, "Lock acquisition sequence: RAMDirectory, then RAMFile": no
\* thread waits for the directory's lock, or is about to, with a file's.
LockSequence ==
  \A t \in Threads : call[t].at \in {"pin", "want"} => \A f \in Files : fileLock[f] # t

\* Every call returns, however writers that add buffers, which take the lock of
\* the file first, meet callers that take it inside of the directory's; unless
\* one has followed the null pointer of the map that close() reset beside it.
CallsReturn ==
  \A t \in Threads : call[t] # Idle ~> call[t] = Idle \/ Crashed
=============================================================================
