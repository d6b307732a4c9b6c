------------------------------- MODULE FSDirectory -------------------------------
(***************************************************************************)
(* Directories in the file system (src/store/fs_directory.cpp), with the   *)
(* streams that SimpleFSDirectory opens in them                            *)
(* (src/store/simple_fs_directory.cpp), the calls of the system behind     *)
(* them (src/util/file_utils.cpp), and Directory::copy()                   *)
(* (src/store/directory.cpp).  There is one FSDirectory on each path; each *)
(* thread is in a call, or has a stream, or is in a copy() with its two.   *)
(* A step is one call of the system, so that the calls of threads          *)
(* interleave as they do between file_exists(), remove_file() and the      *)
(* opening of a file.  What a file has is a sequence of blocks; the        *)
(* buffers are in FSStream.                                                *)
(***************************************************************************)
EXTENDS Integers, Sequences, SequencesExt, FiniteSets

CONSTANTS
  Threads, Dirs, Names,
  Setups,               \* bound: the threads, directories and names of a behaviour,
                        \* the blocks that a stream writes, and whether the
                        \* machine goes down
  None,
  Src, Dest,            \* the directories of copy()
  SyncTries,            \* how often sync() tries (5 in the source)
  LengthTries,          \* how often file_length() asks again (100 in the source)
  MaxFailures           \* bound: the calls of the system that fail

ASSUME DirsAssumption == Src \in Dirs /\ Dest \in Dirs /\ Src # Dest
ASSUME SetupsAssumption ==
  \A s \in Setups : /\ s.threads \subseteq Threads /\ s.dirs \subseteq Dirs /\ s.names \subseteq Names
                 /\ s.blocks \in Nat /\ s.crashes \in BOOLEAN
ASSUME TriesAssumption == SyncTries \in Nat \ {0} /\ LengthTries \in Nat
ASSUME ThreadsAssumption == IsFiniteSet(Threads)

VARIABLES
  setup,                \* which of them this behaviour has
  dirExists,            \* the directories that exist in the file system
  entry,                \* the inode of each name, or None
  onDisk,               \* the same on stable storage
  file,                 \* the inodes: their blocks, how many are stable, and
                        \* ghost: how many sync() has answered for, and
                        \* whether two output streams were opened on it
  failures,             \* how many calls of the system have failed
  m_isOpen, m_checked,  \* the FSDirectory on each path
  call,                 \* the call that a thread is in
  out, in,              \* its streams, or None
  copy                  \* the copy() that it is in, or None

files == <<setup, onDisk, dirExists, entry, file, failures>>
objects == <<m_isOpen, m_checked>>
streams == <<out, in>>
vars == <<files, objects, call, streams, copy>>

\* An inode belongs to the name that it was made for, as nothing is renamed: the
\* one that has the name now, the one that has it on stable storage, and those
\* that a thread still has.
Numbers == 1..(2 + Cardinality(Threads))
Inodes == Dirs \X Names \X Numbers
Inode(d, n, k) == <<d, n, k>>
Empty == [data |-> <<>>, stable |-> 0, safe |-> 0, shared |-> FALSE]

Zero == None            \* what is between the end of a file and a later write
Blocks == Threads \cup {Zero}
Files == [data : Seq(Blocks), stable : Nat, safe : Nat, shared : BOOLEAN]

\* Where a call can be: in create_output(), elsewhere, or between those of a copy().
Making == {"create", "mkdir", "test", "remove", "open"}
Between == {"next", "source", "copying", "cleanup"}
Calls ==
  [pc : Making \cup {"idle", "delete", "sync", "fsync", "openin", "length"} \cup Between,
   dir : Dirs \cup {None}, name : Names \cup {None}, tries : Nat,
   fd : Inodes \cup {None}, overlaps : BOOLEAN]
Outputs == [ino : Inodes \cup {None}, wrote : Seq(Blocks), put : Nat, good : BOOLEAN]
Inputs == [ino : Inodes, len : Nat, pos : Nat]
Exceptions == {"Null", "IO", "FileNotFound", "NoSuchDirectory", "AlreadyClosed"}
Copies ==
  [listed : SUBSET Names, todo : SUBSET Names, name : Names \cup {None},
   finally : Exceptions, lost : BOOLEAN]

ASSUME NoneAssumption == None \notin Inodes \cup Outputs \cup Inputs \cup Copies

Idle ==
  [pc |-> "idle", dir |-> None, name |-> None, tries |-> 0, fd |-> None,
   overlaps |-> FALSE]      \* ghost: with another creation of the file

Init ==
  /\ setup \in Setups
  /\ dirExists \in SUBSET setup.dirs
  /\ entry = [d \in Dirs |-> [n \in Names |-> None]]
  /\ onDisk = entry
  /\ file = [i \in Inodes |-> Empty]
  /\ failures = 0
  /\ m_isOpen = [d \in Dirs |-> TRUE]
  /\ m_checked = [d \in Dirs |-> FALSE]
  /\ call = [t \in Threads |-> Idle]
  /\ out = [t \in Threads |-> None]
  /\ in = [t \in Threads |-> None]
  /\ copy = [t \in Threads |-> None]

Linked(e) == {e[d][n] : d \in Dirs, n \in Names} \ {None}

\* An inode is in use as long as a name or a stream has it.
InUse ==
  Linked(entry) \cup Linked(onDisk)
    \cup {out[t].ino : t \in {u \in Threads : out[u] # None}}
    \cup {in[t].ino : t \in {u \in Threads : in[u] # None}}
    \cup {call[t].fd : t \in Threads}

\* The system forgets what is not in use any more.
Keep(f) == LET used == InUse' IN file' = [i \in Inodes |-> IF i \in used THEN f[i] ELSE Empty]
Forget == Keep(file)

SystemFails == failures < MaxFailures /\ failures' = failures + 1
SystemWorks == UNCHANGED failures

-----------------------------------------------------------------------------
(* Calls *)

Creators(d, n) ==
  {t \in Threads : call[t].pc \in Making /\ call[t].dir = d /\ call[t].name = n}

\* copy() asks that the directory does not change meanwhile.
MayChange(t) == \A u \in Threads \ {t} : copy[u] = None

At(t, pc) == call[t].pc = pc
GoesTo(t, pc) == call' = [call EXCEPT ![t].pc = pc]

\* A call ends; in a copy(), the next step follows, or the cleanup.
Returns(t, then) ==
  /\ call' = [call EXCEPT ![t] =
       [Idle EXCEPT !.pc = IF copy[t] = None THEN "idle" ELSE then]]
  /\ UNCHANGED copy

\* A null exception is not thrown again; any other is, with its type.
throw_exception(e) == e # "Null"

Throws(t, exception) ==
  /\ call' = [call EXCEPT ![t] =
       [Idle EXCEPT !.pc = IF copy[t] = None THEN "idle" ELSE "cleanup"]]
  /\ copy' = [copy EXCEPT ![t] = IF @ = None THEN None ELSE [@ EXCEPT !.finally = exception]]

\* ensure_open(), with which every call begins.
Enter(t, pc, d, n) ==
  IF m_isOpen[d]
  THEN /\ call' = [u \in Threads |->
            IF u = t
            THEN [Idle EXCEPT !.pc = pc, !.dir = d, !.name = n,
                              !.overlaps = pc = "create" /\ Creators(d, n) # {}]
            ELSE [call[u] EXCEPT !.overlaps = @ \/ (pc = "create" /\ u \in Creators(d, n))]]
       /\ UNCHANGED copy
  ELSE Throws(t, "AlreadyClosed")

NoStream(t) == out[t] = None /\ in[t] = None

Begin(t) ==
  /\ At(t, "idle") /\ NoStream(t)
  /\ \E d \in setup.dirs, n \in setup.names :
       \/ MayChange(t) /\ Enter(t, "create", d, n)
       \/ Enter(t, "openin", d, n)
       \/ MayChange(t) /\ Enter(t, "delete", d, n)
       \/ Enter(t, "sync", d, n)
  /\ UNCHANGED <<files, objects, streams>>

-----------------------------------------------------------------------------
(* create_output(): create_dir(), the rest of init_output(), and the stream *)

\* Mutant: m_checked is set before the directory is there.
CreateDirTest_Early(t) ==
  /\ At(t, "create")
  /\ LET d == call[t].dir
     IN  /\ GoesTo(t, IF m_checked[d] \/ d \in dirExists THEN "test" ELSE "mkdir")
         /\ m_checked' = [m_checked EXCEPT ![d] = TRUE]
  /\ UNCHANGED <<files, m_isOpen, streams, copy>>

\* m_checked is read and written without a lock.
CreateDirTest(t) ==
  /\ At(t, "create")
  /\ LET d == call[t].dir
     IN  IF m_checked[d] \/ d \in dirExists
         THEN GoesTo(t, "test") /\ m_checked' = [m_checked EXCEPT ![d] = TRUE]
         ELSE GoesTo(t, "mkdir") /\ UNCHANGED m_checked
  /\ UNCHANGED <<files, m_isOpen, streams, copy>>

\* create_directory() says no also when another thread was faster.
MakeDir(t) ==
  /\ At(t, "mkdir")
  /\ LET d == call[t].dir
     IN  \/ /\ d \notin dirExists /\ SystemWorks
            /\ dirExists' = dirExists \cup {d}
            /\ m_checked' = [m_checked EXCEPT ![d] = TRUE]
            /\ GoesTo(t, "test")
            /\ UNCHANGED copy
         \/ /\ IF d \in dirExists THEN SystemWorks ELSE SystemFails
            /\ Throws(t, "IO")
            /\ UNCHANGED <<setup, onDisk, dirExists, m_checked>>
  /\ UNCHANGED <<setup, onDisk, entry, file, m_isOpen, streams>>

Target(t) == entry[call[t].dir][call[t].name]

\* Mutant: a file that exists is not removed first.
TestFile_Keeps(t) ==
  /\ At(t, "test")
  /\ GoesTo(t, "open")
  /\ UNCHANGED <<files, objects, streams, copy>>

TestFile(t) ==
  /\ At(t, "test")
  /\ GoesTo(t, IF Target(t) # None THEN "remove" ELSE "open")
  /\ UNCHANGED <<files, objects, streams, copy>>

Unlink(t) ==
  /\ Target(t) # None /\ SystemWorks
  /\ entry' = [entry EXCEPT ![call[t].dir][call[t].name] = None]

\* remove_file() says no also when there is no such file any more.
UnlinkFails(t) ==
  /\ IF Target(t) = None THEN SystemWorks ELSE SystemFails
  /\ Throws(t, "IO")
  /\ UNCHANGED <<setup, onDisk, entry, file>>

RemoveOld(t) ==
  /\ At(t, "remove")
  /\ UNCHANGED <<setup, onDisk, dirExists, objects, streams>>
  /\ \/ Unlink(t) /\ GoesTo(t, "open") /\ UNCHANGED copy /\ Forget
     \/ UnlinkFails(t)

Stream(i) == [ino |-> i, wrote |-> <<>>, put |-> 0, good |-> i # None]

Unused(d, n) ==
  Inode(d, n, CHOOSE k \in Numbers : Inode(d, n, k) \notin InUse)

\* Mutant: what was stable of a truncated file still counts.
OpenOutput_KeepsStable(t) ==
  /\ At(t, "open") /\ SystemWorks
  /\ LET i == IF Target(t) # None THEN Target(t)
              ELSE Unused(call[t].dir, call[t].name)
     IN  /\ entry' = [entry EXCEPT ![call[t].dir][call[t].name] = i]
         /\ file' = [file EXCEPT ![i].data = <<>>, ![i].shared = Target(t) # None]
         /\ out' = [out EXCEPT ![t] = Stream(i)]
  /\ Returns(t, "source")
  /\ UNCHANGED <<setup, onDisk, dirExists, objects, in>>

\* The ofstream makes a file, or truncates the one that is there.
OpenOutput(t) ==
  /\ At(t, "open") /\ SystemWorks
  /\ LET i == IF Target(t) # None THEN Target(t)
              ELSE Unused(call[t].dir, call[t].name)
     IN  /\ entry' = [entry EXCEPT ![call[t].dir][call[t].name] = i]
         /\ file' = [file EXCEPT ![i] = [Empty EXCEPT !.shared = Target(t) # None]]
         /\ out' = [out EXCEPT ![t] = Stream(i)]
  /\ Returns(t, "source")
  /\ UNCHANGED <<setup, onDisk, dirExists, objects, in>>

\* If it cannot, nobody asks: the stream is there, and writes nothing.
OpenOutputFails(t) ==
  /\ At(t, "open") /\ SystemFails
  /\ out' = [out EXCEPT ![t] = Stream(None)]
  /\ Returns(t, "source")
  /\ UNCHANGED <<setup, onDisk, dirExists, entry, file, objects, in>>

-----------------------------------------------------------------------------
(* delete_file(), and file_length(), which open_input() asks too *)

DeleteFile(t) ==
  /\ At(t, "delete")
  /\ UNCHANGED <<setup, onDisk, dirExists, objects, streams>>
  /\ \/ Unlink(t) /\ Returns(t, "idle") /\ Forget
     \/ UnlinkFails(t)

\* A file of no bytes is looked at again; what cannot be looked at has none.
Length(t) == IF Target(t) = None THEN 0 ELSE Len(file[Target(t)].data)
AsksAgain(t) == Target(t) # None /\ Length(t) = 0 /\ call[t].tries < LengthTries

-----------------------------------------------------------------------------
(* sync() *)

\* Mutant: the loop goes on until it succeeds.
TriesAgain_ForEver(t) ==
  /\ call' = [call EXCEPT ![t].pc = "sync", ![t].fd = None]
  /\ UNCHANGED copy

\* A try has failed.
TriesAgain(t) ==
  IF call[t].tries + 1 < SyncTries
  THEN /\ call' = [call EXCEPT ![t].tries = @ + 1, ![t].pc = "sync", ![t].fd = None]
       /\ UNCHANGED copy
  ELSE Throws(t, "IO")

SyncOpens(t) ==
  /\ At(t, "sync")
  /\ \/ /\ Target(t) # None /\ SystemWorks
        /\ call' = [call EXCEPT ![t].pc = "fsync", ![t].fd = Target(t)]
        /\ UNCHANGED copy
     \/ /\ IF Target(t) = None THEN SystemWorks ELSE SystemFails
        /\ TriesAgain(t)
  /\ UNCHANGED <<setup, onDisk, dirExists, entry, file, objects, streams>>

\* What sync() answers for when it returns: what the file has got by then.
Synced(t) ==
  LET len == Len(file[call[t].fd].data)
  IN  Keep([file EXCEPT ![call[t].fd].stable = len, ![call[t].fd].safe = len])

FSync(t) ==
  /\ At(t, "fsync")
  /\ UNCHANGED <<setup, onDisk, dirExists, entry, objects, streams>>
  /\ \/ SystemWorks /\ Returns(t, "idle") /\ Synced(t)
     \/ SystemFails /\ TriesAgain(t) /\ Forget

-----------------------------------------------------------------------------
(* open_input(), and the streams *)

\* The ifstream is opened, and then the length is asked for by name.
OpenInput(t) ==
  /\ At(t, "openin")
  /\ \/ /\ Target(t) # None /\ SystemWorks
        /\ in' = [in EXCEPT ![t] = [ino |-> Target(t), len |-> 0, pos |-> 0]]
        /\ GoesTo(t, "length")
        /\ UNCHANGED copy
     \/ /\ IF Target(t) = None THEN SystemWorks ELSE SystemFails
        /\ Throws(t, "FileNotFound")
        /\ UNCHANGED in
  /\ UNCHANGED <<setup, onDisk, dirExists, entry, file, objects, out>>

InputLength(t) ==
  /\ At(t, "length")
  /\ IF AsksAgain(t)
     THEN /\ call' = [call EXCEPT ![t].tries = @ + 1]
          /\ UNCHANGED <<in, copy>>
     ELSE /\ in' = [in EXCEPT ![t].len = Length(t)]
          /\ Returns(t, "copying")
  /\ UNCHANGED <<files, objects, out>>

Overwrite(d, p, bs) ==
  IF bs = <<>> THEN d ELSE
  [i \in 1..(IF p + Len(bs) > Len(d) THEN p + Len(bs) ELSE Len(d)) |->
     IF i \in (p + 1)..(p + Len(bs)) THEN bs[i - p]
     ELSE IF i \in DOMAIN d THEN d[i] ELSE Zero]

Pending(o) == SubSeq(o.wrote, o.put + 1, Len(o.wrote))

\* The stream o of t writes what it has in its buffer; if that fails, no later
\* write does anything, and nobody is told.  Then it is destroyed, if it closes.
Flush(t, o, closes) ==
  LET works == [o EXCEPT !.put = Len(o.wrote)]
      fails == [o EXCEPT !.good = FALSE]
      Next(p) == out' = [out EXCEPT ![t] = IF closes THEN None ELSE p]
      put == [file EXCEPT ![o.ino].data = Overwrite(@, o.put, Pending(o))]
  IN  \/ /\ o.good /\ SystemWorks /\ Next(works)
         /\ Keep(put)
      \/ o.good /\ Pending(o) # <<>> /\ SystemFails /\ Next(fails) /\ Forget
      \/ ~o.good /\ SystemWorks /\ Next(o) /\ Forget

\* A block fills the buffer, which is then written, or stays in it.
Append1(t, block) ==
  LET o == [out[t] EXCEPT !.wrote = Append(@, block)]
  IN  \/ Flush(t, o, FALSE)
      \/ out' = [out EXCEPT ![t] = o] /\ UNCHANGED <<file, failures>>

WriteBlock(t) ==
  /\ At(t, "idle") /\ out[t] # None /\ MayChange(t)
  /\ Len(out[t].wrote) < setup.blocks
  /\ UNCHANGED <<setup, onDisk, dirExists, entry, objects, call, in, copy>>
  /\ Append1(t, t)

CloseOutput(t) ==
  /\ At(t, "idle") /\ out[t] # None
  /\ UNCHANGED <<setup, onDisk, dirExists, entry, objects, call, in, copy>>
  /\ Flush(t, out[t], TRUE)

CloseInput(t) ==
  /\ At(t, "idle") /\ in[t] # None
  /\ in' = [in EXCEPT ![t] = None]
  /\ UNCHANGED <<setup, onDisk, dirExists, entry, failures, objects, call, out, copy>>
  /\ Forget

-----------------------------------------------------------------------------
(* Directory::copy() *)

list_all(d) == {n \in Names : entry[d][n] # None}

\* "the source directory cannot change while this method is running.  Otherwise
\* the results are undefined" (src/store/directory.h): nobody writes meanwhile.
CopyBegins(t) ==
  /\ At(t, "idle") /\ NoStream(t) /\ {Src, Dest} \subseteq setup.dirs
  /\ \A u \in Threads \ {t} :
       /\ out[u] = None /\ copy[u] = None
       /\ call[u].pc \in {"idle", "sync", "fsync", "openin", "length"}
  /\ UNCHANGED <<setup, onDisk, dirExists, entry, file, objects, streams>>
  /\ \/ m_isOpen[Src] /\ Src \in dirExists /\ SystemWorks
        /\ GoesTo(t, "next")
        /\ LET names == list_all(Src)
           IN  copy' = [copy EXCEPT ![t] =
                 [listed |-> names, todo |-> names, name |-> None,
                  finally |-> "Null", lost |-> FALSE]]
     \/ m_isOpen[Src] /\ Src \in dirExists /\ SystemFails /\ Throws(t, "IO")
     \/ m_isOpen[Src] /\ Src \notin dirExists /\ SystemWorks /\ Throws(t, "NoSuchDirectory")
     \/ ~m_isOpen[Src] /\ SystemWorks /\ Throws(t, "AlreadyClosed")

CopyCreates(t) ==
  /\ At(t, "next")
  /\ \E n \in copy[t].todo :
       LET next == [copy EXCEPT ![t].todo = @ \ {n}, ![t].name = n]
       IN  IF m_isOpen[Dest]
           THEN /\ call' = [call EXCEPT ![t] =
                    [@ EXCEPT !.pc = "create", !.dir = Dest, !.name = n]]
                /\ copy' = next
           ELSE /\ GoesTo(t, "cleanup")
                /\ copy' = [next EXCEPT ![t].finally = "AlreadyClosed"]
  /\ UNCHANGED <<files, objects, streams>>

CopyOpens(t) ==
  /\ At(t, "source")
  /\ Enter(t, "openin", Src, copy[t].name)
  /\ UNCHANGED <<files, objects, streams>>

\* A round of the loop; what cannot be read throws.
CopyBlock(t) ==
  /\ At(t, "copying")
  /\ LET s == in[t]
         data == file[s.ino].data
     IN  \/ /\ s.pos < s.len /\ s.pos < Len(data)
            /\ in' = [in EXCEPT ![t].pos = @ + 1]
            /\ UNCHANGED <<setup, onDisk, dirExists, entry, objects, call, copy>>
            /\ Append1(t, data[s.pos + 1])
         \/ /\ s.pos < s.len /\ s.pos >= Len(data)
            /\ Throws(t, "IO") /\ UNCHANGED <<files, objects, streams>>
         \/ /\ s.pos >= s.len
            /\ GoesTo(t, "cleanup") /\ UNCHANGED <<files, objects, streams, copy>>

\* Mutant: the exception does not go on.
CopyCleansUp_Swallows(t) ==
  /\ At(t, "cleanup")
  /\ in' = [in EXCEPT ![t] = None]
  /\ call' = [call EXCEPT ![t] = [Idle EXCEPT !.pc = "next"]]
  /\ UNCHANGED <<setup, onDisk, dirExists, entry, objects>>
  /\ IF out[t] = None THEN UNCHANGED <<out, failures>> /\ Forget ELSE Flush(t, out[t], TRUE)
  /\ copy' = [copy EXCEPT ![t].lost =
       @ \/ failures' # failures \/ (out[t] # None /\ ~out[t].good)]

\* Both streams are closed, and an exception goes on.
CopyCleansUp(t) ==
  /\ At(t, "cleanup")
  /\ in' = [in EXCEPT ![t] = None]
  /\ call' = [call EXCEPT ![t] =
       IF throw_exception(copy[t].finally) THEN Idle ELSE [Idle EXCEPT !.pc = "next"]]
  /\ UNCHANGED <<setup, onDisk, dirExists, entry, objects>>
  /\ IF out[t] = None THEN UNCHANGED <<out, failures>> /\ Forget ELSE Flush(t, out[t], TRUE)
  /\ copy' = [copy EXCEPT ![t] =
       IF throw_exception(copy[t].finally) THEN None
       ELSE [copy[t] EXCEPT !.lost = @ \/ failures' # failures \/ ~out[t].good]]

CopyEnds(t) ==
  /\ At(t, "next") /\ copy[t].todo = {}
  /\ call' = [call EXCEPT ![t] = Idle]
  /\ copy' = [copy EXCEPT ![t] = None]
  /\ \/ m_isOpen' = [m_isOpen EXCEPT ![Src] = FALSE]       \* closeDirSrc
     \/ UNCHANGED m_isOpen
  /\ UNCHANGED <<files, m_checked, streams>>

-----------------------------------------------------------------------------
(* The objects, and the system *)

\* close(), under the lock of the directory, which ensure_open() does not take.
Close(d) ==
  /\ m_isOpen' = [m_isOpen EXCEPT ![d] = FALSE]
  /\ UNCHANGED <<files, m_checked, call, streams, copy>>

\* A new FSDirectory on the path, when no call is in the old one.
Open(d) ==
  /\ ~m_isOpen[d]
  /\ \A t \in Threads : call[t].dir # d /\ copy[t] = None
  /\ m_isOpen' = [m_isOpen EXCEPT ![d] = TRUE]
  /\ m_checked' = [m_checked EXCEPT ![d] = FALSE]
  /\ UNCHANGED <<files, call, streams, copy>>

\* The system puts a name, and the directory it is in, to stable storage when it
\* likes to: sync() syncs the file alone.
WriteBack(d, n) ==
  /\ setup.crashes /\ d \in dirExists
  /\ onDisk' = [onDisk EXCEPT ![d][n] = entry[d][n]]
  /\ UNCHANGED <<setup, dirExists, entry, failures, objects, call, streams, copy>>
  /\ Forget

\* The machine goes down, and up again: the names are there that are on stable
\* storage, with their directories and perhaps others, and of each file at least
\* what is stable, and the program starts anew.
Crash ==
  /\ setup.crashes
  /\ m_isOpen' = [d \in Dirs |-> TRUE]
  /\ m_checked' = [d \in Dirs |-> FALSE]
  /\ call' = [t \in Threads |-> Idle]
  /\ out' = [t \in Threads |-> None]
  /\ in' = [t \in Threads |-> None]
  /\ copy' = [t \in Threads |-> None]
  /\ entry' = onDisk
  /\ dirExists' \in {D \in SUBSET dirExists :
                      \A d \in Dirs, n \in Names : onDisk[d][n] # None => d \in D}
  /\ UNCHANGED <<setup, onDisk, failures>>
  /\ \E kept \in [Linked(onDisk) -> 0..setup.blocks] :
       /\ \A i \in Linked(onDisk) : kept[i] \in file[i].stable..Len(file[i].data)
       /\ file' = [i \in Inodes |->
            IF i \notin Linked(onDisk) THEN Empty
            ELSE [data |-> SubSeq(file[i].data, 1, kept[i]),
                  stable |-> kept[i], safe |-> kept[i], shared |-> file[i].shared]]

\* The steps of calls that have begun.
Continue(t) ==
  \/ CreateDirTest(t) \/ MakeDir(t) \/ TestFile(t) \/ RemoveOld(t)
  \/ OpenOutput(t) \/ OpenOutputFails(t)
  \/ DeleteFile(t) \/ SyncOpens(t) \/ FSync(t)
  \/ OpenInput(t) \/ InputLength(t)
  \/ CopyCreates(t) \/ CopyOpens(t) \/ CopyBlock(t) \/ CopyCleansUp(t) \/ CopyEnds(t)

Next ==
  \/ \E t \in setup.threads :
       \/ Begin(t) \/ CopyBegins(t) \/ Continue(t)
       \/ WriteBlock(t) \/ CloseOutput(t) \/ CloseInput(t)
  \/ \E d \in setup.dirs : Close(d) \/ Open(d) \/ \E n \in setup.names : WriteBack(d, n)
  \/ Crash

Spec == Init /\ [][Next]_vars
FairSpec == Spec /\ \A t \in Threads : WF_vars(Continue(t))

-----------------------------------------------------------------------------
(* Properties *)

TypeOK ==
  /\ setup \in Setups /\ dirExists \subseteq Dirs /\ failures \in Nat
  /\ entry \in [Dirs -> [Names -> Inodes \cup {None}]]
  /\ onDisk \in [Dirs -> [Names -> Inodes \cup {None}]]
  /\ file \in [Inodes -> Files]
  /\ \A i \in Inodes : file[i].stable <= Len(file[i].data)
  /\ m_isOpen \in [Dirs -> BOOLEAN] /\ m_checked \in [Dirs -> BOOLEAN]
  /\ call \in [Threads -> Calls]
  /\ out \in [Threads -> Outputs \cup {None}] /\ in \in [Threads -> Inputs \cup {None}]
  /\ copy \in [Threads -> Copies \cup {None}]
  /\ \A t \in Threads :
       /\ call[t].tries \in 0..(IF SyncTries > LengthTries THEN SyncTries ELSE LengthTries)
       /\ out[t] # None => out[t].put <= Len(out[t].wrote)

\* No thread goes on to the file before the directory is there, although
\* create_dir() reads and sets m_checked without a lock.
CheckedDirIsThere ==
  \A t \in Threads :
    call[t].pc \in {"test", "remove", "open"} => call[t].dir \in dirExists

\* "Files may be written once, when they are created" (src/store/directory.h):
\* no step takes a byte of a file from a stream that is on it, because
\* init_output() unlinks the file it replaces.  That ends where two creations of
\* a file overlap: the second truncates what the first has written, and both
\* streams write to one file.
KeepsItsBytes(i) ==
  \/ IsPrefix(file[i].data, file'[i].data)
  \/ file[i].shared
  \/ \E t \in Threads : At(t, "open") /\ call[t].overlaps /\ out'[t] # out[t]
HasInode(s) == IF s = None THEN FALSE ELSE s.ino # None
FilesAreWrittenOnce ==
  [][\A t \in Threads :
       /\ HasInode(out[t]) /\ HasInode(out'[t]) => KeepsItsBytes(out[t].ino)
       /\ HasInode(in[t]) /\ HasInode(in'[t]) => KeepsItsBytes(in[t].ino)]_vars

\* "Ensure that any writes to this file are moved to stable storage", "to prevent
\* a machine/OS crash from corrupting the index" (src/store/directory.h:55): once
\* sync() has returned, a crash leaves the file with what it had then.
SyncedSurvivesCrash ==
  [][Crash => \A d \in Dirs, n \in Names :
       entry[d][n] # None /\ file[entry[d][n]].safe > 0 =>
         /\ entry'[d][n] = entry[d][n]
         /\ Len(file'[entry[d][n]].data) >= file[entry[d][n]].safe]_vars

\* As far as copy() has come without an exception, the files of the destination
\* are those of the source, unless a write was lost, which close() hides.
CopyIsWhole ==
  \A t \in Threads :
    At(t, "next") /\ copy[t] # None /\ ~copy[t].lost =>
      \A n \in copy[t].listed \ copy[t].todo :
        /\ entry[Dest][n] # None
        /\ file[entry[Dest][n]].data = file[entry[Src][n]].data

\* Every call ends: the tries of sync() and of file_length() are bounded, and so
\* are the rounds of copy().
CallsEnd ==
  \A t \in Threads : ~At(t, "idle") ~> At(t, "idle")
=============================================================================
