# A TLA+ verification of lucene-cpp

lucene-cpp is the beginning of a C++ port of Lucene: a small index server with
two background threads (`src/server`), the file abstraction under an index, with
its streams and locks (`src/store`), and the monitors, threads and containers
that both are built on (`src/util`).  There is no indexing code yet.  What there
is to get wrong is concurrency (threads that are stopped but not joined,
monitors, locks between processes), files (crashes, buffers, positions) and the
order in which locks are taken.

This directory holds TLA+ modules translated from that code, configurations that
check them with TLC on small instances, and theorems that TLAPS proves for every
value of the constants.  `PROJECT.json` has the index: which definition models
which lines, which run checks which property, and the hazards that the properties
are aimed at.

    tlc -config MCConcurrency.cfg MCConcurrency.tla      # a run, from the table below
    tlapm IndexServer_proofs.tla                 # a proof module

## 1. Inventory

| Component (source) | State | Operations | What makes it correct |
|---|---|---|---|
| LuceneThread (`util/lucene_thread.cpp`; `stop()` in `server/merge_thread.cpp`, `update_thread.cpp`) | `m_thread`, `m_running`, the std::thread | `start`, `is_alive`, `stop`, `join`, `run_thread` | `stop()` overlooks no running body and takes effect; a restart puts no second body beside a first |
| SegmentManager (`server/segment_manager.cpp`) | `_segments`, `_seg_num_max`, `_msg_id_hitherto` | `init_from_file`, `save_to_file`, `next_segment_name`, `add_segment`, `on_merge_done`, `segments()` | names unique; documents neither lost nor doubled; what is saved is whole |
| MergeThread, UpdateThread (`server/`) | `s1`, `s2`, `snew`; the last message | `run`, `has_next`, `next` | the merge finds its inputs; merging comes below the threshold; at most one message in flight |
| main (`server/main.cpp`) | - | write, load, start, sleep, stop, save | comes to its end; a crash leaves an image, but for what is lost unnoticed |
| Synchronize, SyncLock, LuceneSignal (`util/synchronize.cpp`, `lucene_signal.cpp`, `lucene_sync.cpp`) | a recursive mutex with a second book of owner and depth; a condition variable with a mutex of its own | `lock`, `unlock`, `unlock_all`, `holds_lock`, `wait`, `notify_all` | the two books agree; scopes that have locked exclude each other, after a timeout too; `wait()` gives all of the lock up and gets all back; no deadlock between the two mutexes |
| Lock (`store/lock.cpp`) and its factories (`store/*_lock_factory.cpp`) | a lock file; a shared set of names; a set of held paths, created on first use, and a record lock of the system | `obtain`, `obtain(timeout)`, `release`, `is_locked`, `clear_lock` | one holder at a time; waits end; a crash leaves nothing that cannot be cleared |
| RAMDirectory, RAMFile (`store/ram_directory.cpp`, `ram_file.cpp`) | the map of files, two counters of one size, two kinds of lock | `create_output`, `delete_file`, `file_length`, `size_in_bytes`, `close`, `add_buffer` | the counters agree; the locks are taken in order; calls return |
| RAM streams (`store/ram_output_stream.cpp`, `ram_input_stream.cpp`) | buffers, positions in them, the length | write, read, seek, flush, reset, close, clone | the streams see one flat file |
| Buffered streams of SimpleFSDirectory (`store/buffered_index_*.cpp`, `simple_fs_directory.cpp`) | a buffer in front of a file that has a position of its own | the same, and `set_buffer_size` | the same; the two positions agree |
| Streams of MMapDirectory (`store/mmap_directory.cpp`) | a mapping, shared by clones, and a position | read, seek, clone, close | they see the flat file inside of the mapping |
| FSDirectory, SimpleFSDirectory, Directory (`store/fs_directory.cpp`, `simple_fs_directory.cpp`, `directory.cpp`), FileUtils (`util/file_utils.cpp`) | `m_isOpen`, `m_checked`; files and directories in the system | `create_output`, `open_input`, `delete_file`, `sync`, `list_all`, `copy`, `close` | a file is written once; a copy that returns is whole; calls end; what `sync()` answered for should survive a crash |
| Lock factories and `set_lock_factory()` (`store/*lock_factory.cpp`, `directory.cpp`) | lock directory and prefix of each factory, the factory of each directory | the constructors, `set_lock_factory`, `make_lock` | directories on one index lock each other out, others never meet |
| IndexOutput, IndexInput (`store/index_output.cpp`, `index_input.cpp`) | - | `write_int` to `write_string_string_map`, `copy_bytes`, and the readers | what is read is what was written |
| containers, exceptions, MiscUtils, factory, readers, md5 | see `PROJECT.json` | | partly in the modules above, see section 7 |

How they meet: `main()` owns the two threads and the manager.  The threads call the
manager, whose list and counter have a mutex each; `main()` calls `stop()` on the
threads and then `save_to_file()` while they may still be in an iteration.
Everything in `store` that is shared is a LuceneObject, so that a `SyncLock` on it
uses the Synchronize of that object.  A RAMFile calls back into its directory from
`add_buffer()`, through a weak pointer.  Clones of an input stream share one
InputFile.  Locks meet in the file system or in a container that copies of a
HashSet share.

The hard behaviours, each listed with its line under "hazards" in `PROJECT.json`:
interleavings of bodies and controllers across a restart; the merge that works on
a copy of the list; the save beside running threads; crashes between the steps
of the save; wait and notify with two mutexes; a lock timeout that is overlooked, and books that are then written without the mutex;
test-then-create on the file system; record locks that closing any descriptor
drops; objects that the first caller creates; two counters under two locks; boundaries of buffers; shared positions; calls
of the file system that other threads come between; a crash after `sync()`; the
cleanup of a copy that failed; signs and widths of numbers.

## 2. The modules

| Module | What it is | Uses |
|---|---|---|
| `LuceneThread` | thread objects: a controller each, and a body | - |
| `SegmentManager` | the list, its counter, the merge and the indexers | `LiveIndex` by refinement |
| `IndexServer` | the whole server: main, both threads, message id, files | EXTENDS `SegmentManager`, INSTANCE `LuceneThread` |
| `LiveIndex` | abstract: disjoint sets of documents, added and merged | - |
| `Monitor` | Synchronize, SyncLock, LuceneSignal | - |
| `SimpleFSLock` | the lock file, and the polling `Lock::obtain(timeout)` | `ExclusiveLock` by refinement |
| `SingleInstanceLock` | the shared HashSet and its Synchronize | `ExclusiveLock` by refinement |
| `NativeFSLock` | held paths and record locks, in one process or more | - |
| `ExclusiveLock` | abstract: one holder, or a stale lock | - |
| `RAMDirectory` | the map, the sizes, the locks of directory and files | - |
| `RAMStream` | streams on the buffers of one RAMFile | `FlatFile` by refinement |
| `FSStream` | buffered streams on one file | `FlatFile` by refinement |
| `MMapStream` | input streams on a mapping of that file | EXTENDS `FSStream` |
| `Streams` | the streams of the three directories, in memory or in the file system | EXTENDS `MMapStream`, INSTANCE `RAMStream` |
| `FlatFile` | abstract: a file written by one stream, then read by many | - |
| `FSDirectory` | directories in the file system, their streams as blocks, `copy()`, failures and crashes | - |
| `LockScope` | which lock a directory's factory makes | - |
| `Codec` | numbers, strings and maps as bytes, and back | - |
| `*_proofs` | theorems: `Concurrency_proofs` about `LuceneThread` and `Monitor`, `IndexServer_proofs` also about `SegmentManager`, `FSDirectory_proofs` also about `LockScope`, `RAMDirectory_proofs` also about `SingleInstanceLock`, `Streams_proofs` also about all that `Streams` uses, the others about the module of their name | EXTENDS the modules and TLAPS |
| `MC...` | constants for TLC.  `MCConcurrency` has `LuceneThread` beside `Monitor`, `MCRAMDirectory` `SingleInstanceLock` beside `RAMDirectory`, whose locks it makes, `MCStreams` `Codec` beside `Streams`, `MCFSDirectory` `LockScope` beside `FSDirectory`: they share no state, and a behaviour is of one of the two (`part`).  In `MCNativeFSLock` a behaviour has two of three lock objects (`used`) | EXTENDS the modules |

### Correspondence

Actions have the names of the functions, or of the step inside of a function that
they are.  A call that holds one lock from start to end is one action.  A call
that another thread can interrupt where it matters is a sequence of actions with
a program counter, cut at every access to state that others share: `start()` is
`Start`, `Spawn`, `StartDone`; `wait()` is `WaitUnlocks`, `Park`, `TimesOut`,
`WaitAgain`, `LeaveLoop`, `Relock`, `WaitReturns`; `obtain()` of a lock file is `TestDir`,
`MakeDir`, `TestFile`, `Open`.  Calls that throw have an action of their own
where they leave something changed (`LoadFails`, `SpawnFails`, `RemoveFails`,
`ReadPastEnd`, `ReadShort`), and so has a crash of a client (`Crash`).

*LuceneThread.*  `running` is `m_running`, `handle` what `m_thread` points to
(destroying a joinable std::thread ends the process: "terminated"), `body` where
`run_thread()` is, `ctl` where the one thread that controls the object is in
`start()`, `stop()` and `join()`.  `Join` waits only if `is_alive()`, which
`stop()` has made false just before: this is why `stop()` does not wait.  The module's
specification is `ThreadSpec`, its types `ThreadTypeOK`.

*SegmentManager.*  A name is a number; the vector is a set, because nothing
depends on its order.  Each segment has a ghost field with the names of the
segments whose documents it has; that is what `LiveIndex` is about.  `segments()`
and the sort in `run()` are `MergeSnapshot`, `next_segment_name()` is `MergeName`
or `TakeName`, `on_merge_done()` is `MergeDone`.  `add_segment()` is declared for
indexers and not called in the repository; `TakeName`/`AddSegment` are that
client.

*IndexServer.*  `pc` is where `main()` is.  `meta` and `tmp` are the two files:
absent, torn, or whole with an image.  A crash needs no action of its own: it
leaves the files as they are in the state it hits, and the invariants say what
these must be in every state.  Both files are written through a SimpleFSIndexOutput:
`OpenOutput` and `CloseOutput` may each fail, and then leave the file absent or
short and the save going on, as nobody asks (`lost`).  `processed` is a ghost: the last message whose
processing is over.

*Monitor.*  `owner` and `depth` are the mutex, `lockThread` and `recursionCount`
the books beside it.  These are plain integers, which the destructor of a SyncLock
whose `lock()` has timed out reads and writes without the mutex; so each load and
each store is a step.  `lock()` is `Lock`, `NoteThread`, `FetchCount`, `AddOne`;
`unlock()` is `Unlock` (or `UnlockNothing`), `FetchCount`, `SubtractOne`, `TestResult`,
`UnlockMutex`, where the result that is tested may be that of the register or be loaded
again, as the build likes.  `wait()` goes through them once for each level.
`locked` and `lapsed` count the scopes of a thread whose `lock()` has succeeded and
has timed out.  To unlock a mutex of another thread is left without effect, as the
system answers EPERM.  Condition variables may wake spuriously.

*SimpleFSLock.*  Files are existence only.  `Begin`, `Poll`, `WakeUp` are
`Lock::obtain(timeout)` around the `obtain()`.  *SingleInstanceLock:* one lock name;
`syncOf` says which Synchronize a lock uses, because a copy of a HashSet made
before its Synchronize exists gets one of its own.  A `clear_lock()` is what creates
the factory's.  `Obtain`, `IsLocked` and `Release` enter the container, in which a
client then is until it leaves.  *NativeFSLock:* files are
inodes, because `release()` unlinks the path; `Dropped` is the rule of POSIX that
closing any descriptor drops the process's record lock.  The set of held paths and
its Synchronize do not exist at first: `FindsNoGuard`, `MakeGuard`, `FindsNoSet`,
`MakeSet` are the test and the creation in `LOCK_FOR_HELD_LOCKS()` and
`HELD_LOCKS()`, between which others come; `sync`, `set` and `guard` say which one is
there and which one a thread is in.  The lock directory may be missing, or be a file;
`unlock()` may throw (`UnlockFails`).

*RAMDirectory.*  Sizes are counted in buffers.  A call waits for the directory's
lock ("want"), has it ("in"), or, for `add_buffer()`, has the file's ("grow") and
then pins the directory ("pin").  Where the code takes the file's lock inside of
the directory's for one step, the guard is that it is free.  `close()` takes no
lock; a call that has passed the test then follows a null pointer ("crash").

*RAMStream, FSStream, MMapStream.*  One round of the copying loop is one action; bytes are
model values; a byte of a new buffer is `Junk`.  `got` is what a read returned.
In FSStream, `putAt` and `getAt` are the positions of the file, next to those
that the buffers compute; `getState` is the state of the ifstream: good, closed,
at its end, or failed.  A stream that is closed throws or reads nothing, and a
read that loops for ever (`ReadHangs`) leaves it `done`.  In MMapStream a stream has the
mapping of the reader in its field `file`; only reads that the mapping defines
are made.  *Streams* puts RAMStream beside them: a behaviour is about a file in
memory or about one in the file system, as its setup says.

*FSDirectory.*  A step is one call of the system.  A name has an inode, so that a
stream stays on a file that was unlinked; an inode has blocks, the number of them
that are on stable storage, and the ghost `safe`, for how many `sync()` has
answered.  `create_output()` is `CreateDirTest`, `MakeDir`, `TestFile`, `RemoveOld`,
`OpenOutput`; `sync()` is `SyncOpens` and `FSync` in each try, `copy()` the steps
from `CopyBegins` to `CopyEnds`, `CopyCleansUp` being its catch and finally.  The
buffers of the streams are left to FSStream: a block is written at once or with
a later one (`Flush`).  Any call of the system may fail.  `entry` is what the
directories have, `onDisk` what of it is on stable storage: POSIX lets the system
write a name back when it likes to (`WriteBack`), and `fsync()` of a file is not
one of its directory.  `Crash` leaves the names that are on stable storage, keeps
of each file at least what is stable and starts the program anew.

*LockScope.*  `OpenFS` and `OpenRAM` are the constructors, from `set_lock_factory()` to
the prefix that FSDirectory sets afterwards.  What a factory makes of a name is
`FileLock`, `NameLock` or `SingletonLock`; whoever has it is in `writer`.  The locks
themselves are in the other modules.

*Codec.*  The methods are functions from a number to its bytes, with the width of a
byte and of an int as constants, so that the run can be about ends of groups and
signs with small numbers.  A loop over groups or entries is a recursive function;
the order of a map's entries is that of the container, so it may be any; `|` is
the constant `BitOr`, of which the run has a definition with the bits and the proofs
an assumption.  `Write`, `copy_bytes` and `Read` put them in sequence: a
reader must stop where the next value starts.  `write_vlong()` has a step for each
round of its loop, which is what does not end.

### Ghosts that bound a property

Some of the code keeps its promise only until something happens that it allows.
Such a property is stated as "until then", with a ghost variable, set by the
step that does it, and the run lets it happen:

| Ghost | Set when | What is then no longer promised |
|---|---|---|
| `expired` (Monitor) | a `lock()` with a timeout has given up; SyncLock drops the result | that the books are exact (`LockedScopesExclude` still holds) |
| `overlapped` (SimpleFSLock) | two clients are between the test for the file and its creation | that the lock has one holder |
| `raced` (SingleInstanceLock) | two clients are in the container at the same moment, under two Synchronizes | that the lock has one holder |
| `raced` (NativeFSLock) | two first calls of a process overlap in the creation of the set or of its Synchronize | that one thread of it reserves the path |
| `unlockFailed` (NativeFSLock) | `unlock()` throws, and `release()` goes on | the same |
| `lost` (IndexServer) | the open or a write of a file failed; nothing asks | that this file is whole |
| `copyFailed` (IndexServer) | `copy_file()` has returned false; the temporary file is removed all the same | that there is an image at the end |
| `disturbed` (RAMDirectory) | a file is deleted or created again while a stream writes it or another call is about to | that the directory's counter is exact |
| `lost` (FSDirectory) | a write of a copy failed, or its file could not be created; nothing asks | that the copied file is whole |
| `shared`, `overlaps` (FSDirectory) | two creations of a file overlap, so that both streams are on one file | that no byte of the file is taken back |
| `astray` (LockScope) | a factory is used by two directories, which `directory.h` forbids, or replaced while the directory is in use | that the lock is scoped to the index |
| `astray` (RAMStream) | an input stream opens a file with a whole buffer behind its length, or seeks past its last buffer | that it reads the flat file |

In FSStream the same is done with the setup that a behaviour has, because the
faults multiply the states: in one setup writes fail, clones share an InputFile
and buffers are made too small for what is in them.  `FlatSpec` and
`PositionAsserted` are about the setups without these faults, the others about all.

What comes after a ghost is set is in the models and not in these properties.  Where
a comment of the code promises more, a run shows it violated (section 4); for the
rest, the note of the hazard in `PROJECT.json` says what the property leaves open.

## 3. The runs

| Run | Instance | What it shows |
|---|---|---|
| `concurrency` | two thread objects, any number of restarts; or three threads at a monitor, one with nested scopes, none of which times out; or two, one of which may | Threads: in the window between `start()` and the first test of the flag, and through exceptions and restarts, a body in its loop is alive for `stop()` (`StartedBodyIsAlive`), a restart makes no second body that shares the flag with a first (`RestartIsAlone`), and after `stop()`, which does not wait, the body begins no iteration (`NoNewIteration`) and ends (`StopEnds`). Monitor: the books are exact until a timeout (`HoldsLockExact`), a scope whose `lock()` has succeeded has the mutex, after a timeout and a `wait()` too, whatever the books say (`LockedScopesExclude`), `wait()` gives all of it up (`WaitGivesUpTheLock`), and who is woken returns (`WokenReturns`) |
| `concurrency_timeout` | two threads with two nested scopes each, one timeout | **violated**: `holds_lock()` is true without the lock (section 4) |
| `index_server` | three stored names with a gap, names up to 5, three message ids | `NamesUnique`, `MergeInputsPresent`, and the refinement `LiveSpec`, also after a load that failed half-way. `SavedImageCovers`: the image is whole although threads run beside the save. `CrashFindsAnImage`: one of the two files is whole at every moment after the load, to the end, but for the three exceptions it names. `OnlyInFlightUnprocessed`: the message id is at most one message ahead. `MainFinishes`, `MergeConverges` |
| `simple_fs_lock` | three clients, timeouts 0, 1500 ms and for ever | refinement of `ExclusiveLock` until an overlap; `LimitedWaitEnds`; `FreeLockIsObtained` |
| `native_fs_lock` | two lock objects of one process and two inodes, or of two processes and three inodes; nothing has been created at first | `HeldLocksExact` until two first calls overlap or an `unlock()` throws; `CallsReturn` if locks are released, also where `file_lock::lock()` blocks |
| `native_fs_lock_mutex` | two processes | **violated**: two processes have the lock (section 4) |
| `ram_directory` | two threads, two names, two files, a buffer each; or three clients of a lock | `SizeExact` until disturbed; `LockSequence`; `CallsReturn` unless one crashed. `ExclusiveSpec`: refinement of `ExclusiveLock`, whichever Synchronizes the locks use, until two clients are in the container at once |
| `ram_directory_lock` | three clients of a lock | **violated**: two clients have the lock (section 4) |
| `streams` | two byte values, output buffer 2, input buffers 1 to 3, positions up to 5; with faults one byte value, positions up to 2, two readers; on a mapping two readers, positions up to 3; in memory buffers of 2, positions up to 4, two readers; or the codec with a byte of 4 bits, an int of 2 bytes, numbers around every end of a group, a byte and a half, and three values in a row | `FlatSpec`, `RAMFlatSpec`: every kind of stream implements `FlatFile`, in memory until astray. `PositionAsserted`: the assertion in `read_internal()` holds. `GoodIsInStep`: positions agree while the stream is good. `AnswersInFull`: no read is silently short. `ReadsBack`: what is read is what was written, across `copy_bytes()` |
| `codec_vlong` | the codec, two values | **violated**: `write_vlong()` does not end (section 4) |
| `fs_directory` | two threads and a file; a thread that copies two files of one block, or one of two blocks; a thread on a machine that goes down; one failure; four directory objects on two paths and in memory, six factories | `CheckedDirIsThere`: no thread goes on without the directory. `FilesAreWrittenOnce`: a stream's file loses no byte. `CopyIsWhole` (section 2's ghosts bound both), `CallsEnd`. `ScopeExact`: directories on one path lock each other out, others never |
| `fs_directory_sync` | a thread, a file, crashes | **violated**: a synced file is gone after a crash (section 4) |

**Why the bounds are enough.**  Threads interact in pairs here, except where a third
one changes what two compete for: a third client of a lock file, a third thread
that notifies.  Those runs have three; the others two.  What a third thread adds to
the monitor is a notification, which needs no timeout; what a timeout adds is a race
of two for the books.  So three threads have none and two have one, and these two are
not in `wait()` at once, when nobody could wake them; a second timeout would
only repeat the race.  Scopes and levels of 2
make `unlock_all()` differ from `unlock()`, and let a thread be inside of a scope that
locked and of one that did not.  The names 1, 2, 4 have a gap, so
that the counter cannot be the number of segments, and with those of the indexers
there is room for merges that follow each other.  A length of 5 in buffers of 2
gives files of no, one, two whole buffers, and one with a rest, and every write
or read that is shorter than, equal to and longer than a buffer.  Timeouts of
0, 1500 and -1 are the case without a poll, one that rounding down matters for,
and the unlimited one.  In one process a second lock object is refused while the
first has the path reserved, so that two inodes are what the path and a stream can name; with two
processes it is three.  After a race or a failed `unlock()` a thread may have to wait for an inode to
be free, which a real system has.
A file of `IntMax` = 2 whole buffers is too large for an input stream in memory, which then throws
as the code does for 2^31 - 1 of them; a shorter one still ends in the middle, at the end or behind the
end of its first buffer.  In FSDirectory, a file of two blocks is one that a crash or a
failure can cut in the middle, two names are a copy that fails after a file that
it has done, two tries of `sync()` are a first and a last one, and one failure is
enough, as no code path waits for a second.  A group of three bits, three of them in
an int of eight bits and six in a long of sixteen, leaves a last group that is
not whole, as groups of seven do in 32 and 64 bits.  `MaxIndexed`, `MaxScopes`, `MaxDepth`, `MaxBuffers`, `MaxLength`, `RAMLength`,
`MaxFailures`, `MaxValues`, `MaxTimeouts` are bounds of the model; the code has no such
limits.  `IntMax` stands for the code's 2^31 - 1.

**Fairness, and why the code justifies it.**  A thread inside of a call is
scheduled (weak fairness on the steps of a call that has begun, and on thread
bodies).  A mutex or a record lock that is free again and again is got (strong
fairness on the step that takes it): std mutexes and the system's locks do not
promise it but do not starve either in practice, and without it no lock makes
any promise.  Nothing is assumed of what clients choose to do: no call is ever
fair to begin, except in `Fair` of NativeFSLock, where lock holders
release in the end and `unlock()` does not throw every time.  `main()` is not fair in IndexServer, as the length of
`sleep(30)` next to the steps of the threads is open; `MainFinishes` has its
fairness as a hypothesis.  In FSDirectory only a thread that is inside
of a call is fair, and `MaxFailures` is no part of why calls end: the tries are
counted.  In SimpleFSLock, opening the file does not fail for ever.

Deadlock is checked in the runs of SimpleFSLock, of NativeFSLock and in
`ram_directory_lock`, where nothing ends the system.  It is off where the server
exits (`index_server`), where the process may be terminated, or two threads may wait for each other
after a timeout (`concurrency`, `concurrency_timeout`), where a process may crash
(`ram_directory`), where streams are closed, a read of one does not return or all values are read
(`streams`, `codec_vlong`), and where there may be nothing left to lock or to do
(`fs_directory`, `fs_directory_sync`).

## 4. What the code does otherwise than it says

*Found by a run.*  `NativeFSLock::obtain()` opens an ofstream to create the lock
file and closes it after it has the record lock; closing any descriptor drops
the process's record locks on a file, and another process gets the lock
(`native_fs_lock_mutex`), against "An interprocess mutex lock" (`lock.h:8`).

`write_vlong()` ors the shifted value into `i` where it should assign it: no bit
of `i` goes away, and for 128 and more its loop writes bytes for ever
(`codec_vlong`), against "Writes between one and five bytes" (`index_output.h:61`).

A SyncLock drops the false of a `lock()` that has timed out, and its destructor runs
`unlock()` all the same.  That tests `m_recursionCount` and takes one off without the
mutex, beside the owner's own `++` and `--`; a stale count that it stores last keeps
`holds_lock()` true in a thread that has left (`concurrency_timeout`), against "Returns
true if mutex is currently locked by current thread" (`synchronize.h:33`).  The mutex
itself stays with its owner: `LockedScopesExclude` holds.

A SingleInstanceLock has a copy of the factory's HashSet, and a SyncLock on a copy that was made before
`clear_lock()` created the factory's Synchronize, which is the ordinary case, creates
one of its own.  Two `obtain()` are then in the one container at a time, and both
insert (`ram_directory_lock`), against "@return true if exclusive is obtained"
(`single_instance_lock_factory.h:50`).

`sync()` syncs a descriptor of the file and none of its directory.  After a crash of the
machine the name may be gone, and all that was synced with it (`fs_directory_sync`),
against "to prevent a machine/OS crash from corrupting the index" (`directory.h:55-57`).

*Visible in the models,* as the behaviour behind a ghost or a switch: `join()`
after `stop()` never waits, because `stop()` clears the flag that `is_alive()`
reads; a second `start()` after it ends the process; two clients can both create the lock
file; `LOCK_FOR_HELD_LOCKS` and `HELD_LOCKS` are created by the first caller without a lock,
so that two first `obtain()` of a process can both reserve the path; an `unlock()` that
throws leaves `m_lock` set while `release()` frees the path; the outputs of `save_to_file()` drop a
failed open or write, so that an absent or short temporary file is copied over a
good `segments.meta`; `RAMDirectory::close()` takes no lock; `delete_file()` leaves
a deleted file attached, so that its writer changes the directory's size;
buffers behind the length of a RAMFile are read; a seek to the end of the last
buffer rereads it; clones share the position of an InputFile; `set_buffer_size()`
skips bytes; after a read that came short, each seek of the InputFile throws, and
the read after it loops for ever; a failed write is not reported; a message id is stored before the
message is processed; a `copy_file()` that fails half-way is followed by the
removal of the only whole image; `notify_all()` takes no lock and can be lost;
an OutputFile does not ask whether it could be opened, so that a stream may write
nothing and `copy()` return without an exception, as its cleanup hides what
`close()` throws; an InputFile takes its length by name after it was opened, which
may be that of another file; of two threads in `create_dir()`, the slower one gets
an IOException although the directory is there; two overlapping `create_output()`
of a name share one file; `sync()` covers what streams have flushed by then; a
`set_lock_factory()` of an open directory sets a prefix that the constructor would
take away, so that one index can have two lock files; a clone of a mapped stream
reads through a null pointer after its original is closed.

*In the source only:* the comparator of `std::sort` in `merge_thread.cpp:27-29` is `<=`, which is
not a strict weak order when two names are equal.  `NamesUnique` says that they never are.

## 5. What is proved

TLAPS proves, for every value of the constants:

| Module | Theorem | Says |
|---|---|---|
| `Concurrency_proofs` | `ThreadTypeCorrect`, `StopSeesTheBody`, `RestartsAlone`, `StopIsEffective` | `ThreadTypeOK`, `StartedBodyIsAlive`, `RestartIsAlone`, `NoNewIteration` for any set of threads |
| | `HoldsLockIsExact`, `WaitReleases`, `LockedScopesAreExclusive` | `HoldsLockExact`, `WaitGivesUpTheLock`, `LockedScopesExclude` of the monitor for any threads, any depth of scopes and any timeouts |
| `IndexServer_proofs` | `SegmentListTyped`, `SegmentNamesUnique`, `MergeFindsItsInputs`, `ImplementsLiveIndex` | `TypeOK`, `NamesUnique`, `MergeInputsPresent`, and `Spec => LiveSpec` of the list for any stored names and any number of indexers |
| | `ServerTyped`, `SavesAreCovering`, `CrashIsSafe`, `OneMessageInFlight`, `ServerImplementsLiveIndex` | `ServerTypeOK`, `SavedImageCovers`, `CrashFindsAnImage`, `OnlyInFlightUnprocessed`, and `ServerSpec => LiveSpec` for any stored names, messages and number of indexers |
| `RAMDirectory_proofs` | `TypeCorrect`, `LocksInSequence`, `SizeIsExact` | `TypeOK`, `LockSequence`, `SizeExact` for any threads, names and files |
| | `ImplementsExclusiveLock` | `LockSpec => ExclusiveSpec` of SingleInstanceLock for any clients, whichever Synchronizes their locks use |
| `FSDirectory_proofs` | `TypeCorrect`, `CheckedIsSound`, `WrittenOnce`, `CopiesAreTheSource` | `TypeOK`, `CheckedDirIsThere`, `FilesAreWrittenOnce`, `CopyIsWhole` for any finite set of threads, any directories and names, any blocks and any number of failures |
| | `ScopeIsExact` | `ScopeExact` for any directories, factories and paths |
| `Streams_proofs` | `TypeCorrect`, `StaysInStep`, `AnswersAreFull`, `PositionIsAsserted`, `StreamsAreFlat` | `TypeOK`, `GoodIsInStep`, `AnswersInFull`, `PositionAsserted`, and `StreamSpec => FlatSpec` for the buffered and the mapped streams, with any bytes, readers, buffer sizes and positions |
| | `StreamsTypeCorrect`, `StreamsHold`, `RAMStreamsAreFlat` | `StreamsTypeOK` of all the streams, the properties above under `StreamsSpec`, and `StreamsSpec => RAMFlatSpec` for those of RAMDirectory, with any bytes, readers, length and size of a buffer |
| `SimpleFSLock_proofs` | `ImplementsExclusiveLock` | `Spec => ExclusiveSpec` for any clients and timeouts |
| `NativeFSLock_proofs` | `HeldLocksAreExact` | `HeldLocksExact` for any lock objects, processes and inodes, from the first call on |
| `Codec_proofs` | `CodecInvariant`, `ValuesReadBack`, `VlongsAreShort` | `ReadsBack` for any widths of a byte and an int, any numbers, strings and finite maps that fit them, any size of the buffer of `copy_bytes()` and any order of writes, copies and reads; and that no `write_vlong()` of more than one group returns |

The only assumptions are the ones in the modules.  They say that bounds, sizes and
stored names are numbers and that a buffer has room for a byte; that what stands
for "nothing" or for an exception is none of the things it stands beside (`None`,
`Null`, `EOF`, `NoThread`, `Stale`, `Nobody`, `Factory`); that each lock object is in a process;
that source and destination of a copy are two directories; that there are
finitely many threads, so that a new inode can be found among finitely many;
what the setups of a behaviour are made of; that a number that is written fits its
type, as do the length of a string and the size of a map, which is finite; and of
`|` only that `n | (n >> 7)` is not below `n` and not beyond 64 bits.

*The thread.*  `IInv` adds to the properties where the controller is: from `Spawn`
to the end of `stop()` or `join()`, `m_thread` is a joinable std::thread, unless the process has ended
(`HandleInEffect`); the flag is down where the controller has just cleared it (`FlagDown`); and
outside of the calls it is down under every body that is still in its loop
(`IdleBodyIsStopped`).  The last one is the reason why `stop()` works without
waiting: it can return only through `StopClear`, or past a thread that
`StartedBodyIsAlive` says has left its loop.  `StopIsEffective` follows in one
step: a body that tests the flag while its controller is idle finds it down.
`NothingRuns` says that a thread object without a std::thread has no body, and one whose std::thread
was joined a dead one.  So `Spawn`, which ends the process if it would replace a joinable
std::thread, makes no body beside another: `RestartsAlone`.

*The list.*  `SMInv` adds that names, documents and taken names are all at most the
counter (`NamesBounded`: a new name is new), that the segments' documents are
disjoint from each other and from what indexers hold (`FromDisjoint`), that a
merge has two different inputs (`MergeShape`), and that nothing happens before
the load.  `MergeInputsPresent` is inductive because only `MergeDone` takes names
off the list and there is one merge at a time; with two merge threads it would
fail.  The lemma `MergePair` says that `on_merge_done()` then replaces exactly
two segments by one with the documents of both.  For the refinement, each step
is shown to be a `Load`, `Add` or `Merge` of `LiveIndex`, or to leave the sets of
documents as they are; non-empty sets are what keeps two segments from
having the same one.

*The server.*  `ServerInv` is `SMInv`, the types of the threads, and what is where at
each place of `main()` (`FilesInPlace`, `ListInPlace`, `ThreadsInPlace`).  `ListStep` says
that every step of the server is one of the list or leaves it, for which the load
must read the image that `main()` wrote; so `SMInv` and the refinement of `LiveIndex` come from
SegmentManager's lemmas.  `SavedImageCovers` needs three things: a list that
`SMInv` holds of is disjoint (`ListCovers`); a save goes on only if the load was in full,
and then the list has the stored documents; and no later step takes one out
(`DocumentsStay`).  `CrashFindsAnImage` follows from `FilesInPlace`: `segments.meta` is whole up
to the copy, unless bytes of it were lost, and the temporary file from its close to the end
of the copy, unless bytes of that were; the removal takes the only whole image just when
the copy has failed.  For
`OnlyInFlightUnprocessed`, `ThreadsInPlace` says that a body is started once, so that
`start()` never replaces one that has a message in flight.

*The directory in memory.*  `RInv` says that a thread inside of the directory's lock
has it, and that the lock of a file is held by a thread that is in `add_buffer()` of
that file (`FileLockHeld`).  `LockSequence` is a consequence: a thread that waits for
the directory's lock is at another place.  Lemmas say once what a call does that
begins, goes on, or returns.

`SizeIsExact` has two books to compare, the counters of the files and that of the
directory, which `add_buffer()` changes in two steps under two locks.  `SizeExact`
says how they differ: by the buffers that threads have added to a file and not
yet to the directory.  It is stated as cardinalities of two sets, of the counted and the
uncounted buffers, so that it needs no recursive sum.  What makes it inductive is
that files are not mixed up (`InBooks`): each has one name, one stream and one
call at a time, and the file of a `create_output()` is still empty when it
gets into the map.  All of that ends when `disturbed` is set.

*The directories in the file system.*  The invariants are in layers, each kept
because of those below it.  `Base` is what the file system has (`Stored`: each name, now and on
stable storage, has an inode that was made for it, `Named`, and of each file `safe` is at most what is
stable, and that at most its length, `GoodFiles`) and what a thread has by where
its call is (`Placed`).  Lemmas of their own carry it and the layers above over a crash and
over what the system writes back (`CrashBase`, `WriteBackBase`, `WriteBackCopying`).  `CheckedIsThere` adds that `m_checked` is true only of a
directory that is there.  `Sharing` adds who writes to a file: of two overlapping
creations each knows (`OverlapsKnown`), one that knows of none finds
no file when it opens its own (`AloneFindsNone`), and a file that is not shared has
what its one stream has put there (`SoleWriter`).  `Copying` says how far a `copy()`
is with a file, and that those before it are whole; it rests on `Sharing`, because
the stream of the copy must be the only writer, and on a copy being alone.  A step is known by what it does to
the calls (`Moves`), the names and the files (`StepKinds`, `FileKinds`), so
that each layer is checked against a few kinds of steps and not against twenty
actions.  Proving `TypeOK` showed that it was wrong: it gave the
blocks that a stream has written the type `Seq(Threads)`, but a stream that follows a
shared file can also have written the hole in it; it is corrected.

*The scope of a lock.*  `ScopeIsExact` needs that a directory that is used as
`directory.h` asks has a factory of its own, as the constructor left it
(`ScopedIsAsOpened`), that a factory no directory has used is as it was made
(`UnusedIsNew`), and that no lock but the one that is always obtained has two
holders (`OneHolder`).

*The buffered streams.*  The bytes in a buffer and those in the file are one
overwriting of the file: writing `x` and then `y` behind it is writing `x \o y`
(`OverwriteTwice`).  So a step of the output stream adds bytes or goes to a position
(`OutputSteps`), no matter when the buffer is flushed, and also when a write
keeps a part of them.  `Written` and `Reading` are invariants of all setups,
with the faults: while the stream is good, the file's position is where the buffer
says; a buffer has no more in it than it should, and every answer is as long as
what was asked for, or an exception.  `InStep` is an invariant of the setups
without faults: a reader's buffer has what the file has from where it
starts, and the file's position is behind it (`Aligned`), which is what
`read_internal()` asserts.  `FillsUp` says that the rounds of a read then add up to the bytes of
the file from the stream's position on, and `NothingFails` that no read fails without
being past the end.  The refinement maps each step to one of `FlatFile`, or to a
stutter, from these.  Mapped streams have a lemma of their own for each
step, as their "buffer" is the file itself.

*The streams in memory.*  Here the flat file is cut into buffers of a fixed size, and
the refinement is about division: each position is one place of one buffer
(`DivIs`, `DivBelow`).  `RamWritten` says that there is a buffer for each byte and
that no byte up to the length is junk, although `write_bytes()` sets the length only when
something asks for it: what counts is `DataLength`, the larger of the length and the
position.  A write then overwrites the bytes of the flat file at its position
(`RamFlatOverwrites`); a seek or a flush leaves them, because it sets the length first.
`RamReading` holds of the input streams wherever they go.  `RamFollowing` is what a seek
behind the last buffer, or a file with whole buffers behind its length, breaks: a
stream is in the buffer of its position, and what it believes to be left in that buffer is
what the file has (`RamReach`).  So a read at the end of a buffer goes on where the
next one starts, and the throw of `switch_current_buffer()`, which counts its index on, comes only
at the end of the file.  The bytes of a read are a slice of one buffer, and that is
the same slice of the file (`RamSlice`).

*The monitor.*  `MInv` is what stays true whatever times out: the mutex is free
just when it has no level (`MutexSound`: otherwise the next thread would get it with levels of
another); a thread's place says whether it is in `wait()` and what it holds there
(`PlacesSound`); and a thread has a level for each scope that has locked, next to those that
`wait()` has released and is to give back (`LevelsSound`).  From this
`LockedScopesExclude` follows: two threads with a level each would both own the mutex.  `MInv` says
nothing of the books, which a timed out scope may have written; and `unlock_all()`, which
counts by them, can then release less than all, or nothing, and never more than
`relock()` asks for again.  `BooksExact` describes each thread while nothing has timed out:
`Held` is how many levels it has between two calls, `LoopsExact` that the loops of `wait()`
count just these, and `Exact` follows mutex and books through every load and store of
`lock()` and `unlock()`.  `OthersSound` and `OthersExact` carry both past the steps of other
threads; `OneThread` and `OneThreadBooks` are what a step then has to show.  There is one lemma
per action.

*The exclusive locks.*  In SimpleFSLock, `LockInv` says, until two clients overlap, that
one client at a time is between test and removal, that the file is there while the
lock is held, and that it is not there before a client creates it: without the
last part a crash or `clear_lock()` could not be told from a release.  In
SingleInstanceLock, `ContainerInv` says that whoever is inside of the container has the
Synchronize of its lock (`Guarded`), whichever that is; and, until two clients are inside at once, that
those inside have the same one (`OneSync`), that one client at a time holds
the lock (`OneHolder`) and its name is in the container (`HeldIsLocked`), and that a
name that `add()` is about to insert is not there (`InsertIsNew`).  In both, a lemma `SameOwners` covers
the steps that the abstract lock does not see, and `NextExclusive` maps each of the
others to `Obtain`, `Release`, `Abandon` or `Clear` of `ExclusiveLock`.

*HELD_LOCKS.*  `HInv` has the types, that a process's objects were created by one of its
own threads (`OwnStatics`), and that a thread is in a Synchronize just where the code is in the
SyncLock (`GuardPlaces`).  Of each process it says, until two of its creations overlap (`raced`), that its threads use one
Synchronize and one set, and that one thread at a time is in there (`Single`); and, until that or an `unlock()` that
threw, that one thread at a time has reserved the path, just when the set has it, and that
a thread that is about to add it has found it missing (`Books`).  A step of one thread leaves other processes
alone (`OtherProcess`), so that each action, one lemma each, is about its own (`OneLock`).

*The codec.*  What a recursive function computes would take an induction with a
predicate as a parameter, which these provers cannot instantiate.  So the induction
is over a set: `Induction` and `StrongInduction` say that a set of numbers that is closed
under the step has all of them (`Smallest`), and each use
names the set of the arguments for which the claim holds.  A recursive function is
a CHOOSE, so that first a solution of its equation must be shown to exist: `Recursion` does so
for one that goes down by one, `VintEquation` and `GroupsEquation` for the groups of a
number, which get smaller by a shift.  Then each type has a lemma that a reader
at the start of its bytes, with whatever follows them, finds the value and stops
behind it: `ReadsInt` by the bytes from the highest on (`HighBytes`), `ReadsLong` from its two
halves with the sign in the higher one (`HighHalf`, `SignedMod`), `ReadsVint` from the lowest group on,
where the last one is the only one without the flag, `ReadsString`, and `ReadsMap` entry by
entry, for any order of the entries (`PutNext`).  `EncodingReads` puts them together.

`CodecInv` is about the sequence.  Its `Ledger` says that the finished values lie in the
file one behind the other, the first of `ends` at 0; that the copy is a
prefix of the file; and that a reader is at one of the ends, which only the number
of values it has read tells.  A copy may stop inside of a value (`HasLonger`: more bytes behind it change nothing).
`VlongState` says that a `write_vlong()` in its loop has just begun or is stuck: `RoundStays` is the reason for
the second, because `i |= i >> 7` never makes `i` smaller, and so `VlongsAreShort`.  It does
not use the bound on the rounds.

## 6. What is only model-checked

- Liveness under fairness (`StopEnds`, `MainFinishes`, `MergeConverges`, `WokenReturns`,
  `LimitedWaitEnds`, `FreeLockIsObtained`, `CallsReturn`, `CallsEnd`), which TLAPS does not
  prove.
- `MutualExclusion` of NativeFSLock, `HoldsLockSound` of Monitor, `OneHolds` of SingleInstanceLock,
  `SyncedSurvivesCrash` of FSDirectory and `VlongIsShort` of Codec are refuted, and not proved.
  What `VlongIsShort` runs into is proved, as `VlongsAreShort`.

Every safety property that a passing run checks, state or step, is also a theorem.

## 7. What is not modelled

- Undefined behaviour has no state to check after it: a read past a mapping, or of a
  clone whose original is closed (MMapStream); the null map of a closed RAMDirectory is
  followed once and ends the process.
- Calls that hand one question to the file system and change nothing here
  (`file_exists()`, `file_modified()`), `touch_file()` of FSDirectory, `set_length()`, and
  what FileUtils has for callers that do not exist in the repository.
- The copying constructors of RAMDirectory, which run `Directory::copy()`.
- Time stamps, loggers, string conversions, construction of objects, most of the
  containers (they are the standard ones), the readers and md5.
- Two threads inside of one InputFile: `read_internal()` takes its lock and
  `seek_internal()` does not, and the model has one call at a time.
- Two FSDirectory objects on one path that write to it at once.
- Overflow of the segment number after 2^31 - 1 names, and of positions in files.
- The start of the process before threads exist (`get_instance()`).

## 8. Plan

Done, in this order, the most important behaviour first: LuceneThread,
SegmentManager with LiveIndex, IndexServer, Monitor, the locks, RAMDirectory, the
streams with FlatFile, FSDirectory, LockScope, Codec; then the proofs, of all
safety properties.

What would come next: two threads inside of one InputFile.
