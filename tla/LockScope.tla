------------------------------- MODULE LockScope -------------------------------
(***************************************************************************)
(* How the lock of a directory is scoped to its index: the constructor of  *)
(* FSDirectory (src/store/fs_directory.cpp) and of RAMDirectory            *)
(* (src/store/ram_directory.cpp), Directory::set_lock_factory()            *)
(* (src/store/directory.cpp), and what the lock factories make of a name.  *)
(* Directories are objects on a path; several may be on one.  What obtains *)
(* a lock is one step here: the locks themselves are in SimpleFSLock,      *)
(* NativeFSLock and SingleInstanceLock.                                    *)
(***************************************************************************)
EXTENDS FiniteSets

CONSTANTS
  Directories,          \* the directory objects
  Path,                 \* the path of each; an object without one is in memory
  Factories,            \* the lock factories
  Kind,                 \* of each: "fs", "single" or "none"
  LockDir,              \* the lock directory that its constructor was given
  NoPath                \* the empty string

ASSUME ScopeAssumption ==
  NoPath \notin Factories /\ LockDir = [f \in Factories |-> LockDir[f]]

VARIABLES
  m_lockFactory,        \* the factory of each directory; at first, none
  m_lockDir,            \* the lock directory of each factory
  m_lockPrefix,         \* the prefix of each factory
  writer,               \* the write lock that a directory's user has, or none
  users,                \* ghost: the directories that have used each factory
  astray                \* ghost: those with a factory that another has used,
                        \* against what directory.h asks for, or that was replaced

scope == <<m_lockFactory, m_lockDir, m_lockPrefix, writer, users, astray>>

NoPrefix == <<>>
NoLock == <<>>

ScopeInit ==
  /\ m_lockFactory = [d \in Directories |-> NoPath]
  /\ m_lockDir = LockDir
  /\ m_lockPrefix = [f \in Factories |-> NoPrefix]
  /\ writer = [d \in Directories |-> NoLock]
  /\ users = [f \in Factories |-> {}]
  /\ astray = {}

IsOpen(d) == m_lockFactory[d] # NoPath
InMemory(d) == Path[d] = NoPath

\* The digest of the path is as good as the path.
get_lock_id(d) == IF InMemory(d) THEN <<"RAMDirectory">> ELSE <<"lucene", Path[d]>>

set_lock_dir(f, path) == m_lockDir' = [m_lockDir EXCEPT ![f] = path]
set_lock_prefix(f, prefix) == m_lockPrefix' = [m_lockPrefix EXCEPT ![f] = prefix]

\* The directory gets factory f, which others may have.
TakesFactory(d, f) ==
  LET others == users[f] \ {d}
  IN  /\ m_lockFactory' = [m_lockFactory EXCEPT ![d] = f]
      /\ users' = [users EXCEPT ![f] = @ \cup {d}]
      /\ astray' = astray \cup {e \in others : m_lockFactory[e] = f}
                    \cup (IF others # {} \/ IsOpen(d) THEN {d} ELSE {})

\* Mutant: only a factory that is new gets no prefix, and not one whose lock
\* directory is the path already.
OpenFS_KeepsPrefix(d, f) ==
  /\ ~IsOpen(d) /\ ~InMemory(d) /\ Kind[f] = "fs"
  /\ TakesFactory(d, f)
  /\ IF m_lockDir[f] = NoPath THEN set_lock_dir(f, Path[d]) ELSE UNCHANGED m_lockDir
  /\ set_lock_prefix(f, IF m_lockDir[f] = NoPath THEN NoPrefix ELSE get_lock_id(d))
  /\ UNCHANGED writer

\* FSDirectory(), with a factory for locks in the file system, as it asserts: a
\* new factory puts the locks into the directory, where they need no prefix.
OpenFS(d, f) ==
  /\ ~IsOpen(d) /\ ~InMemory(d) /\ Kind[f] = "fs"
  /\ TakesFactory(d, f)
  /\ IF m_lockDir[f] = NoPath THEN set_lock_dir(f, Path[d]) ELSE UNCHANGED m_lockDir
  /\ set_lock_prefix(f, IF m_lockDir[f] \in {NoPath, Path[d]} THEN NoPrefix ELSE get_lock_id(d))
  /\ UNCHANGED writer

\* RAMDirectory(), with a factory that it makes itself.
OpenRAM(d, f) ==
  /\ ~IsOpen(d) /\ InMemory(d) /\ Kind[f] = "single"
  /\ users[f] = {}
  /\ TakesFactory(d, f)
  /\ set_lock_prefix(f, get_lock_id(d))
  /\ UNCHANGED <<m_lockDir, writer>>

\* set_lock_factory() of a directory that is open: the lock directory of f stays
\* as it is, also if it has none.  Bound: the first directory that is astray is
\* the last one to get another factory.
set_lock_factory(d, f) ==
  /\ astray = {}
  /\ IsOpen(d) /\ m_lockFactory[d] # f
  /\ TakesFactory(d, f)
  /\ set_lock_prefix(f, get_lock_id(d))
  /\ UNCHANGED <<m_lockDir, writer>>

\* The lock that a factory makes of a name: a file, with its prefix before the
\* name, the name in its set, or the one that is always obtained.
FileLock(f) == <<"file", m_lockDir[f], m_lockPrefix[f]>>
NameLock(f) == <<"name", f>>
SingletonLock == <<"unlocked">>

make_lock(d) ==
  LET f == m_lockFactory[d]
  IN  CASE Kind[f] = "fs" -> FileLock(f)
        [] Kind[f] = "single" -> NameLock(f)
        [] Kind[f] = "none" -> SingletonLock

CanObtain(d) ==
  \/ make_lock(d) = SingletonLock
  \/ \A e \in Directories : writer[e] # make_lock(d)

Obtain(d) ==
  /\ IsOpen(d) /\ writer[d] = NoLock /\ CanObtain(d)
  /\ writer' = [writer EXCEPT ![d] = make_lock(d)]
  /\ UNCHANGED <<m_lockFactory, m_lockDir, m_lockPrefix, users, astray>>

Release(d) ==
  /\ writer[d] # NoLock
  /\ writer' = [writer EXCEPT ![d] = NoLock]
  /\ UNCHANGED <<m_lockFactory, m_lockDir, m_lockPrefix, users, astray>>

ScopeNext ==
  \E d \in Directories :
    \/ \E f \in Factories : OpenFS(d, f) \/ OpenRAM(d, f) \/ set_lock_factory(d, f)
    \/ Obtain(d) \/ Release(d)

ScopeSpec == ScopeInit /\ [][ScopeNext]_scope

-----------------------------------------------------------------------------

\* "This ID should be the same if two Directory instances are considered the same
\* index.  This is how locking scopes to the right index" (src/store/directory.h):
\* of two directories whose factories have the locks in one place, or in the
\* directories themselves, and that use them as it asks, two on one path never
\* both have the write lock, and two on different paths, or in memory, never
\* keep each other from it.
Scoped(d) == IsOpen(d) /\ d \notin astray
SameIndex(d, e) == Path[d] = Path[e] /\ ~InMemory(d)
Place(d) == LET dir == LockDir[m_lockFactory[d]] IN IF dir = NoPath THEN Path[d] ELSE dir
SamePlace(d, e) == Place(d) = Place(e)
ScopeExact ==
  \A d, e \in {x \in Directories : Scoped(x)} :
    d # e /\ writer[d] # NoLock =>
      /\ SameIndex(d, e) /\ SamePlace(d, e) => writer[e] = NoLock /\ ~CanObtain(e)
      /\ ~SameIndex(d, e) => make_lock(e) # writer[d]
=============================================================================
