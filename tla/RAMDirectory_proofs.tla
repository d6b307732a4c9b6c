-------------------------- MODULE RAMDirectory_proofs --------------------------
(***************************************************************************)
(* The locks of RAMDirectory, for any threads, names and files: the        *)
(* directory's has one holder, who is inside of a call, and a file's is    *)
(* held only in add_buffer(), which has left it before it waits for the    *)
(* directory's.  Then the size that the directory counts: it is that of    *)
(* its files, less what add_buffer() has not counted yet.                  *)
(*                                                                         *)
(* At the end the locks that a RAMDirectory gives out, which are those of  *)
(* SingleInstanceLockFactory: until one uses a Synchronize of its own,     *)
(* they implement an exclusive lock for any number of clients.             *)
(***************************************************************************)
EXTENDS RAMDirectory, SingleInstanceLock, FiniteSetTheorems, TLAPS

\* A thread that is inside of the directory's lock has it.
DirectoryLockHeld == \A t \in Threads : call[t].at = "in" => dirLock = t

\* A file's lock is held by a thread that is adding a buffer to that file.
FileLockHeld ==
  \A t \in Threads, f \in Files :
    fileLock[f] = t => call[t].at = "grow" /\ call[t].file = f

\* These steps are always about a file, and these calls about a name.
FileKnown ==
  \A t \in Threads :
    /\ call[t].at \in {"grow", "pin", "stamp"} \/ call[t].op = "create" => call[t].file \in Files
    /\ call[t].op \in {"create", "delete", "length", "find"} => call[t].name \in Names

RInv == TypeOK /\ DirectoryLockHeld /\ FileLockHeld /\ FileKnown

-----------------------------------------------------------------------------

\* The initial state satisfies the invariant.
LEMMA InitRInv == Init => RInv
<1> SUFFICES ASSUME Init PROVE RInv
  OBVIOUS
<1> USE NoneAssumption DEF Init
<1>1. Idle \in [at : At, op : Ops, name : Names \cup {None}, file : Files \cup {None}]
  BY DEF Idle, At, Ops
<1>2. TypeOK
  <2>1. m_isOpen \in BOOLEAN /\ hasMap \in BOOLEAN /\ disturbed \in BOOLEAN
    OBVIOUS
  <2>2. call \in [Threads -> [at : At, op : Ops, name : Names \cup {None}, file : Files \cup {None}]]
    BY <1>1
  <2>3. /\ m_fileMap \in [Names -> Files \cup {None}] /\ dirSize \in Int
        /\ dirLock \in Threads \cup {None} /\ fileSize \in [Files -> Nat]
        /\ attached \in SUBSET Files /\ fileLock \in [Files -> Threads \cup {None}]
        /\ stream \in [Threads -> Files \cup {None}]
    OBVIOUS
  <2> QED
    BY <2>1, <2>2, <2>3 DEF TypeOK
<1>3. DirectoryLockHeld /\ FileLockHeld /\ FileKnown
  BY DEF Idle, DirectoryLockHeld, FileLockHeld, FileKnown
<1> QED
  BY <1>2, <1>3 DEF RInv

\* What is known of every call.
CallTyped == [at : At, op : Ops, name : Names \cup {None}, file : Files \cup {None}]

\* A call that begins, outside of every lock, takes none.
LEMMA BeginRInv ==
  ASSUME RInv, NEW t \in Threads,
         NEW op \in Ops, NEW n \in Names \cup {None}, NEW f \in Files \cup {None},
         op = "create" => f \in Files, op \in {"create", "delete", "length", "find"} => n \in Names,
         Begin(t, op, n, f), UNCHANGED <<directory, fileSize, fileLock, stream>>,
         attached' \in SUBSET Files, disturbed' \in BOOLEAN
  PROVE  RInv'
<1> USE DEF RInv, directory
<1> DEFINE c == [at |-> "want", op |-> op, name |-> n, file |-> f]
<1>1. call' = [call EXCEPT ![t] = c] /\ call[t].at = "idle"
  BY DEF Begin, Idle
<1>2. c \in CallTyped /\ c.at = "want" /\ c.op = op /\ c.name = n /\ c.file = f
  BY DEF CallTyped, At
<1> HIDE DEF c
<1>3. TypeOK'
  BY <1>1, <1>2 DEF TypeOK, CallTyped
<1>4. DirectoryLockHeld' /\ FileLockHeld' /\ FileKnown'
  BY <1>1, <1>2 DEF TypeOK, CallTyped, DirectoryLockHeld, FileLockHeld, FileKnown
<1> QED
  BY <1>3, <1>4

\* A call that ends leaves the locks it may have.
LEMMA ReturnRInv ==
  ASSUME RInv, NEW t \in Threads, call[t].at # "grow", Returns(t),
         \/ call[t].at = "in" /\ dirLock' = None
         \/ call[t].at # "in" /\ UNCHANGED dirLock,
         UNCHANGED <<m_isOpen, hasMap, fileLock, fileSize, disturbed>>,
         m_fileMap' \in [Names -> Files \cup {None}], dirSize' \in Int,
         attached' \in SUBSET Files, stream' \in [Threads -> Files \cup {None}]
  PROVE  RInv'
<1> USE DEF RInv
<1>1. call' = [call EXCEPT ![t] = Idle] /\ Idle \in CallTyped /\ Idle.at = "idle" /\ Idle.op = "size"
  BY DEF Returns, Idle, CallTyped, At, Ops
<1>2. TypeOK'
  BY <1>1 DEF TypeOK, CallTyped
<1>3. DirectoryLockHeld' /\ FileLockHeld' /\ FileKnown'
  BY <1>1, NoneAssumption DEF TypeOK, CallTyped, DirectoryLockHeld, FileLockHeld, FileKnown
<1> QED
  BY <1>2, <1>3

\* A step of a call within the locks: it may take or leave the directory's.
LEMMA GoesRInv ==
  ASSUME RInv, NEW t \in Threads, NEW at \in At,
         UNCHANGED <<m_isOpen, hasMap, m_fileMap, dirSize, fileSize, attached, fileLock,
                     stream, disturbed>>,
         Goes(t, at), call[t].at # "grow",
         at \in {"grow", "pin", "stamp"} => call[t].file \in Files,
         \/ at \in {"want", "crash"} /\ UNCHANGED dirLock
         \/ at = "in" /\ dirLock = None /\ dirLock' = t
  PROVE  RInv'
<1> USE DEF RInv, Goes
<1>1. TypeOK'
  BY DEF TypeOK
<1>2. DirectoryLockHeld' /\ FileLockHeld' /\ FileKnown'
  BY NoneAssumption DEF TypeOK, DirectoryLockHeld, FileLockHeld, FileKnown
<1> QED
  BY <1>1, <1>2

\* The steps inside of the directory's lock leave it.
LEMMA InsideRInv ==
  ASSUME RInv, NEW t \in Threads,
         Rejected(t) \/ PutFile(t) \/ RemoveFile(t) \/ Answer(t) \/ Count(t)
  PROVE  RInv'
<1> USE DEF LeaveDirectory, Is
<1> DEFINE n == call[t].name
<1>1. /\ m_fileMap \in [Names -> Files \cup {None}] /\ dirSize \in Int
      /\ attached \in SUBSET Files /\ stream \in [Threads -> Files \cup {None}]
      /\ fileSize \in [Files -> Nat]
  BY DEF RInv, TypeOK
<1>2. /\ call[t].at = "in" /\ dirLock' = None /\ Returns(t)
      /\ UNCHANGED <<m_isOpen, hasMap, fileLock, fileSize, disturbed>>
  BY DEF Rejected, PutFile, RemoveFile, Answer, Count, file
<1>3. CASE Rejected(t) \/ Answer(t)
  <2>1. UNCHANGED <<m_fileMap, dirSize, attached, stream>>
    BY <1>3 DEF Rejected, Answer, file
  <2> QED
    BY <1>1, <1>2, <2>1, ReturnRInv
<1>4. CASE PutFile(t)
  <2>1. call[t].file \in Files /\ n \in Names
    BY <1>4 DEF PutFile, RInv, FileKnown
  <2>2. /\ m_fileMap' \in [Names -> Files \cup {None}]
        /\ stream' \in [Threads -> Files \cup {None}]
    BY <1>1, <1>4, <2>1 DEF PutFile
  <2>3. dirSize' \in Int /\ attached' \in SUBSET Files
    BY <1>1, <1>4, <2>1 DEF PutFile
  <2> QED
    BY <1>2, <2>2, <2>3, ReturnRInv
<1>5. CASE RemoveFile(t)
  <2>1. n \in Names /\ UNCHANGED <<attached, stream>>
    BY <1>5 DEF RemoveFile, RInv, FileKnown, file
  <2>2. dirSize' \in Int /\ m_fileMap' \in [Names -> Files \cup {None}]
    BY <1>1, <1>5, <2>1 DEF RemoveFile
  <2> QED
    BY <1>1, <1>2, <2>1, <2>2, ReturnRInv
<1>6. CASE Count(t)
  <2>1. dirSize' \in Int /\ UNCHANGED <<m_fileMap, attached, stream>>
    BY <1>1, <1>6 DEF Count, file
  <2> QED
    BY <1>1, <1>2, <2>1, ReturnRInv
<1> QED
  BY <1>3, <1>4, <1>5, <1>6

\* Calls begin, in add_buffer() with the lock of the file.
LEMMA ClientRInv == ASSUME RInv, NEW t \in Threads, Client(t) PROVE RInv'
<1> USE DEF RInv
<1>1. attached \in SUBSET Files /\ disturbed \in BOOLEAN
  BY DEF TypeOK
<1>2. ASSUME NEW n \in Names PROVE Disturbs(n) => disturbed' \in BOOLEAN
  BY DEF Disturbs
<1>3. ASSUME NEW n \in Names, CreateOutput(t, n) PROVE RInv'
  <2>1. PICK f \in Files : Begin(t, "create", n, f) /\ attached' = attached \cup {f}
    <3>1. New # {} /\ New \subseteq Files
      BY <1>3 DEF CreateOutput, New
    <3>2. (CHOOSE f \in New : TRUE) \in Files
      BY <3>1
    <3> QED
      BY <1>3, <3>2 DEF CreateOutput
  <2>2. disturbed' \in BOOLEAN /\ UNCHANGED <<directory, fileSize, fileLock, stream>>
    BY <1>2, <1>3 DEF CreateOutput
  <2>3. attached' \in SUBSET Files
    BY <1>1, <2>1
  <2> QED
    BY <2>1, <2>2, <2>3, BeginRInv DEF Ops
<1>4. ASSUME NEW n \in Names, DeleteFile(t, n) \/ Find(t, n) PROVE RInv'
  <2>1. PICK op \in {"delete", "find"} : Begin(t, op, n, None)
    BY <1>4 DEF DeleteFile, Find
  <2>2. disturbed' \in BOOLEAN /\ UNCHANGED <<directory, file, stream>>
    BY <1>1, <1>2, <1>4 DEF DeleteFile, Find
  <2> QED
    BY <1>1, <2>1, <2>2, BeginRInv DEF Ops, file
<1>5. CASE Ask(t)
  <2>1. PICK op \in {"length", "list", "size"}, n \in Names \cup {None} :
          Begin(t, op, n, None) /\ (op = "length" => n \in Names)
    BY <1>5 DEF Ask
  <2>2. UNCHANGED <<directory, file, stream, disturbed>>
    BY <1>5 DEF Ask
  <2> QED
    BY <1>1, <2>1, <2>2, BeginRInv DEF Ops, file
<1>6. CASE AddBuffer(t)
  <2> DEFINE c == [at |-> "grow", op |-> "add", name |-> None, file |-> stream[t]]
  <2>1. /\ call' = [call EXCEPT ![t] = c] /\ fileLock[stream[t]] = None
        /\ fileLock' = [fileLock EXCEPT ![stream[t]] = t]
        /\ stream[t] \in Files /\ call[t].at = "idle"
        /\ UNCHANGED <<directory, fileSize, attached, stream, disturbed>>
    BY <1>6 DEF AddBuffer, TypeOK, Idle
  <2>2. c \in CallTyped /\ c.at = "grow" /\ c.op = "add" /\ c.file = stream[t]
    BY <2>1 DEF CallTyped, At, Ops
  <2> HIDE DEF c
  <2>3. TypeOK'
    BY <2>1, <2>2 DEF TypeOK, CallTyped, directory
  <2>4. DirectoryLockHeld' /\ FileKnown'
    BY <2>1, <2>2 DEF TypeOK, CallTyped, directory, DirectoryLockHeld, FileKnown
  <2>5. FileLockHeld'
    BY <2>1, <2>2 DEF TypeOK, CallTyped, FileLockHeld
  <2> QED
    BY <2>3, <2>4, <2>5
<1>7. CASE CloseStream(t)
  <2>1. stream' \in [Threads -> Files \cup {None}] /\ UNCHANGED <<directory, file, call, disturbed>>
    BY <1>7 DEF CloseStream, TypeOK
  <2> QED
    BY <2>1 DEF TypeOK, directory, file, DirectoryLockHeld, FileLockHeld, FileKnown
<1> QED
  BY <1>3, <1>4, <1>5, <1>6, <1>7 DEF Client

\* A call goes on.
LEMMA ProceedRInv == ASSUME RInv, NEW t \in Threads, Proceed(t) PROVE RInv'
<1> USE DEF RInv, file, directory
<1>1. CASE Enter(t)
  BY <1>1, GoesRInv DEF Enter, At
<1>2. CASE NullMap(t)
  BY <1>2, GoesRInv DEF NullMap, Crashes, At
<1>3. CASE Found(t)
  <2>1. /\ call[t].at = "in" /\ call[t].name \in Names /\ dirLock' = None
        /\ m_fileMap[call[t].name] \in Files
        /\ UNCHANGED <<m_isOpen, hasMap, m_fileMap, dirSize, fileSize, attached, fileLock, stream, disturbed>>
    BY <1>3 DEF Found, Is, FileKnown, TypeOK
  <2>2. CASE Returns(t)
    BY <2>1, <2>2, ReturnRInv DEF TypeOK
  <2>3. ASSUME call' = [call EXCEPT ![t].at = "stamp", ![t].file = m_fileMap[call[t].name]]
        PROVE  RInv'
    <3> USE <2>1, <2>3
    <3>1. TypeOK'
      BY DEF TypeOK, At
    <3>2. DirectoryLockHeld' /\ FileLockHeld' /\ FileKnown'
      BY NoneAssumption DEF TypeOK, DirectoryLockHeld, FileLockHeld, FileKnown
    <3> QED
      BY <3>1, <3>2
  <2> QED
    BY <1>3, <2>2, <2>3 DEF Found
<1>4. CASE Stamp(t)
  <2>1. /\ call[t].at = "stamp" /\ Returns(t) /\ UNCHANGED <<directory, file, stream, disturbed>>
    BY <1>4 DEF Stamp
  <2> QED
    BY <2>1, ReturnRInv DEF TypeOK
<1>5. CASE Grow(t)
  <2>1. /\ call[t].at = "grow" /\ call[t].file \in Files
        /\ fileSize' = [fileSize EXCEPT ![call[t].file] = @ + 1]
        /\ fileLock' = [fileLock EXCEPT ![call[t].file] = None]
        /\ call' = [call EXCEPT ![t].at = "pin"]
        /\ UNCHANGED <<directory, attached, stream, disturbed>>
    BY <1>5 DEF Grow, Goes, FileKnown
  <2>2. TypeOK'
    BY <2>1 DEF TypeOK, At
  <2>3. DirectoryLockHeld' /\ FileKnown'
    BY <2>1 DEF TypeOK, DirectoryLockHeld, FileKnown
  <2>4. FileLockHeld'
    BY <2>1, NoneAssumption DEF TypeOK, FileLockHeld
  <2> QED
    BY <2>2, <2>3, <2>4
<1>6. CASE Pin(t)
  <2>1. call[t].at = "pin" /\ UNCHANGED <<directory, file, stream, disturbed>>
    BY <1>6 DEF Pin
  <2>2. CASE Goes(t, "want")
    BY <2>1, <2>2, GoesRInv DEF At
  <2>3. CASE Returns(t)
    BY <2>1, <2>3, ReturnRInv DEF TypeOK
  <2> QED
    BY <1>6, <2>2, <2>3 DEF Pin
<1> QED
  BY <1>1, <1>2, <1>3, <1>4, <1>5, <1>6, InsideRInv DEF Proceed

\* Every step keeps the invariant.
LEMMA NextRInv == RInv /\ [Next]_vars => RInv'
<1> SUFFICES ASSUME RInv, [Next]_vars PROVE RInv'
  OBVIOUS
<1> USE DEF RInv, directory, file
<1>1. CASE UNCHANGED vars
  BY <1>1 DEF vars, TypeOK, DirectoryLockHeld, FileLockHeld, FileKnown
<1>2. CASE Close
  <2>1. m_isOpen' = FALSE
        /\ UNCHANGED <<hasMap, m_fileMap, dirSize, dirLock, file, stream, call, disturbed>>
    BY <1>2 DEF Close
  <2> QED
    BY <2>1 DEF TypeOK, DirectoryLockHeld, FileLockHeld, FileKnown
<1>3. CASE ResetMap
  <2>1. /\ hasMap' = FALSE /\ m_fileMap' \in [Names -> Files \cup {None}]
        /\ UNCHANGED <<m_isOpen, dirSize, dirLock, file, stream, call, disturbed>>
    BY <1>3 DEF ResetMap
  <2> QED
    BY <2>1 DEF TypeOK, DirectoryLockHeld, FileLockHeld, FileKnown
<1> QED
  BY <1>1, <1>2, <1>3, ClientRInv, ProceedRInv DEF Next

\* Every reachable state satisfies the invariant.
THEOREM Invariant == Spec => []RInv
BY InitRInv, NextRInv, PTL DEF Spec

\* The variables of RAMDirectory and RAMFile keep their types.
THEOREM TypeCorrect == Spec => []TypeOK
<1>1. RInv => TypeOK
  BY DEF RInv
<1> QED
  BY Invariant, <1>1, PTL

\* The acquisition sequence of ram_directory.h is kept: a thread that waits for
\* the directory's lock, or is about to, has the lock of no file.
THEOREM LocksInSequence == Spec => []LockSequence
<1>1. RInv => LockSequence
  BY DEF RInv, FileLockHeld, LockSequence
<1> QED
  BY Invariant, <1>1, PTL

-----------------------------------------------------------------------------
(* The two books.  As long as no file is deleted, or created again, that a   *)
(* stream writes, the files of the map, of the streams, and of the calls     *)
(* that create one are kept apart, and each step changes both books alike.   *)

\* A call that creates or deletes a file of its name.
Changing(t) == call[t].op \in {"create", "delete"}

\* A file has one name, and is attached as long as it has it.
MappedOnce ==
  /\ \A m, n \in Names : m_fileMap[m] # None /\ m_fileMap[m] = m_fileMap[n] => m = n
  /\ \A n \in Names : m_fileMap[n] # None => m_fileMap[n] \in attached

\* The file that create_output() has made is empty, and nobody else has it yet.
NewIsUnused ==
  \A t \in Threads : call[t].op = "create" =>
    /\ call[t].file \in attached /\ fileSize[call[t].file] = 0
    /\ \A n \in Names : m_fileMap[n] # call[t].file
    /\ \A u \in Threads : stream[u] # call[t].file
    /\ \A u \in Threads \ {t} : call[u].file # call[t].file

\* Each stream is the only one on its file, and the file is in the map.
StreamIsMapped ==
  \A t \in Threads : stream[t] # None =>
    /\ \E n \in Names : m_fileMap[n] = stream[t]
    /\ \A u \in Threads \ {t} : stream[u] # stream[t]

\* What is to be deleted or replaced is not written, and changed by one call.
ChangedIsQuiet ==
  \A t \in Threads : Changing(t) =>
    /\ m_fileMap[call[t].name] # None => \A u \in Threads : stream[u] # m_fileMap[call[t].name]
    /\ \A u \in Threads \ {t} : Changing(u) => call[u].name # call[t].name

\* add_buffer() is in the file of its stream.
AddsToStream ==
  \A t \in Threads :
    /\ call[t].at \in {"grow", "pin"} => call[t].op = "add"
    /\ call[t].op = "add" => stream[t] # None /\ call[t].file = stream[t]

\* What SizeExact says, of finite sets.
BooksAgree ==
  /\ IsFiniteSet(Counted) /\ IsFiniteSet(Uncounted)
  /\ dirSize = Cardinality(Counted) - Cardinality(Uncounted)

\* The books, with all that their steps rest on, are in order until a file is
\* disturbed or the map is gone.
InBooks ==
  /\ MappedOnce /\ NewIsUnused /\ StreamIsMapped /\ ChangedIsQuiet
  /\ AddsToStream /\ BooksAgree

Books == ~disturbed /\ hasMap => InBooks

\* Whether the buffer that thread t adds is in the file's book only.
OneUncounted(c) == c.at = "pin" \/ (c.op = "add" /\ c.at \in {"want", "in"})

\* The buffers of a file are as many as its counter says.
LEMMA BuffersOfFile ==
  ASSUME NEW f, fileSize[f] \in Nat
  PROVE  IsFiniteSet(Buffers(f)) /\ Cardinality(Buffers(f)) = fileSize[f]
<1>1. IsFiniteSet({f}) /\ Cardinality({f}) = 1
  BY FS_Singleton
<1>2. IsFiniteSet(1..fileSize[f]) /\ Cardinality(1..fileSize[f]) = fileSize[f]
  BY FS_Interval
<1>3. /\ IsFiniteSet({f} \X (1..fileSize[f]))
      /\ Cardinality({f} \X (1..fileSize[f])) = Cardinality({f}) * Cardinality(1..fileSize[f])
  BY <1>1, <1>2, FS_Product
<1>4. 1 * fileSize[f] = fileSize[f]
  OBVIOUS
<1> QED
  BY <1>1, <1>2, <1>3, <1>4 DEF Buffers

\* What is counted, buffer by buffer.
LEMMA CountedIs ==
  \A b : b \in Counted <=> \E n \in Names : /\ m_fileMap[n] # None
                                            /\ b \in Buffers(m_fileMap[n])
BY DEF Counted, Mapped

LEMMA CountedIsNext ==
  \A b : b \in Counted' <=> \E n \in Names : /\ m_fileMap'[n] # None
                                             /\ b \in {m_fileMap'[n]} \X (1..fileSize'[m_fileMap'[n]])
BY DEF Counted, Mapped, Buffers

\* A buffer of a file in the map comes to what is counted.
LEMMA CountedGrows ==
  ASSUME NEW n \in Names, NEW f \in Files, m_fileMap[n] = f, fileSize \in [Files -> Nat],
         m_fileMap \in [Names -> Files \cup {None}], IsFiniteSet(Counted),
         UNCHANGED m_fileMap, fileSize' = [fileSize EXCEPT ![f] = @ + 1]
  PROVE  IsFiniteSet(Counted') /\ Cardinality(Counted') = Cardinality(Counted) + 1
<1> DEFINE b == <<f, fileSize[f] + 1>>
<1>1. f # None
  BY NoneAssumption
<1>2. b \notin Counted
  <2> SUFFICES ASSUME NEW m \in Names, b \in Buffers(m_fileMap[m]) PROVE FALSE
    BY CountedIs
  <2> QED
    BY DEF Buffers
<1>3. ASSUME NEW m \in Names, m_fileMap[m] # None
      PROVE  {m_fileMap'[m]} \X (1..fileSize'[m_fileMap'[m]]) =
               Buffers(m_fileMap[m]) \cup (IF m_fileMap[m] = f THEN {b} ELSE {})
  <2>1. CASE m_fileMap[m] = f
    <3>1. fileSize'[f] = fileSize[f] + 1 /\ 1..(fileSize[f] + 1) = (1..fileSize[f]) \cup {fileSize[f] + 1}
      OBVIOUS
    <3> QED
      BY <2>1, <3>1 DEF Buffers
  <2>2. CASE m_fileMap[m] # f
    BY <1>3, <2>2 DEF Buffers
  <2> QED
    BY <2>1, <2>2
<1> HIDE DEF b
<1>4. Counted' = Counted \cup {b}
  BY <1>1, <1>3, CountedIs, CountedIsNext
<1> QED
  BY <1>2, <1>4, FS_AddElement, FS_CardinalityType

\* A file that leaves the map, for none or for an empty one, takes its buffers
\* from what is counted.
LEMMA CountedLoses ==
  ASSUME NEW n \in Names, NEW g \in Files \cup {None}, g # None => fileSize[g] = 0,
         fileSize \in [Files -> Nat], m_fileMap \in [Names -> Files \cup {None}],
         MappedOnce, IsFiniteSet(Counted),
         UNCHANGED fileSize, m_fileMap' = [m_fileMap EXCEPT ![n] = g]
  PROVE  /\ IsFiniteSet(Counted')
         /\ Cardinality(Counted') = Cardinality(Counted)
              - (IF m_fileMap[n] = None THEN 0 ELSE fileSize[m_fileMap[n]])
<1> DEFINE e == m_fileMap[n]
<1>1. g # None => Buffers(g)' = {}
  <2>1. 1..0 = {}
    OBVIOUS
  <2> QED
    BY <2>1, NoneAssumption DEF Buffers
<1>2. \A m \in Names : Buffers(m_fileMap[m])' = {<<m_fileMap'[m], k>> : k \in 1..fileSize[m_fileMap'[m]]}
  BY DEF Buffers
<1>3. CASE e = None
  <2>1. Counted' = Counted
    BY <1>1, <1>3, CountedIs, CountedIsNext DEF Buffers
  <2> QED
    BY <1>3, <2>1, FS_CardinalityType
<1>4. CASE e # None
  <2>1. e \in Files /\ fileSize[e] \in Nat
    BY <1>4
  <2>2. \A m \in Names \ {n} : m_fileMap[m] # None => Buffers(m_fileMap[m]) \cap Buffers(e) = {}
    BY <1>4 DEF MappedOnce, Buffers
  <2>3. Counted' = Counted \ Buffers(e)
    BY <1>1, <1>4, <2>2, CountedIs, CountedIsNext DEF Buffers
  <2>4. Counted \cap Buffers(e) = Buffers(e)
    BY <1>4, CountedIs
  <2>5. /\ IsFiniteSet(Counted \ Buffers(e))
        /\ Cardinality(Counted \ Buffers(e)) = Cardinality(Counted) - Cardinality(Counted \cap Buffers(e))
    BY FS_Difference
  <2>6. Cardinality(Buffers(e)) = fileSize[e]
    BY <2>1, BuffersOfFile
  <2> HIDE DEF e
  <2>7. Cardinality(Counted') = Cardinality(Counted) - fileSize[e]
    BY <2>3, <2>4, <2>5, <2>6
  <2> QED
    BY <1>4, <2>3, <2>5, <2>7 DEF e
<1> QED
  BY <1>3, <1>4

\* A step of thread t that does not change whether it has a buffer uncounted.
LEMMA UncountedKept ==
  ASSUME NEW t \in Threads, call \in [Threads -> CallTyped], NEW c, call' = [call EXCEPT ![t] = c],
         OneUncounted(c) <=> OneUncounted(call[t])
  PROVE  Uncounted' = Uncounted
BY DEF Uncounted, OneUncounted

\* A call that does not change a file, and no file, stream or counter with it.
LEMMA CallBooks ==
  ASSUME RInv, MappedOnce, NewIsUnused, StreamIsMapped, ChangedIsQuiet, AddsToStream, BooksAgree,
         NEW t \in Threads, NEW c \in CallTyped, call' = [call EXCEPT ![t] = c],
         UNCHANGED <<m_fileMap, dirSize, fileSize, attached, stream>>,
         OneUncounted(c) <=> OneUncounted(call[t]),
         c.op \in {"create", "delete"} =>
           c.op = call[t].op /\ c.name = call[t].name /\ c.file = call[t].file,
         c.at \in {"grow", "pin"} => c.op = "add",
         c.op = "add" => stream[t] # None /\ c.file = stream[t],
         \A u \in Threads \ {t} : call[u].op = "create" => c.file # call[u].file
  PROVE  MappedOnce' /\ NewIsUnused' /\ StreamIsMapped' /\ ChangedIsQuiet' /\ AddsToStream' /\ BooksAgree'
<1>1. call \in [Threads -> CallTyped]
  BY DEF RInv, TypeOK, CallTyped
<1>2. MappedOnce' /\ StreamIsMapped'
  BY DEF MappedOnce, StreamIsMapped
<1>3. NewIsUnused'
  BY <1>1 DEF NewIsUnused
<1>4. ChangedIsQuiet'
  BY <1>1 DEF ChangedIsQuiet, Changing
<1>5. AddsToStream'
  BY <1>1 DEF AddsToStream
<1>6. BooksAgree'
  <2>1. Counted' = Counted
    BY DEF Counted, Mapped, Buffers
  <2> QED
    BY <1>1, <2>1, UncountedKept DEF BooksAgree
<1> QED
  BY <1>2, <1>3, <1>4, <1>5, <1>6

\* The file of a call that is about to create one is nobody else's.
LEMMA OthersFile ==
  ASSUME RInv, NewIsUnused, StreamIsMapped, NEW t \in Threads, NEW u \in Threads \ {t},
         call[u].op = "create"
  PROVE  /\ call[u].file # None /\ call[u].file # call[t].file /\ call[u].file # stream[t]
         /\ \A n \in Names : m_fileMap[n] # call[u].file
BY NoneAssumption DEF NewIsUnused, RInv, FileKnown

\* Calls begin.
LEMMA ClientBooks ==
  ASSUME RInv, InBooks, NEW t \in Threads, Client(t), ~disturbed'
  PROVE  InBooks'
<1> USE DEF InBooks
<1>1. call \in [Threads -> CallTyped] /\ stream \in [Threads -> Files \cup {None}]
  BY DEF RInv, TypeOK, CallTyped
<1>2. ASSUME NEW n \in Names, Disturbs(n)
      PROVE  /\ \A u \in Threads : m_fileMap[n] # None => stream[u] # m_fileMap[n]
             /\ \A u \in Threads : Changing(u) => call[u].name # n
  BY <1>2 DEF Disturbs, Streamed, Changing
<1>3. ASSUME NEW op \in {"length", "list", "size", "find"}, NEW n \in Names \cup {None},
             Begin(t, op, n, None), UNCHANGED <<directory, file, stream>>
      PROVE  InBooks'
  <2> DEFINE c == [at |-> "want", op |-> op, name |-> n, file |-> None]
  <2>1. c \in CallTyped /\ ~OneUncounted(c) /\ ~OneUncounted(call[t])
    BY <1>3 DEF CallTyped, At, Ops, OneUncounted, Begin, Idle
  <2>2. call' = [call EXCEPT ![t] = c] /\ UNCHANGED <<m_fileMap, dirSize, fileSize, attached, stream>>
    BY <1>3 DEF Begin, directory, file
  <2>3. c.at = "want" /\ c.op = op /\ c.file = None
    OBVIOUS
  <2> HIDE DEF c
  <2>4. \A u \in Threads \ {t} : call[u].op = "create" => c.file # call[u].file
    BY <2>3, OthersFile
  <2> QED
    BY <2>1, <2>2, <2>3, <2>4, CallBooks
<1>4. ASSUME NEW n \in Names, CreateOutput(t, n) PROVE InBooks'
  <2>1. PICK f \in Files : f \in New /\ Begin(t, "create", n, f) /\ attached' = attached \cup {f}
    <3>1. (CHOOSE f \in New : TRUE) \in New /\ New \subseteq Files
      BY <1>4 DEF CreateOutput, New
    <3> QED
      BY <1>4, <3>1 DEF CreateOutput
  <2> DEFINE c == [at |-> "want", op |-> "create", name |-> n, file |-> f]
  <2>2. c.at = "want" /\ c.op = "create" /\ c.name = n /\ c.file = f /\ c \in CallTyped
    BY DEF CallTyped, At, Ops
  <2>3. call' = [call EXCEPT ![t] = c] /\ call[t] = Idle
    BY <2>1 DEF Begin
  <2> HIDE DEF c
  <2>4. UNCHANGED <<m_fileMap, dirSize, fileSize, stream>>
    BY <1>4 DEF CreateOutput, directory
  <2>5. /\ f \notin attached /\ fileSize[f] = 0 /\ f # None
        /\ \A u \in Threads : stream[u] # f /\ call[u].file # f
    BY <2>1, NoneAssumption DEF New, Streamed
  <2>6. MappedOnce' /\ StreamIsMapped'
    BY <2>1, <2>4 DEF MappedOnce, StreamIsMapped
  <2>7. NewIsUnused'
    BY <1>1, <2>1, <2>2, <2>3, <2>4, <2>5 DEF NewIsUnused, MappedOnce
  <2>8. ChangedIsQuiet'
    <3>1. Disturbs(n)
      BY <1>4 DEF CreateOutput
    <3> QED
      BY <1>1, <1>2, <2>2, <2>3, <2>4, <3>1 DEF ChangedIsQuiet, Changing
  <2>9. AddsToStream'
    BY <1>1, <2>2, <2>3, <2>4 DEF AddsToStream
  <2>10. BooksAgree'
    <3>1. Counted' = Counted
      BY <2>4 DEF Counted, Mapped, Buffers
    <3>2. Uncounted' = Uncounted
      <4>1. ~OneUncounted(c) /\ ~OneUncounted(call[t])
        BY <2>2, <2>3 DEF OneUncounted, Idle
      <4> QED
        BY <1>1, <2>3, <4>1, UncountedKept
    <3> QED
      BY <2>4, <3>1, <3>2 DEF BooksAgree
  <2> QED
    BY <2>6, <2>7, <2>8, <2>9, <2>10
<1>5. ASSUME NEW n \in Names, DeleteFile(t, n) PROVE InBooks'
  <2> DEFINE c == [at |-> "want", op |-> "delete", name |-> n, file |-> None]
  <2>2. c.at = "want" /\ c.op = "delete" /\ c.name = n /\ c.file = None /\ c \in CallTyped
    BY DEF CallTyped, At, Ops
  <2>3. call' = [call EXCEPT ![t] = c] /\ call[t] = Idle
    BY <1>5 DEF DeleteFile, Begin
  <2> HIDE DEF c
  <2>4. UNCHANGED <<m_fileMap, dirSize, fileSize, attached, stream>>
    BY <1>5 DEF DeleteFile, directory, file
  <2>6. MappedOnce' /\ StreamIsMapped'
    BY <2>4 DEF MappedOnce, StreamIsMapped
  <2>7. NewIsUnused'
    BY <1>1, <2>2, <2>3, <2>4, OthersFile DEF NewIsUnused
  <2>8. ChangedIsQuiet'
    <3>1. Disturbs(n)
      BY <1>5 DEF DeleteFile
    <3> QED
      BY <1>1, <1>2, <2>2, <2>3, <2>4, <3>1 DEF ChangedIsQuiet, Changing
  <2>9. AddsToStream'
    BY <1>1, <2>2, <2>3, <2>4 DEF AddsToStream
  <2>10. BooksAgree'
    <3>1. Counted' = Counted
      BY <2>4 DEF Counted, Mapped, Buffers
    <3>2. Uncounted' = Uncounted
      <4>1. ~OneUncounted(c) /\ ~OneUncounted(call[t])
        BY <2>2, <2>3 DEF OneUncounted, Idle
      <4> QED
        BY <1>1, <2>3, <4>1, UncountedKept
    <3> QED
      BY <2>4, <3>1, <3>2 DEF BooksAgree
  <2> QED
    BY <2>6, <2>7, <2>8, <2>9, <2>10
<1>6. CASE Ask(t)
  <2>1. PICK op \in {"length", "list", "size"}, n \in Names \cup {None} : Begin(t, op, n, None)
    BY <1>6 DEF Ask
  <2> QED
    BY <1>3, <1>6, <2>1 DEF Ask
<1>7. ASSUME NEW n \in Names, Find(t, n) PROVE InBooks'
  BY <1>3, <1>7 DEF Find
<1>8. CASE AddBuffer(t)
  <2> DEFINE c == [at |-> "grow", op |-> "add", name |-> None, file |-> stream[t]]
  <2>1. /\ call' = [call EXCEPT ![t] = c] /\ call[t] = Idle /\ stream[t] # None
        /\ UNCHANGED <<m_fileMap, dirSize, fileSize, attached, stream>>
    BY <1>8 DEF AddBuffer, directory
  <2>2. c \in CallTyped /\ c.at = "grow" /\ c.op = "add" /\ c.file = stream[t]
    BY <1>1 DEF CallTyped, At, Ops
  <2> HIDE DEF c
  <2>3. OneUncounted(c) <=> OneUncounted(call[t])
    BY <2>1, <2>2 DEF OneUncounted, Idle
  <2>4. \A u \in Threads \ {t} : call[u].op = "create" => c.file # call[u].file
    BY <2>2, OthersFile
  <2> QED
    BY <2>1, <2>2, <2>3, <2>4, CallBooks
<1>9. CASE CloseStream(t)
  <2>1. /\ stream' = [stream EXCEPT ![t] = None] /\ call[t] = Idle
        /\ UNCHANGED <<m_fileMap, dirSize, fileSize, attached, call>>
    BY <1>9 DEF CloseStream, directory, file
  <2>2. MappedOnce' /\ StreamIsMapped' /\ ChangedIsQuiet'
    BY <1>1, <2>1 DEF MappedOnce, StreamIsMapped, ChangedIsQuiet, Changing
  <2>3. NewIsUnused'
    BY <1>1, <2>1, NoneAssumption DEF NewIsUnused, RInv, FileKnown
  <2>4. AddsToStream'
    BY <1>1, <2>1 DEF AddsToStream, Idle
  <2>5. BooksAgree'
    BY <2>1 DEF BooksAgree, Counted, Mapped, Buffers, Uncounted
  <2> QED
    BY <2>2, <2>3, <2>4, <2>5
<1> QED
  BY <1>4, <1>5, <1>6, <1>7, <1>8, <1>9 DEF Client

\* create_output() puts its empty file into the map, in the place of another.
LEMMA PutFileBooks ==
  ASSUME RInv, InBooks, NEW t \in Threads, PutFile(t)
  PROVE  InBooks'
<1> USE DEF InBooks
<1> DEFINE f == call[t].file
           n == call[t].name
           e == m_fileMap[n]
<1>1. /\ call \in [Threads -> CallTyped] /\ stream \in [Threads -> Files \cup {None}]
      /\ m_fileMap \in [Names -> Files \cup {None}] /\ fileSize \in [Files -> Nat] /\ dirSize \in Int
  BY DEF RInv, TypeOK, CallTyped
<1>2. /\ call[t].at = "in" /\ call[t].op = "create" /\ f \in Files /\ n \in Names /\ Changing(t)
      /\ m_fileMap' = [m_fileMap EXCEPT ![n] = f] /\ stream' = [stream EXCEPT ![t] = f]
      /\ call' = [call EXCEPT ![t] = Idle] /\ UNCHANGED fileSize
  BY DEF PutFile, Is, RInv, FileKnown, LeaveDirectory, Returns, Changing
<1>3. /\ e = None => UNCHANGED <<dirSize, attached>>
      /\ e # None => dirSize' = dirSize - fileSize[e] /\ attached' = attached \ {e}
  BY DEF PutFile
<1>4. /\ f # None /\ f \in attached /\ fileSize[f] = 0
      /\ \A m \in Names : m_fileMap[m] # f
      /\ \A u \in Threads : stream[u] # f
      /\ \A u \in Threads \ {t} : call[u].file # f
  BY <1>2, NoneAssumption DEF NewIsUnused
<1>5. Idle \in CallTyped /\ Idle.at = "idle" /\ Idle.op = "size" /\ Idle.file = None /\ ~OneUncounted(Idle)
  BY DEF CallTyped, Idle, At, Ops, OneUncounted
<1>6. \A u \in Threads : e # None => stream[u] # e
  BY <1>2 DEF ChangedIsQuiet
<1>7. \A u \in Threads \ {t} : Changing(u) => call[u].name # n
  BY <1>2 DEF ChangedIsQuiet
<1> HIDE DEF f, n, e
<1>8. \A m \in Names : m_fileMap'[m] = IF m = n THEN f ELSE m_fileMap[m]
  BY <1>1, <1>2
<1>9. MappedOnce'
  <2>1. \A m \in Names \ {n} : m_fileMap[m] # None => m_fileMap[m] # e
    BY <1>2 DEF MappedOnce, e
  <2>2. \A m \in Names : m_fileMap'[m] # None => m_fileMap'[m] \in attached'
    BY <1>2, <1>3, <1>4, <1>8, <2>1 DEF MappedOnce, e
  <2> QED
    BY <1>4, <1>8, <2>2 DEF MappedOnce
<1>10. NewIsUnused'
  <2> SUFFICES ASSUME NEW u \in Threads \ {t}, call[u].op = "create"
               PROVE  /\ call[u].file \in attached' /\ fileSize'[call[u].file] = 0
                      /\ \A m \in Names : m_fileMap'[m] # call[u].file
                      /\ \A v \in Threads : stream'[v] # call[u].file
                      /\ \A v \in Threads \ {u} : call'[v].file # call[u].file
    BY <1>1, <1>2, <1>5 DEF NewIsUnused
  <2>1. call[u].file # f /\ call[u].file # None /\ call[u].file # e
    BY <1>2, <1>4, NoneAssumption DEF NewIsUnused, RInv, FileKnown, e
  <2> QED
    BY <1>1, <1>2, <1>3, <1>5, <1>8, <2>1 DEF NewIsUnused
<1>11. StreamIsMapped'
  <2>1. ASSUME NEW u \in Threads \ {t}, stream[u] # None
        PROVE  \E m \in Names : m_fileMap'[m] = stream[u]
    <3>1. PICK m \in Names : m_fileMap[m] = stream[u]
      BY <2>1 DEF StreamIsMapped
    <3>2. m # n
      BY <1>6, <2>1, <3>1 DEF e
    <3> QED
      BY <1>8, <3>1, <3>2
  <2>2. \E m \in Names : m_fileMap'[m] = f
    BY <1>2, <1>8
  <2> QED
    BY <1>1, <1>2, <1>4, <2>1, <2>2 DEF StreamIsMapped
<1>12. ChangedIsQuiet'
  <2> SUFFICES ASSUME NEW u \in Threads \ {t}, Changing(u)
               PROVE  /\ m_fileMap'[call[u].name] # None =>
                           \A v \in Threads : stream'[v] # m_fileMap'[call[u].name]
                      /\ \A v \in Threads \ {u} : Changing(v)' => call'[v].name # call[u].name
    BY <1>1, <1>2, <1>5 DEF ChangedIsQuiet, Changing
  <2>1. call[u].name # n /\ call[u].name \in Names
    BY <1>7 DEF RInv, FileKnown, Changing
  <2>2. m_fileMap'[call[u].name] = m_fileMap[call[u].name]
    BY <1>8, <2>1
  <2>3. \A v \in Threads \ {u} : Changing(v)' => call'[v].name # call[u].name
    BY <1>1, <1>2, <1>5 DEF ChangedIsQuiet, Changing
  <2>4. m_fileMap[call[u].name] # None =>
          \A v \in Threads : stream'[v] # m_fileMap[call[u].name]
    BY <1>1, <1>2, <1>4, <2>1 DEF ChangedIsQuiet
  <2> QED
    BY <2>2, <2>3, <2>4
<1>13. AddsToStream'
  BY <1>1, <1>2, <1>5 DEF AddsToStream
<1>14. BooksAgree'
  <2>1. /\ IsFiniteSet(Counted')
        /\ Cardinality(Counted') = Cardinality(Counted) - (IF e = None THEN 0 ELSE fileSize[e])
    BY <1>1, <1>2, <1>4, CountedLoses DEF BooksAgree, e
  <2>2. Uncounted' = Uncounted
    <3>1. ~OneUncounted(call[t])
      BY <1>2 DEF OneUncounted
    <3> QED
      BY <1>1, <1>2, <1>5, <3>1, UncountedKept
  <2>3. Cardinality(Counted) \in Nat /\ Cardinality(Uncounted) \in Nat
    BY FS_CardinalityType DEF BooksAgree
  <2>4. CASE e = None
    BY <1>3, <2>1, <2>2, <2>3, <2>4 DEF BooksAgree
  <2>5. CASE e # None
    <3>1. fileSize[e] \in Nat
      BY <1>1, <1>2, <2>5 DEF e
    <3> QED
      BY <1>1, <1>3, <2>1, <2>2, <2>3, <2>5, <3>1 DEF BooksAgree
  <2> QED
    BY <2>4, <2>5
<1> QED
  BY <1>9, <1>10, <1>11, <1>12, <1>13, <1>14

\* delete_file() takes a file that no stream writes out of the map.
LEMMA RemoveFileBooks ==
  ASSUME RInv, InBooks, NEW t \in Threads, RemoveFile(t)
  PROVE  InBooks'
<1> USE DEF InBooks
<1> DEFINE n == call[t].name
           e == m_fileMap[n]
<1>1. /\ call \in [Threads -> CallTyped] /\ stream \in [Threads -> Files \cup {None}]
      /\ m_fileMap \in [Names -> Files \cup {None}] /\ fileSize \in [Files -> Nat] /\ dirSize \in Int
  BY DEF RInv, TypeOK, CallTyped
<1>2. /\ call[t].at = "in" /\ call[t].op = "delete" /\ n \in Names /\ Changing(t)
      /\ m_fileMap' = [m_fileMap EXCEPT ![n] = None] /\ e # None /\ dirSize' = dirSize - fileSize[e]
      /\ call' = [call EXCEPT ![t] = Idle] /\ UNCHANGED <<fileSize, attached, stream>>
  BY DEF RemoveFile, Is, RInv, FileKnown, LeaveDirectory, Returns, Changing, file
<1>3. Idle \in CallTyped /\ Idle.at = "idle" /\ Idle.op = "size" /\ Idle.file = None /\ ~OneUncounted(Idle)
  BY DEF CallTyped, Idle, At, Ops, OneUncounted
<1>4. \A u \in Threads : stream[u] # e
  BY <1>2 DEF ChangedIsQuiet
<1> HIDE DEF n, e
<1>5. \A m \in Names : m_fileMap'[m] = IF m = n THEN None ELSE m_fileMap[m]
  BY <1>1, <1>2
<1>6. MappedOnce'
  BY <1>2, <1>5 DEF MappedOnce
<1>7. NewIsUnused'
  BY <1>1, <1>2, <1>3, <1>5, NoneAssumption DEF NewIsUnused, RInv, FileKnown
<1>8. StreamIsMapped'
  BY <1>2, <1>4, <1>5 DEF StreamIsMapped, e
<1>9. ChangedIsQuiet'
  BY <1>1, <1>2, <1>3, <1>5 DEF ChangedIsQuiet, Changing, RInv, FileKnown
<1>10. AddsToStream'
  BY <1>1, <1>2, <1>3 DEF AddsToStream
<1>11. BooksAgree'
  <2>1. /\ IsFiniteSet(Counted')
        /\ Cardinality(Counted') = Cardinality(Counted) - (IF e = None THEN 0 ELSE fileSize[e])
    BY <1>1, <1>2, CountedLoses DEF BooksAgree, e
  <2>2. Uncounted' = Uncounted
    <3>1. ~OneUncounted(call[t])
      BY <1>2 DEF OneUncounted
    <3> QED
      BY <1>1, <1>2, <1>3, <3>1, UncountedKept
  <2>3. Cardinality(Counted) \in Nat /\ Cardinality(Uncounted) \in Nat /\ fileSize[e] \in Nat
    BY <1>1, <1>2, FS_CardinalityType DEF BooksAgree, e
  <2> QED
    BY <1>1, <1>2, <2>1, <2>2, <2>3 DEF BooksAgree
<1> QED
  BY <1>6, <1>7, <1>8, <1>9, <1>10, <1>11

\* add_buffer() counts in the file, and then in the directory.
LEMMA AddBufferBooks ==
  ASSUME RInv, InBooks, NEW t \in Threads, Grow(t) \/ Count(t)
  PROVE  InBooks'
<1> USE DEF InBooks
<1>1. /\ call \in [Threads -> CallTyped] /\ stream \in [Threads -> Files \cup {None}]
      /\ m_fileMap \in [Names -> Files \cup {None}] /\ fileSize \in [Files -> Nat] /\ dirSize \in Int
  BY DEF RInv, TypeOK, CallTyped
<1>2. Cardinality(Counted) \in Nat /\ Cardinality(Uncounted) \in Nat
  BY FS_CardinalityType DEF BooksAgree
<1>3. CASE Grow(t)
  <2> DEFINE f == call[t].file
  <2>1. /\ call[t].at = "grow" /\ call[t].op = "add" /\ f = stream[t] /\ f \in Files
        /\ fileSize' = [fileSize EXCEPT ![f] = @ + 1] /\ call' = [call EXCEPT ![t].at = "pin"]
        /\ UNCHANGED <<m_fileMap, dirSize, attached, stream>>
    BY <1>3 DEF Grow, Goes, AddsToStream, directory, RInv, FileKnown
  <2> HIDE DEF f
  <2>2. PICK n \in Names : m_fileMap[n] = f
    BY <2>1, NoneAssumption DEF StreamIsMapped
  <2>3. MappedOnce' /\ StreamIsMapped'
    BY <2>1 DEF MappedOnce, StreamIsMapped
  <2>4. ChangedIsQuiet'
    BY <1>1, <2>1 DEF ChangedIsQuiet, Changing
  <2>5. NewIsUnused'
    BY <1>1, <2>1 DEF NewIsUnused
  <2>6. AddsToStream'
    BY <1>1, <2>1 DEF AddsToStream
  <2>7. IsFiniteSet(Counted') /\ Cardinality(Counted') = Cardinality(Counted) + 1
    BY <1>1, <2>1, <2>2, CountedGrows DEF BooksAgree
  <2>8. Uncounted' = Uncounted \cup {t} /\ t \notin Uncounted
    BY <1>1, <2>1 DEF Uncounted
  <2>9. IsFiniteSet(Uncounted') /\ Cardinality(Uncounted') = Cardinality(Uncounted) + 1
    BY <2>8, FS_AddElement DEF BooksAgree
  <2>10. BooksAgree'
    BY <1>1, <1>2, <2>1, <2>7, <2>9 DEF BooksAgree
  <2> QED
    BY <2>3, <2>4, <2>5, <2>6, <2>10
<1>4. CASE Count(t)
  <2>1. /\ call[t].at = "in" /\ call[t].op = "add" /\ dirSize' = dirSize + 1
        /\ call' = [call EXCEPT ![t] = Idle]
        /\ UNCHANGED <<m_fileMap, fileSize, attached, stream>>
    BY <1>4 DEF Count, Is, LeaveDirectory, Returns, file
  <2>2. Idle \in CallTyped /\ Idle.at = "idle" /\ Idle.op = "size" /\ Idle.file = None
    BY DEF CallTyped, Idle, At, Ops
  <2>3. MappedOnce' /\ StreamIsMapped'
    BY <2>1 DEF MappedOnce, StreamIsMapped
  <2>4. ChangedIsQuiet'
    BY <1>1, <2>1, <2>2 DEF ChangedIsQuiet, Changing
  <2>5. NewIsUnused'
    BY <1>1, <2>1, <2>2, NoneAssumption DEF NewIsUnused, RInv, FileKnown
  <2>6. AddsToStream'
    BY <1>1, <2>1, <2>2 DEF AddsToStream
  <2>7. Counted' = Counted
    BY <2>1 DEF Counted, Mapped, Buffers
  <2>8. Uncounted' = Uncounted \ {t} /\ t \in Uncounted
    BY <1>1, <2>1, <2>2 DEF Uncounted
  <2>9. IsFiniteSet(Uncounted') /\ Cardinality(Uncounted') = Cardinality(Uncounted) - 1
    BY <2>8, FS_RemoveElement DEF BooksAgree
  <2>10. BooksAgree'
    BY <1>1, <1>2, <2>1, <2>7, <2>9 DEF BooksAgree
  <2> QED
    BY <2>3, <2>4, <2>5, <2>6, <2>10
<1> QED
  BY <1>3, <1>4

\* A call goes on; one that uses the map finds it.
LEMMA ProceedBooks ==
  ASSUME RInv, InBooks, NEW t \in Threads, Proceed(t), hasMap
  PROVE  InBooks'
<1> USE DEF InBooks
<1>1. call \in [Threads -> CallTyped] /\ m_fileMap \in [Names -> Files \cup {None}]
  BY DEF RInv, TypeOK, CallTyped
<1>2. Idle \in CallTyped /\ Idle.at = "idle" /\ Idle.op = "size" /\ Idle.file = None /\ ~OneUncounted(Idle)
  BY DEF CallTyped, Idle, At, Ops, OneUncounted
<1>3. ASSUME Returns(t), ~OneUncounted(call[t]), UNCHANGED <<m_fileMap, dirSize, fileSize, attached, stream>>
      PROVE  InBooks'
  <2>1. \A u \in Threads \ {t} : call[u].op = "create" => Idle.file # call[u].file
    BY <1>2, OthersFile
  <2> QED
    BY <1>2, <1>3, <2>1, CallBooks DEF Returns
<1>4. ASSUME NEW at \in At, Goes(t, at), OneUncounted([call[t] EXCEPT !.at = at]) <=> OneUncounted(call[t]),
             at \in {"grow", "pin"} => call[t].op = "add",
             UNCHANGED <<m_fileMap, dirSize, fileSize, attached, stream>>
      PROVE  InBooks'
  <2> DEFINE c == [call[t] EXCEPT !.at = at]
  <2>1. /\ c \in CallTyped /\ c.at = at /\ c.op = call[t].op /\ c.name = call[t].name
        /\ c.file = call[t].file
    BY <1>1 DEF CallTyped
  <2>2. call' = [call EXCEPT ![t] = c]
    BY <1>1, <1>4 DEF Goes
  <2>3. OneUncounted(c) <=> OneUncounted(call[t])
    BY <1>4
  <2> HIDE DEF c
  <2>4. \A u \in Threads \ {t} : call[u].op = "create" => c.file # call[u].file
    BY <2>1, OthersFile
  <2>5. c.op = "add" => stream[t] # None /\ c.file = stream[t]
    BY <2>1 DEF AddsToStream
  <2> QED
    BY <1>4, <2>1, <2>2, <2>3, <2>4, <2>5, CallBooks
<1>5. CASE Enter(t)
  BY <1>1, <1>4, <1>5 DEF Enter, At, OneUncounted, CallTyped, file
<1>6. CASE Rejected(t) \/ Answer(t)
  <2>1. call[t].at = "in" /\ call[t].op # "add"
    BY <1>6 DEF Rejected, Answer, AsksInside, NeedsFile, Is
  <2>2. Returns(t) /\ UNCHANGED <<m_fileMap, dirSize, fileSize, attached, stream>>
    BY <1>6 DEF Rejected, Answer, LeaveDirectory, file
  <2> QED
    BY <1>3, <2>1, <2>2 DEF OneUncounted
<1>7. CASE NullMap(t)
  BY <1>7 DEF NullMap
<1>8. CASE Found(t)
  <2>1. /\ call[t].at = "in" /\ call[t].op = "find" /\ call[t].name \in Names
        /\ m_fileMap[call[t].name] # None
        /\ UNCHANGED <<m_fileMap, dirSize, fileSize, attached, stream>>
    BY <1>8 DEF Found, Is, RInv, FileKnown, file
  <2>2. CASE Returns(t)
    BY <1>3, <2>1, <2>2 DEF OneUncounted
  <2>3. ASSUME call' = [call EXCEPT ![t].at = "stamp", ![t].file = m_fileMap[call[t].name]]
        PROVE  InBooks'
    <3> DEFINE c == [call[t] EXCEPT !.at = "stamp", !.file = m_fileMap[call[t].name]]
    <3>1. /\ c \in CallTyped /\ c.at = "stamp" /\ c.op = "find"
          /\ c.file = m_fileMap[call[t].name]
      BY <1>1, <2>1 DEF CallTyped, At
    <3>2. call' = [call EXCEPT ![t] = c]
      BY <1>1, <2>3
    <3> HIDE DEF c
    <3>3. ~OneUncounted(c) /\ ~OneUncounted(call[t])
      BY <2>1, <3>1 DEF OneUncounted
    <3>4. \A u \in Threads \ {t} : call[u].op = "create" => c.file # call[u].file
      BY <2>1, <3>1, OthersFile
    <3> QED
      BY <2>1, <3>1, <3>2, <3>3, <3>4, CallBooks
  <2> QED
    BY <1>8, <2>2, <2>3 DEF Found
<1>9. CASE Stamp(t)
  BY <1>3, <1>9 DEF Stamp, OneUncounted, directory, file
<1>10. CASE Pin(t)
  <2>1. /\ call[t].at = "pin" /\ call[t].op = "add" /\ call[t].file = stream[t] /\ stream[t] # None
        /\ UNCHANGED <<m_fileMap, dirSize, fileSize, attached, stream>>
    BY <1>10 DEF Pin, AddsToStream, directory, file
  <2>2. call[t].file \in attached
    BY <2>1 DEF StreamIsMapped, MappedOnce
  <2>3. Goes(t, "want")
    BY <1>10, <2>2 DEF Pin
  <2>4. OneUncounted([call[t] EXCEPT !.at = "want"]) /\ OneUncounted(call[t])
    BY <1>1, <2>1 DEF OneUncounted, CallTyped
  <2> QED
    BY <1>4, <2>1, <2>3, <2>4 DEF At
<1> QED
  BY <1>5, <1>6, <1>7, <1>8, <1>9, <1>10, PutFileBooks, RemoveFileBooks, AddBufferBooks DEF Proceed

\* Nothing is counted in a directory that has no file yet.
LEMMA InitBooks == Init => InBooks
<1> SUFFICES ASSUME Init PROVE InBooks
  OBVIOUS
<1> USE DEF Init
<1>1. MappedOnce /\ NewIsUnused /\ StreamIsMapped /\ ChangedIsQuiet /\ AddsToStream
  BY DEF MappedOnce, NewIsUnused, StreamIsMapped, ChangedIsQuiet, AddsToStream, Changing, Idle
<1>2. Counted = {} /\ Uncounted = {}
  BY DEF Counted, Mapped, Uncounted, Idle
<1> QED
  BY <1>1, <1>2, FS_EmptySet DEF InBooks, BooksAgree

\* Every step keeps the books.
LEMMA NextBooks == RInv /\ Books /\ [Next]_vars => Books'
<1> SUFFICES ASSUME RInv, Books, [Next]_vars, ~disturbed', hasMap' PROVE InBooks'
  BY DEF Books
<1>1. CASE UNCHANGED vars
  BY <1>1 DEF vars, directory, file, Books, InBooks, MappedOnce, NewIsUnused, StreamIsMapped,
              ChangedIsQuiet, Changing, AddsToStream, BooksAgree, Counted, Mapped, Buffers, Uncounted
<1>2. CASE Close
  BY <1>2 DEF Close, file, Books, InBooks, MappedOnce, NewIsUnused, StreamIsMapped,
              ChangedIsQuiet, Changing, AddsToStream, BooksAgree, Counted, Mapped, Buffers, Uncounted
<1>3. CASE ResetMap
  BY <1>3 DEF ResetMap
<1>4. ASSUME NEW t \in Threads, Client(t) PROVE InBooks'
  <2>1. UNCHANGED hasMap
    BY <1>4 DEF Client, CreateOutput, DeleteFile, Find, Ask, AddBuffer, CloseStream, directory
  <2>2. ASSUME NEW n \in Names, Disturbs(n) PROVE ~disturbed
    BY <2>2 DEF Disturbs
  <2>3. ~disturbed
    BY <1>4, <2>2 DEF Client, CreateOutput, DeleteFile, Find, Ask, AddBuffer, CloseStream
  <2> QED
    BY <1>4, <2>1, <2>3, ClientBooks DEF Books
<1>5. ASSUME NEW t \in Threads, Proceed(t) PROVE InBooks'
  <2>1. UNCHANGED <<hasMap, disturbed>>
    BY <1>5 DEF Proceed, Enter, Rejected, NullMap, PutFile, RemoveFile, Answer, Found, Stamp, Grow,
                Pin, Count, directory
  <2> QED
    BY <1>5, <2>1, ProceedBooks DEF Books
<1> QED
  BY <1>1, <1>2, <1>3, <1>4, <1>5 DEF Next

\* The counter of the directory is the sum of those of its files, less what
\* add_buffer() has not counted yet, at every moment of every interleaving, as
\* long as no file is deleted or replaced that is written.
THEOREM SizeIsExact == Spec => []SizeExact
<1>1. Init => Books
  BY InitBooks DEF Books
<1>2. Books => SizeExact
  BY DEF Books, InBooks, BooksAgree, SizeExact
<1> QED
  BY Invariant, NextBooks, <1>1, <1>2, PTL DEF Spec

-----------------------------------------------------------------------------
(* SingleInstanceLockFactory *)

\* Who is inside of the container has the Synchronize of its lock.
Guarded ==
  \A c \in Clients : pc[c] \in Inside => syncOf[c] \in Syncs /\ syncOwner[syncOf[c]] = c

\* All that are have the same one.
OneSync == \A c, d \in Clients : {pc[c], pc[d]} \subseteq Inside => syncOf[c] = syncOf[d]

OneHolder == \A c, d \in Clients : {pc[c], pc[d]} \subseteq {"held", "erase"} => c = d

HeldIsLocked == \A c \in Clients : pc[c] \in {"held", "erase"} => locked

InsertIsNew == \A c \in Clients : pc[c] = "insert" => ~locked

\* The inductive invariant.
ContainerInv ==
  /\ pc \in [Clients -> Pc]
  /\ syncOf \in [Clients -> Syncs \cup {Nobody}]
  /\ syncOwner \in [Syncs -> Clients \cup {Nobody}]
  /\ Guarded
  /\ ~raced => OneSync /\ OneHolder /\ HeldIsLocked /\ InsertIsNew

-----------------------------------------------------------------------------
(* The invariant of the container *)

\* What is needed of an assignment to pc[c].
LEMMA ClientGoesFacts ==
  ASSUME pc \in [Clients -> Pc], NEW c \in Clients, NEW from, NEW to \in Pc, ClientGoes(c, from, to)
  PROVE  /\ pc' \in [Clients -> Pc]
         /\ pc[c] = from /\ pc'[c] = to
         /\ \A d \in Clients : d # c => pc'[d] = pc[d]
BY DEF ClientGoes

\* A client that gets the Synchronize of its lock is alone in the container, if
\* the others are there under the same one.
LEMMA EnterSyncFacts ==
  ASSUME ContainerInv, NEW c \in Clients, EnterSync(c)
  PROVE  /\ syncOf' \in [Clients -> Syncs \cup {Nobody}]
         /\ syncOwner' \in [Syncs -> Clients \cup {Nobody}]
         /\ syncOf'[c] \in Syncs /\ syncOwner'[syncOf'[c]] = c
         /\ \A d \in Clients \ {c} : pc[d] \in Inside =>
               syncOf'[d] = syncOf[d] /\ syncOwner'[syncOf'[d]] = d
         /\ ~raced' => ~raced /\ \A d \in Clients : pc[d] \notin Inside
<1> DEFINE s == IF syncOf[c] = Nobody THEN c ELSE syncOf[c]
<1>1. /\ s \in Syncs /\ syncOwner[s] = Nobody
      /\ syncOf' = [syncOf EXCEPT ![c] = s] /\ syncOwner' = [syncOwner EXCEPT ![s] = c]
      /\ raced' = (raced \/ \E d \in Clients : pc[d] \in Inside /\ syncOf[d] # s)
  BY DEF EnterSync, ContainerInv, Syncs
<1>2. \A d \in Clients : pc[d] \in Inside => syncOf[d] \in Syncs /\ syncOwner[syncOf[d]] = d
  BY DEF ContainerInv, Guarded
<1>3. \A d \in Clients : pc[d] \in Inside => syncOf[d] # s
  BY <1>1, <1>2, ClientsAssumption
<1> HIDE DEF s
<1> QED
  BY <1>1, <1>2, <1>3 DEF ContainerInv

\* A client that leaves the container leaves the Synchronizes of the others alone.
LEMMA LeaveSyncFacts ==
  ASSUME ContainerInv, NEW c \in Clients, LeaveSync(c), pc[c] \in Inside
  PROVE  /\ syncOwner' \in [Syncs -> Clients \cup {Nobody}]
         /\ \A d \in Clients \ {c} : pc[d] \in Inside => syncOwner'[syncOf[d]] = d
<1>1. \A d \in Clients : pc[d] \in Inside => syncOf[d] \in Syncs /\ syncOwner[syncOf[d]] = d
  BY DEF ContainerInv, Guarded
<1>2. \A d \in Clients \ {c} : pc[d] \in Inside => syncOf[d] # syncOf[c]
  BY <1>1
<1> QED
  BY <1>1, <1>2 DEF LeaveSync, ContainerInv

\* The initial state satisfies the invariant.
LEMMA InitContainerInv == LockInit => ContainerInv
BY DEF LockInit, ContainerInv, Guarded, OneSync, OneHolder, HeldIsLocked, InsertIsNew, Pc, Inside

\* Each step keeps it.
LEMMA NextContainerInv == ContainerInv /\ [LockNext]_lockVars => ContainerInv'
<1> SUFFICES ASSUME ContainerInv, [LockNext]_lockVars PROVE ContainerInv'
  OBVIOUS
<1> USE DEF Pc, Inside
<1>0. pc \in [Clients -> Pc]
  BY DEF ContainerInv
<1>1. CASE ClearLock
  BY <1>1 DEF ClearLock, ContainerInv, Guarded, OneSync, OneHolder, HeldIsLocked, InsertIsNew
<1>2. ASSUME NEW c \in Clients,
             \/ MakeLock(c) \/ Drop(c) \/ Obtain(c) \/ AddFinds(c) \/ AddFindsNone(c)
             \/ Insert(c) \/ Release(c) \/ Erase(c) \/ IsLocked(c) \/ Contains(c)
      PROVE  ContainerInv'
  <2>1. CASE MakeLock(c)
    <3>1. syncOf' \in [Clients -> Syncs \cup {Nobody}] /\ \A d \in Clients \ {c} : syncOf'[d] = syncOf[d]
      BY <2>1 DEF MakeLock, ContainerInv, Syncs
    <3> QED
      BY <1>0, <2>1, <3>1, ClientGoesFacts DEF MakeLock, ContainerInv, Guarded, OneSync, OneHolder, HeldIsLocked, InsertIsNew
  <2>2. CASE Drop(c)
    BY <1>0, <2>2, ClientGoesFacts DEF Drop, ContainerInv, Guarded, OneSync, OneHolder, HeldIsLocked, InsertIsNew
  <2>3. CASE AddFindsNone(c)
    BY <1>0, <2>3, ClientGoesFacts DEF AddFindsNone, ContainerInv, Guarded, OneSync, OneHolder, HeldIsLocked, InsertIsNew
  <2>4. CASE Obtain(c)
    <3>1. EnterSync(c) /\ locked' = locked
      BY <2>4 DEF Obtain
    <3>2. /\ pc' \in [Clients -> Pc] /\ pc[c] = "idle" /\ pc'[c] = "add"
          /\ \A d \in Clients \ {c} : pc'[d] = pc[d]
      BY <1>0, <2>4, ClientGoesFacts DEF Obtain
    <3>3. Guarded'
      BY <3>1, <3>2, EnterSyncFacts DEF ContainerInv, Guarded
    <3>4. ~raced' => OneSync' /\ OneHolder' /\ HeldIsLocked' /\ InsertIsNew'
      BY <3>1, <3>2, EnterSyncFacts DEF ContainerInv, OneSync, OneHolder, HeldIsLocked, InsertIsNew
    <3> QED
      BY <3>1, <3>2, <3>3, <3>4, EnterSyncFacts DEF ContainerInv
  <2>5. CASE Release(c)
    <3>1. EnterSync(c) /\ locked' = locked
      BY <2>5 DEF Release
    <3>2. /\ pc' \in [Clients -> Pc] /\ pc[c] = "held" /\ pc'[c] = "erase"
          /\ \A d \in Clients \ {c} : pc'[d] = pc[d]
      BY <1>0, <2>5, ClientGoesFacts DEF Release
    <3>3. Guarded'
      BY <3>1, <3>2, EnterSyncFacts DEF ContainerInv, Guarded
    <3>4. ~raced' => OneSync' /\ OneHolder' /\ HeldIsLocked' /\ InsertIsNew'
      BY <3>1, <3>2, EnterSyncFacts DEF ContainerInv, OneSync, OneHolder, HeldIsLocked, InsertIsNew
    <3> QED
      BY <3>1, <3>2, <3>3, <3>4, EnterSyncFacts DEF ContainerInv
  <2>6. CASE IsLocked(c)
    <3>1. EnterSync(c) /\ locked' = locked
      BY <2>6 DEF IsLocked
    <3>2. /\ pc' \in [Clients -> Pc] /\ pc[c] = "idle" /\ pc'[c] = "find"
          /\ \A d \in Clients \ {c} : pc'[d] = pc[d]
      BY <1>0, <2>6, ClientGoesFacts DEF IsLocked
    <3>3. Guarded'
      BY <3>1, <3>2, EnterSyncFacts DEF ContainerInv, Guarded
    <3>4. ~raced' => OneSync' /\ OneHolder' /\ HeldIsLocked' /\ InsertIsNew'
      BY <3>1, <3>2, EnterSyncFacts DEF ContainerInv, OneSync, OneHolder, HeldIsLocked, InsertIsNew
    <3> QED
      BY <3>1, <3>2, <3>3, <3>4, EnterSyncFacts DEF ContainerInv
  <2>7. CASE AddFinds(c)
    <3>1. /\ pc' \in [Clients -> Pc] /\ pc[c] = "add" /\ pc'[c] = "idle"
          /\ \A d \in Clients \ {c} : pc'[d] = pc[d]
      BY <1>0, <2>7, ClientGoesFacts DEF AddFinds
    <3>2. LeaveSync(c) /\ syncOf' = syncOf /\ raced' = raced
      BY <2>7 DEF AddFinds
    <3>3. Guarded'
      BY <3>1, <3>2, LeaveSyncFacts DEF ContainerInv, Guarded
    <3>4. ASSUME ~raced PROVE \A d \in Clients \ {c} : pc[d] \notin Inside
      BY <3>1, <3>4 DEF ContainerInv, Guarded, OneSync
    <3>5. ~raced' => OneSync' /\ OneHolder' /\ HeldIsLocked' /\ InsertIsNew'
      BY <2>7, <3>1, <3>2, <3>4 DEF AddFinds, ContainerInv, OneSync, OneHolder, HeldIsLocked, InsertIsNew
    <3> QED
      BY <3>1, <3>2, <3>3, <3>5, LeaveSyncFacts DEF ContainerInv
  <2>8. CASE Insert(c)
    <3>1. /\ pc' \in [Clients -> Pc] /\ pc[c] = "insert" /\ pc'[c] = "held"
          /\ \A d \in Clients \ {c} : pc'[d] = pc[d]
      BY <1>0, <2>8, ClientGoesFacts DEF Insert
    <3>2. LeaveSync(c) /\ syncOf' = syncOf /\ raced' = raced
      BY <2>8 DEF Insert
    <3>3. Guarded'
      BY <3>1, <3>2, LeaveSyncFacts DEF ContainerInv, Guarded
    <3>4. ASSUME ~raced PROVE \A d \in Clients \ {c} : pc[d] \notin Inside
      BY <3>1, <3>4 DEF ContainerInv, Guarded, OneSync
    <3>5. ~raced' => OneSync' /\ OneHolder' /\ HeldIsLocked' /\ InsertIsNew'
      BY <2>8, <3>1, <3>2, <3>4 DEF Insert, ContainerInv, OneSync, OneHolder, HeldIsLocked, InsertIsNew
    <3> QED
      BY <3>1, <3>2, <3>3, <3>5, LeaveSyncFacts DEF ContainerInv
  <2>9. CASE Erase(c)
    <3>1. /\ pc' \in [Clients -> Pc] /\ pc[c] = "erase" /\ pc'[c] = "idle"
          /\ \A d \in Clients \ {c} : pc'[d] = pc[d]
      BY <1>0, <2>9, ClientGoesFacts DEF Erase
    <3>2. LeaveSync(c) /\ syncOf' = syncOf /\ raced' = raced
      BY <2>9 DEF Erase
    <3>3. Guarded'
      BY <3>1, <3>2, LeaveSyncFacts DEF ContainerInv, Guarded
    <3>4. ASSUME ~raced PROVE \A d \in Clients \ {c} : pc[d] \notin Inside
      BY <3>1, <3>4 DEF ContainerInv, Guarded, OneSync
    <3>5. ~raced' => OneSync' /\ OneHolder' /\ HeldIsLocked' /\ InsertIsNew'
      BY <2>9, <3>1, <3>2, <3>4 DEF Erase, ContainerInv, OneSync, OneHolder, HeldIsLocked, InsertIsNew
    <3> QED
      BY <3>1, <3>2, <3>3, <3>5, LeaveSyncFacts DEF ContainerInv
  <2>10. CASE Contains(c)
    <3>1. /\ pc' \in [Clients -> Pc] /\ pc[c] = "find" /\ pc'[c] = "idle"
          /\ \A d \in Clients \ {c} : pc'[d] = pc[d]
      BY <1>0, <2>10, ClientGoesFacts DEF Contains
    <3>2. LeaveSync(c) /\ syncOf' = syncOf /\ raced' = raced
      BY <2>10 DEF Contains
    <3>3. Guarded'
      BY <3>1, <3>2, LeaveSyncFacts DEF ContainerInv, Guarded
    <3>4. ASSUME ~raced PROVE \A d \in Clients \ {c} : pc[d] \notin Inside
      BY <3>1, <3>4 DEF ContainerInv, Guarded, OneSync
    <3>5. ~raced' => OneSync' /\ OneHolder' /\ HeldIsLocked' /\ InsertIsNew'
      BY <2>10, <3>1, <3>2, <3>4 DEF Contains, ContainerInv, OneSync, OneHolder, HeldIsLocked, InsertIsNew
    <3> QED
      BY <3>1, <3>2, <3>3, <3>5, LeaveSyncFacts DEF ContainerInv
  <2> QED
    BY <1>2, <2>1, <2>2, <2>3, <2>4, <2>5, <2>6, <2>7, <2>8, <2>9, <2>10
<1>3. CASE UNCHANGED lockVars
  BY <1>3 DEF lockVars, ContainerInv, Guarded, OneSync, OneHolder, HeldIsLocked, InsertIsNew
<1> QED
  BY <1>1, <1>2, <1>3 DEF LockNext

-----------------------------------------------------------------------------
(* Its names are exclusive locks *)

\* The holder is the owner, and the name is in the container.
LEMMA HolderFacts ==
  ASSUME ContainerInv, ~raced, NEW c \in Clients, pc[c] \in {"held", "erase"}
  PROVE  holders = {c} /\ Owners = {c} /\ locked
<1>1. holders = {c} /\ locked
  BY DEF ContainerInv, OneHolder, HeldIsLocked, holders
<1> QED
  BY <1>1 DEF Owners

\* A step that leaves the container and the holders alone leaves the owners alone.
LEMMA SameOwners ==
  ASSUME ContainerInv, NEW c \in Clients, NEW from \in Pc, NEW to \in Pc, ClientGoes(c, from, to),
         locked' = locked, from \in {"held", "erase"} <=> to \in {"held", "erase"}
  PROVE  Owners' = Owners
<1>1. \A d \in Clients : pc'[d] \in {"held", "erase"} <=> pc[d] \in {"held", "erase"}
  BY ClientGoesFacts DEF ContainerInv
<1>2. holders' = holders
  BY <1>1 DEF holders
<1> QED
  BY <1>2 DEF Owners

\* Until two are in the container under different Synchronizes, each step is one of
\* the exclusive lock.
LEMMA NextExclusive ==
  ASSUME ContainerInv, ContainerInv', LockNext, ~raced'
  PROVE  Exclusive!Next \/ UNCHANGED Owners
<1> USE DEF Pc, Inside
<1>0. pc \in [Clients -> Pc]
  BY DEF ContainerInv
<1>1. CASE ClearLock
  <2>1. holders = {} /\ holders' = {} /\ ~locked'
    BY <1>1 DEF ClearLock, holders
  <2> QED
    BY <2>1 DEF Owners, Exclusive!Next, Exclusive!Clear
<1>2. ASSUME NEW c \in Clients,
             \/ MakeLock(c) \/ Drop(c) \/ Obtain(c) \/ AddFinds(c) \/ AddFindsNone(c)
             \/ Insert(c) \/ Release(c) \/ Erase(c) \/ IsLocked(c) \/ Contains(c)
      PROVE  Exclusive!Next \/ UNCHANGED Owners
  <2>1. CASE MakeLock(c)
    BY <2>1, SameOwners DEF MakeLock
  <2>2. CASE Drop(c)
    <3>1. CASE ClientGoes(c, "idle", "none")
      BY <2>2, <3>1, SameOwners DEF Drop
    <3>2. CASE ClientGoes(c, "held", "none")
      <4>1. holders = {c} /\ Owners = {c} /\ locked /\ locked'
        BY <2>2, <3>2, HolderFacts DEF Drop, ClientGoes
      <4>2. holders' = {}
        BY <1>0, <3>2, <4>1, ClientGoesFacts DEF holders
      <4>3. Owners' = {Stale}
        BY <4>1, <4>2 DEF Owners
      <4> QED
        BY <4>1, <4>3 DEF Exclusive!Next, Exclusive!Abandon
    <3> QED
      BY <2>2, <3>1, <3>2 DEF Drop
  <2>3. CASE Obtain(c)
    BY <2>3, SameOwners DEF Obtain
  <2>4. CASE AddFinds(c)
    BY <2>4, SameOwners DEF AddFinds
  <2>5. CASE AddFindsNone(c)
    BY <2>5, SameOwners DEF AddFindsNone
  <2>6. CASE Insert(c)
    <3>1. /\ pc[c] = "insert" /\ pc'[c] = "held" /\ ~raced
      BY <1>0, <2>6, ClientGoesFacts DEF Insert
    <3>2. Owners = {}
      BY <3>1 DEF ContainerInv, HeldIsLocked, InsertIsNew, Owners, holders
    <3>3. Owners' = {c}
      BY <3>1 DEF ContainerInv, OneHolder, Owners, holders
    <3> QED
      BY <3>2, <3>3 DEF Exclusive!Next, Exclusive!Obtain
  <2>7. CASE Release(c)
    BY <2>7, SameOwners DEF Release
  <2>8. CASE Erase(c)
    <3>1. ClientGoes(c, "erase", "idle") /\ ~raced /\ ~locked'
      BY <2>8 DEF Erase
    <3>2. holders = {c} /\ Owners = {c}
      BY <3>1, HolderFacts DEF ClientGoes
    <3>3. holders' = {}
      BY <1>0, <3>1, <3>2, ClientGoesFacts DEF holders
    <3>4. Owners' = {}
      BY <3>1, <3>3 DEF Owners
    <3> QED
      BY <3>2, <3>4 DEF Exclusive!Next, Exclusive!Release
  <2>9. CASE IsLocked(c)
    BY <2>9, SameOwners DEF IsLocked
  <2>10. CASE Contains(c)
    BY <2>10, SameOwners DEF Contains
  <2> QED
    BY <1>2, <2>1, <2>2, <2>3, <2>4, <2>5, <2>6, <2>7, <2>8, <2>9, <2>10
<1> QED
  BY <1>1, <1>2 DEF LockNext

\* ExclusiveSpec of SingleInstanceLock: of any number of clients, one at a time
\* has the lock, which stays locked when its holder is destroyed, whichever
\* Synchronizes the locks use, until two are in the container under two of them.
THEOREM ImplementsExclusiveLock == LockSpec => ExclusiveSpec
<1>1. LockInit => Exclusive!Init
  BY DEF LockInit, Exclusive!Init, Owners, holders
<1>2. ContainerInv /\ ContainerInv' /\ [LockNext]_lockVars => [~raced' => Exclusive!Next]_Owners
  <2>1. UNCHANGED lockVars => UNCHANGED Owners
    BY DEF lockVars, Owners, holders
  <2> QED
    BY <2>1, NextExclusive
<1> QED
  BY <1>1, <1>2, InitContainerInv, NextContainerInv, PTL DEF LockSpec, ExclusiveSpec
=============================================================================
