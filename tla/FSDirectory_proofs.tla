--------------------------- MODULE FSDirectory_proofs ---------------------------
(***************************************************************************)
(* What holds of FSDirectory, and of the locks of its directories in       *)
(* LockScope, whatever the constants are.  The invariants of FSDirectory   *)
(* are in layers: Base says what is in the file system and what a thread   *)
(* has by where its call is; Sharing, who writes to a file; Copying, how   *)
(* far a copy() is.  Each layer is kept by a step because of the ones      *)
(* below it, and a step is known by what it does to the calls (Moves), to  *)
(* the names (EntrySteps) and to the files (StepKinds, FileKinds).         *)
(***************************************************************************)
EXTENDS FSDirectory, LockScope, FiniteSetTheorems, SequenceTheorems, TLAPS

\* Of each file, what sync() has answered for is stable.
GoodFiles(f) ==
  /\ f \in [Inodes -> Files]
  /\ \A i \in Inodes : f[i].safe <= f[i].stable /\ f[i].stable <= Len(f[i].data)

\* The inode of a name was made for it.
Named(e) ==
  /\ e \in [Dirs -> [Names -> Inodes \cup {None}]]
  /\ \A d \in Dirs, n \in Names : e[d][n] # None => e[d][n][1] = d /\ e[d][n][2] = n

\* The files are as they should be, with their names now and on stable storage.
Stored ==
  /\ setup \in Setups /\ dirExists \subseteq Dirs /\ failures \in Nat
  /\ entry \in [Dirs -> [Names -> Inodes \cup {None}]]
  /\ \A d \in Dirs, n \in Names :
       entry[d][n] # None => entry[d][n][1] = d /\ entry[d][n][2] = n
  /\ Named(onDisk) /\ GoodFiles(file)
  /\ m_isOpen \in [Dirs -> BOOLEAN] /\ m_checked \in [Dirs -> BOOLEAN]

-----------------------------------------------------------------------------
(* Where a thread is *)

\* What a thread has outside of a copy(), and inside.
OutsideCopy(c, o, i) ==
  /\ c.pc \notin Between
  /\ o # None => c.pc = "idle" /\ i = None
  /\ i # None => c.pc \in {"idle", "length"}
  /\ c.pc = "length" => i # None
InsideCopy(c, o, i, p) ==
  /\ c.pc \in Making \cup Between \cup {"openin", "length"} /\ ~c.overlaps
  /\ c.pc # "next" => p.name \in Names
  /\ c.pc \in Making => c.dir = Dest /\ c.name = p.name
  /\ c.pc \in {"openin", "length"} => c.dir = Src /\ c.name = p.name
  /\ o # None => c.pc \in {"source", "openin", "length", "copying", "cleanup"}
  /\ i # None => c.pc \in {"length", "copying", "cleanup"} /\ o # None
  /\ c.pc \in {"source", "openin", "length", "copying"} => o # None
  /\ c.pc \in {"length", "copying"} => i # None
  /\ c.pc = "cleanup" /\ p.finally = "Null" => i # None
  /\ c.pc # "cleanup" => p.finally = "Null"

MaxTries == IF SyncTries > LengthTries THEN SyncTries ELSE LengthTries

\* The call of a thread fits its streams and its copy().
Fits(c, o, i, p) ==
  /\ c \in Calls /\ o \in Outputs \cup {None} /\ i \in Inputs \cup {None} /\ p \in Copies \cup {None}
  /\ c.tries <= MaxTries
  /\ c.pc \notin {"idle"} \cup Between => c.dir \in Dirs /\ c.name \in Names
  /\ c.pc = "fsync" <=> c.fd # None
  /\ c.overlaps => c.pc \in Making
  /\ o # None => o.put <= Len(o.wrote) /\ (o.good => o.ino # None)
  /\ IF p = None THEN OutsideCopy(c, o, i) ELSE InsideCopy(c, o, i, p)

Placed ==
  /\ call \in [Threads -> Calls] /\ out \in [Threads -> Outputs \cup {None}]
  /\ in \in [Threads -> Inputs \cup {None}] /\ copy \in [Threads -> Copies \cup {None}]
  /\ \A t \in Threads : Fits(call[t], out[t], in[t], copy[t])

-----------------------------------------------------------------------------
(* What a write makes of a file *)

\* A write makes no file shorter.
LEMMA OverwriteType ==
  ASSUME NEW d \in Seq(Blocks), NEW p \in Nat, NEW bs \in Seq(Blocks)
  PROVE  /\ Overwrite(d, p, bs) \in Seq(Blocks)
         /\ Len(Overwrite(d, p, bs)) >= Len(d)
<1>1. CASE bs = <<>>
  BY <1>1 DEF Overwrite
<1>2. CASE bs # <<>>
  <2> DEFINE n == IF p + Len(bs) > Len(d) THEN p + Len(bs) ELSE Len(d)
             o == [i \in 1..n |->
                    IF i \in (p + 1)..(p + Len(bs)) THEN bs[i - p]
                    ELSE IF i \in DOMAIN d THEN d[i] ELSE Zero]
  <2>1. n \in Nat /\ n >= Len(d)
    OBVIOUS
  <2>2. Overwrite(d, p, bs) = o
    BY <1>2 DEF Overwrite
  <2>3. ASSUME NEW i \in 1..n PROVE o[i] \in Blocks
    BY DEF Blocks
  <2>4. o \in Seq(Blocks) /\ Len(o) = n
    <3> HIDE DEF n
    <3>1. o \in [1..n -> Blocks]
      BY <2>3
    <3> HIDE DEF o
    <3> QED
      BY <2>1, <3>1, SeqDef
  <2> QED
    BY <2>1, <2>2, <2>4
<1> QED
  BY <1>1, <1>2

\* A write at the end of what has been put there goes on with it.
LEMMA OverwriteAppends ==
  ASSUME NEW w \in Seq(Blocks), NEW p \in Nat, p <= Len(w)
  PROVE  Overwrite(SubSeq(w, 1, p), p, SubSeq(w, p + 1, Len(w))) = w
<1> DEFINE d == SubSeq(w, 1, p)
           bs == SubSeq(w, p + 1, Len(w))
<1>1. Len(w) \in Nat
  OBVIOUS
<1>2. d \in Seq(Blocks) /\ Len(d) = p /\ \A i \in 1..p : d[i] = w[i]
  BY <1>1
<1>3. bs \in Seq(Blocks) /\ Len(bs) = Len(w) - p /\ \A i \in 1..Len(bs) : bs[i] = w[i + p]
  BY <1>1
<1>4. CASE bs = <<>>
  <2>1. p = Len(w)
    <3> HIDE DEF bs
    <3> QED
      BY <1>1, <1>3, <1>4
  <2>2. Overwrite(d, p, bs) = d
    BY <1>4 DEF Overwrite
  <2> QED
    BY <2>1, <2>2, SubSeqFull
<1>5. CASE bs # <<>>
  <2> DEFINE o == Overwrite(d, p, bs)
             n == IF p + Len(bs) > Len(d) THEN p + Len(bs) ELSE Len(d)
  <2>1. n = Len(w)
    BY <1>1, <1>2, <1>3
  <2>2. o = [i \in 1..n |->
               IF i \in (p + 1)..(p + Len(bs)) THEN bs[i - p]
               ELSE IF i \in DOMAIN d THEN d[i] ELSE Zero]
    BY <1>5 DEF Overwrite
  <2> HIDE DEF o, n, d, bs
  <2>3. ASSUME NEW i \in 1..Len(w) PROVE o[i] = w[i]
    <3>1. CASE i \in 1..p
      <4>1. DOMAIN d = 1..p /\ i \notin (p + 1)..(p + Len(bs))
        BY <1>1, <1>2, <3>1
      <4> QED
        BY <1>2, <2>1, <2>2, <3>1, <4>1
    <3>2. CASE i \in (p + 1)..Len(w)
      <4>1. i \in (p + 1)..(p + Len(bs)) /\ i - p \in 1..Len(bs) /\ (i - p) + p = i
        BY <1>1, <1>3, <3>2
      <4> QED
        BY <1>3, <2>1, <2>2, <4>1
    <3> QED
      BY <1>1, <3>1, <3>2
  <2>4. o \in Seq(Blocks) /\ Len(o) = Len(w)
    <3>1. o \in [1..Len(w) -> Blocks]
      <4>1. \A i \in 1..Len(w) : w[i] \in Blocks
        OBVIOUS
      <4> QED
        BY <2>1, <2>2, <2>3, <4>1
    <3> QED
      BY <1>1, <3>1, SeqDef
  <2> QED
    BY <2>3, <2>4, SeqEqual DEF o, d, bs
<1> QED
  BY <1>4, <1>5

LEMMA PrefixGrows ==
  ASSUME NEW w \in Seq(Blocks), NEW p \in Nat, NEW q \in Nat, p <= q, q <= Len(w)
  PROVE  IsPrefix(SubSeq(w, 1, p), SubSeq(w, 1, q))
BY DEF IsPrefix

LEMMA PrefixSame ==
  ASSUME NEW w \in Seq(Blocks) PROVE IsPrefix(w, w)
BY DEF IsPrefix

LEMMA AppendKeeps ==
  ASSUME NEW w \in Seq(Blocks), NEW p \in Nat, p <= Len(w), NEW b
  PROVE  SubSeq(Append(w, b), 1, p) = SubSeq(w, 1, p)
OBVIOUS

\* In a step of t, another thread stays as it is, but for the creation of its
\* file that it may overlap with now.
Stays(u) ==
  /\ \/ call'[u] = call[u]
     \/ call[u].pc \in Making /\ copy[u] = None /\ call'[u] = [call[u] EXCEPT !.overlaps = TRUE]
  /\ out'[u] = out[u] /\ in'[u] = in[u] /\ copy'[u] = copy[u]
Moves(t) ==
  /\ call' = [u \in Threads |-> call'[u]] /\ out' = [u \in Threads |-> out'[u]]
  /\ in' = [u \in Threads |-> in'[u]] /\ copy' = [u \in Threads |-> copy'[u]]
  /\ \A u \in Threads \ {t} : Stays(u)
  /\ Fits(call'[t], out'[t], in'[t], copy'[t])

LEMMA MovesPlaced ==
  ASSUME Placed, NEW t \in Threads, Moves(t) PROVE Placed'
<1>1. ASSUME NEW u \in Threads PROVE Fits(call'[u], out'[u], in'[u], copy'[u])
  <2>1. CASE u = t
    BY <2>1 DEF Moves
  <2>2. CASE u # t
    <3>1. Fits(call[u], out[u], in[u], copy[u])
      BY DEF Placed
    <3>2. Stays(u)
      BY <2>2 DEF Moves
    <3>3. CASE call'[u] = call[u]
      BY <3>1, <3>2, <3>3 DEF Stays
    <3>4. CASE call[u].pc \in Making /\ copy[u] = None /\ call'[u] = [call[u] EXCEPT !.overlaps = TRUE]
      <4>1. /\ call'[u] \in Calls
            /\ call'[u].pc = call[u].pc /\ call'[u].tries = call[u].tries /\ call'[u].dir = call[u].dir
            /\ call'[u].name = call[u].name /\ call'[u].fd = call[u].fd
        BY <3>1, <3>4 DEF Fits, Calls
      <4> QED
        BY <3>1, <3>2, <3>4, <4>1 DEF Stays, Fits, OutsideCopy
    <3> QED
      BY <3>2, <3>3, <3>4 DEF Stays
  <2> QED
    BY <2>1, <2>2
<1>2. /\ call' \in [Threads -> Calls] /\ out' \in [Threads -> Outputs \cup {None}]
      /\ in' \in [Threads -> Inputs \cup {None}] /\ copy' \in [Threads -> Copies \cup {None}]
  BY <1>1 DEF Moves, Fits
<1> QED
  BY <1>1, <1>2 DEF Placed

LEMMA GoesToOnly ==
  ASSUME Placed, NEW t \in Threads, NEW pc, GoesTo(t, pc)
  PROVE  /\ call' = [u \in Threads |-> call'[u]]
         /\ call'[t] = [call[t] EXCEPT !.pc = pc] /\ \A u \in Threads \ {t} : call'[u] = call[u]
BY DEF GoesTo, Placed

LEMMA ReturnsOnly ==
  ASSUME Placed, NEW t \in Threads, NEW pc, Returns(t, pc)
  PROVE  /\ call' = [u \in Threads |-> call'[u]] /\ copy' = copy
         /\ call'[t] = [Idle EXCEPT !.pc = IF copy[t] = None THEN "idle" ELSE pc]
         /\ \A u \in Threads \ {t} : call'[u] = call[u]
BY DEF Returns, Placed

LEMMA ThrowsOnly ==
  ASSUME Placed, NEW t \in Threads, NEW e, Throws(t, e)
  PROVE  /\ call' = [u \in Threads |-> call'[u]] /\ copy' = [u \in Threads |-> copy'[u]]
         /\ call'[t] = [Idle EXCEPT !.pc = IF copy[t] = None THEN "idle" ELSE "cleanup"]
         /\ copy'[t] = IF copy[t] = None THEN None ELSE [copy[t] EXCEPT !.finally = e]
         /\ \A u \in Threads \ {t} : call'[u] = call[u] /\ copy'[u] = copy[u]
BY DEF Throws, Placed

\* A call that has ended, or is between those of a copy().
AtRest(c, pc) == c \in Calls /\ c.pc = pc /\ c.tries = 0 /\ c.fd = None /\ c.overlaps = FALSE

LEMMA EndedCall ==
  ASSUME NEW pc \in {"idle"} \cup Between
  PROVE  AtRest([Idle EXCEPT !.pc = pc], pc) /\ AtRest(Idle, "idle")
BY DEF Idle, Calls, Between, Making, AtRest

LEMMA IdleFits ==
  ASSUME NEW c, AtRest(c, "idle"),
         NEW o \in Outputs \cup {None}, NEW i \in Inputs \cup {None}, o = None \/ i = None,
         o # None => o.put <= Len(o.wrote) /\ (o.good => o.ino # None)
  PROVE  Fits(c, o, i, None)
BY TriesAssumption DEF AtRest, Calls, Making, Between, Fits, OutsideCopy, MaxTries

LEMMA TargetType ==
  ASSUME Stored, NEW t \in Threads, call[t].dir \in Dirs, call[t].name \in Names
  PROVE  Target(t) \in Inodes \cup {None}
BY DEF Target, Stored

\* What a thread does with its call, and that the rest fits.
LEMMA ThrowsMoves ==
  ASSUME Placed, NEW t \in Threads, NEW e \in Exceptions \ {"Null"}, Throws(t, e), UNCHANGED streams,
         call[t].pc # "next"
  PROVE  Moves(t)
<1>0. Fits(call[t], out[t], in[t], copy[t])
  BY DEF Placed
<1>1. ASSUME copy[t] = None PROVE Fits(call'[t], out'[t], in'[t], copy'[t])
  <2>1. AtRest(call'[t], "idle") /\ copy'[t] = None
    BY <1>1, ThrowsOnly, EndedCall
  <2> QED
    BY <1>0, <1>1, <2>1, IdleFits DEF Fits, OutsideCopy, streams
<1>2. ASSUME copy[t] # None PROVE Fits(call'[t], out'[t], in'[t], copy'[t])
  <2> DEFINE p == [copy[t] EXCEPT !.finally = e]
  <2>1. AtRest(call'[t], "cleanup") /\ copy'[t] = p
    BY <1>2, ThrowsOnly, EndedCall DEF Between
  <2>3. copy[t] \in Copies
    BY <1>0, <1>2 DEF Fits
  <2>4. p \in Copies /\ p # None /\ p.finally = e /\ p.name = copy[t].name
    BY <2>3, NoneAssumption DEF Copies, Exceptions
  <2>5. p.name \in Names
    BY <1>0, <1>2, <2>4 DEF Fits, InsideCopy
  <2> HIDE DEF p
  <2> QED
    BY <1>0, <1>2, <2>1, <2>4, <2>5, TriesAssumption
       DEF AtRest, Fits, InsideCopy, Between, Making, streams, MaxTries
<1> QED
  BY <1>1, <1>2, ThrowsOnly DEF Moves, Stays, streams, Placed

LEMMA GoesMoves ==
  ASSUME Placed, NEW t \in Threads, NEW pc \in Making, call[t].pc \in Making,
         GoesTo(t, pc), UNCHANGED <<streams, copy>>
  PROVE  Moves(t)
<1>0. Fits(call[t], out[t], in[t], copy[t])
  BY DEF Placed
<1>1. call'[t] = [call[t] EXCEPT !.pc = pc]
  BY GoesToOnly
<1>2. /\ call'[t] \in Calls /\ call'[t].pc = pc /\ call'[t].dir = call[t].dir /\ call'[t].name = call[t].name
      /\ call'[t].tries = call[t].tries /\ call'[t].fd = call[t].fd /\ call'[t].overlaps = call[t].overlaps
  BY <1>0, <1>1 DEF Fits, Calls
<1>3. Fits(call'[t], out'[t], in'[t], copy'[t])
  BY <1>0, <1>2 DEF Fits, OutsideCopy, InsideCopy, Making, Between, streams
<1> QED
  BY <1>3, GoesToOnly DEF Moves, Stays, streams, Placed

\* There is an inode for a new file: a thread holds no two of those of a name.
Holds(t, i) ==
  /\ i # None
  /\ \/ out[t] # None /\ i = out[t].ino
     \/ in[t] # None /\ i = in[t].ino
     \/ i = call[t].fd
HeldOnce ==
  \A t \in Threads : \A i, j \in Inodes :
    Holds(t, i) /\ Holds(t, j) /\ i[1] = j[1] /\ i[2] = j[2] => i = j

LEMMA UnusedInode ==
  ASSUME Stored, HeldOnce, NEW d \in Dirs, NEW n \in Names, entry[d][n] = None
  PROVE  Unused(d, n) \in Inodes /\ Unused(d, n) \notin InUse
         /\ Unused(d, n)[1] = d /\ Unused(d, n)[2] = n
<1> DEFINE K == Numbers
           x == IF onDisk[d][n] = None THEN 1 ELSE onDisk[d][n][3]
           L == K \ {x}
<1>0. Cardinality(Threads) \in Nat
  BY ThreadsAssumption, FS_CardinalityType
<1>1. \A k \in K : /\ Inode(d, n, k) \in Inodes
                   /\ Inode(d, n, k)[1] = d /\ Inode(d, n, k)[2] = n /\ Inode(d, n, k)[3] = k
  BY DEF Inode, Inodes
<1>4. x \in K
  BY <1>0 DEF Stored, Named, Inodes, Numbers
<1>5. \A k \in L : Inode(d, n, k) \notin Linked(onDisk)
  <2> SUFFICES ASSUME NEW k \in L, Inode(d, n, k) \in Linked(onDisk) PROVE FALSE
    OBVIOUS
  <2>1. PICK e \in Dirs, m \in Names : onDisk[e][m] = Inode(d, n, k)
    BY DEF Linked
  <2>2. e = d /\ m = n
    BY <1>1, <2>1, NoneAssumption DEF Stored, Named
  <2> QED
    BY <1>1, <2>1, <2>2, NoneAssumption
<1>2. \A k \in K : Inode(d, n, k) \notin Linked(entry)
  <2> SUFFICES ASSUME NEW k \in K, Inode(d, n, k) \in Linked(entry) PROVE FALSE
    OBVIOUS
  <2>1. PICK e \in Dirs, m \in Names : entry[e][m] = Inode(d, n, k)
    BY DEF Linked
  <2> QED
    BY <1>1, <2>1, NoneAssumption DEF Stored
<1>3. \E k \in K : Inode(d, n, k) \notin InUse
  <2> SUFFICES ASSUME \A k \in K : Inode(d, n, k) \in InUse PROVE FALSE
    OBVIOUS
  <2>1. \A k \in L : \E t \in Threads : Holds(t, Inode(d, n, k))
    BY <1>1, <1>2, <1>5, NoneAssumption DEF InUse, Holds
  <2> DEFINE holder == [k \in L |-> CHOOSE t \in Threads : Holds(t, Inode(d, n, k))]
  <2>2. holder \in [L -> Threads] /\ \A k \in L : Holds(holder[k], Inode(d, n, k))
    BY <2>1
  <2>3. IsFiniteSet(K) /\ Cardinality(K) = 2 + Cardinality(Threads)
    BY <1>0, FS_Interval DEF Numbers
  <2> HIDE DEF x
  <2>4. IsFiniteSet(L) /\ Cardinality(L) = 1 + Cardinality(Threads)
    BY <1>0, <1>4, <2>3, FS_RemoveElement
  <2>5. PICK k1 \in L, k2 \in L : k1 # k2 /\ holder[k1] = holder[k2]
    <3> HIDE DEF holder, L
    <3> QED
      BY <1>0, <2>2, <2>4, ThreadsAssumption, FS_PigeonHole
  <2> HIDE DEF holder
  <2> QED
    BY <1>1, <2>2, <2>5 DEF HeldOnce
<1> QED
  BY <1>1, <1>3 DEF Unused

\* What holds in all states, of the calls and of the files.
CopyHasFiles ==
  \A t \in Threads : copy[t] # None =>
    /\ out[t] # None => out[t].ino \in {None, entry[Dest][copy[t].name]}
    /\ in[t] # None => in[t].ino = entry[Src][copy[t].name]
CopyIsAlone ==
  \A t \in Threads : copy[t] # None =>
    \A u \in Threads \ {t} :
      /\ copy[u] = None /\ out[u] = None
      /\ call[u].pc \in {"idle", "sync", "fsync", "openin", "length"}

LEMMA CopyNames ==
  ASSUME Placed, NEW t \in Threads, copy[t] # None, call[t].pc # "next"
  PROVE  copy[t].name \in Names
BY DEF Placed, Fits, InsideCopy

LEMMA HeldOnceHolds == Stored /\ Placed /\ CopyHasFiles => HeldOnce
<1> SUFFICES ASSUME Stored, Placed, CopyHasFiles,
                    NEW t \in Threads, NEW i \in Inodes, NEW j \in Inodes,
                    Holds(t, i), Holds(t, j), i[1] = j[1], i # j
             PROVE  FALSE
  BY DEF HeldOnce
<1>0. Fits(call[t], out[t], in[t], copy[t])
  BY DEF Placed
<1>1. call[t].fd = None \/ (out[t] = None /\ in[t] = None)
  BY <1>0 DEF Fits, OutsideCopy, InsideCopy, Between, Making
<1>2. out[t] # None /\ in[t] # None /\ copy[t] # None
  BY <1>0, <1>1 DEF Holds, Fits, OutsideCopy
<1>3. copy[t].name \in Names
  BY <1>0, <1>2 DEF Fits, InsideCopy
<1>4. out[t].ino # None => out[t].ino[1] = Dest
  BY <1>2, <1>3, DirsAssumption DEF CopyHasFiles, Stored
<1>5. in[t].ino # None => in[t].ino[1] = Src
  BY <1>2, <1>3, DirsAssumption DEF CopyHasFiles, Stored
<1> QED
  BY <1>1, <1>2, <1>4, <1>5, DirsAssumption DEF Holds

LEMMA CreatesMoves ==
  ASSUME Placed, NEW t \in Threads, CreateDirTest(t) \/ MakeDir(t) \/ TestFile(t) \/ RemoveOld(t)
  PROVE  Moves(t)
<1>1. UNCHANGED streams /\ call[t].pc \in {"create", "mkdir", "test", "remove"}
  BY DEF CreateDirTest, MakeDir, TestFile, RemoveOld, At
<1>2. \/ \E pc \in Making : GoesTo(t, pc) /\ UNCHANGED copy
      \/ Throws(t, "IO")
  BY DEF CreateDirTest, MakeDir, TestFile, RemoveOld, UnlinkFails, Making
<1>3. "IO" \in Exceptions \ {"Null"}
  BY DEF Exceptions
<1> QED
  BY <1>1, <1>2, <1>3, GoesMoves, ThrowsMoves DEF Making

LEMMA StreamFits ==
  ASSUME NEW i \in Inodes \cup {None}
  PROVE  Stream(i) \in Outputs /\ Stream(i) # None /\ Stream(i).put <= Len(Stream(i).wrote)
         /\ (Stream(i).good => Stream(i).ino # None) /\ Stream(i).ino = i
         /\ Stream(i).wrote = <<>> /\ Stream(i).put = 0
<1>1. Stream(i) \in Outputs
  BY DEF Stream, Outputs
<1>2. Stream(i).ino = i /\ Stream(i).wrote = <<>> /\ Stream(i).put = 0
  BY DEF Stream
<1>3. Stream(i).good => Stream(i).ino # None
  BY Zenon DEF Stream
<1> QED
  BY <1>1, <1>2, <1>3, NoneAssumption

LEMMA OpensMoves ==
  ASSUME Stored, Placed, HeldOnce, NEW t \in Threads, OpenOutput(t) \/ OpenOutputFails(t)
  PROVE  Moves(t)
<1>0. Fits(call[t], out[t], in[t], copy[t])
  BY DEF Placed
<1>1. call[t].pc = "open"
  BY DEF OpenOutput, OpenOutputFails, At
<1>2. out[t] = None /\ in[t] = None /\ call[t].dir \in Dirs /\ call[t].name \in Names
  BY <1>0, <1>1 DEF Fits, InsideCopy, OutsideCopy, Between
<1>3. Returns(t, "source") /\ UNCHANGED in
  BY DEF OpenOutput, OpenOutputFails
<1>4. PICK i \in Inodes \cup {None} : out' = [out EXCEPT ![t] = Stream(i)]
  BY <1>2, UnusedInode DEF OpenOutput, OpenOutputFails, Stored, Target
<1>5. out' = [u \in Threads |-> out'[u]] /\ out'[t] = Stream(i) /\ \A u \in Threads \ {t} : out'[u] = out[u]
  BY <1>4 DEF Placed
<1>6. Fits(call'[t], out'[t], in'[t], copy'[t])
  <2>1. CASE copy[t] = None
    <3>1. AtRest(call'[t], "idle") /\ copy'[t] = None /\ in'[t] = None
      BY <1>2, <1>3, <2>1, ReturnsOnly, EndedCall
    <3> QED
      BY <1>5, <3>1, IdleFits, StreamFits
  <2>2. CASE copy[t] # None
    <3>1. AtRest(call'[t], "source") /\ copy'[t] = copy[t] /\ in'[t] = None
      BY <1>2, <1>3, <2>2, ReturnsOnly, EndedCall DEF Between
    <3> QED
      BY <1>0, <1>1, <1>5, <2>2, <3>1, StreamFits, TriesAssumption
         DEF AtRest, Fits, InsideCopy, Between, Making, MaxTries
  <2> QED
    BY <2>1, <2>2
<1> QED
  BY <1>3, <1>5, <1>6, ReturnsOnly DEF Moves, Stays, Placed

LEMMA FlushOnly ==
  ASSUME Placed, NEW t \in Threads, NEW o \in Outputs, o.put <= Len(o.wrote), o.good => o.ino # None,
         NEW closes \in BOOLEAN, Flush(t, o, closes)
  PROVE  /\ out' = [u \in Threads |-> out'[u]] /\ \A u \in Threads \ {t} : out'[u] = out[u]
         /\ IF closes THEN out'[t] = None
            ELSE /\ out'[t] \in Outputs /\ out'[t].ino = o.ino /\ out'[t].wrote = o.wrote
                 /\ out'[t].put <= Len(out'[t].wrote) /\ (out'[t].good => o.good)
<1> DEFINE works == [o EXCEPT !.put = Len(o.wrote)]
           fails == [o EXCEPT !.good = FALSE]
<1>1. PICK p \in {works, fails, o} : out' = [out EXCEPT ![t] = IF closes THEN None ELSE p]
  BY DEF Flush
<1>2. p \in Outputs /\ p.ino = o.ino /\ p.wrote = o.wrote /\ p.put <= Len(p.wrote) /\ (p.good => o.good)
  <2>1. CASE p = works
    BY <2>1 DEF Outputs
  <2>2. CASE p = fails
    BY <2>2 DEF Outputs
  <2> QED
    BY <1>1, <2>1, <2>2
<1> QED
  BY <1>1, <1>2 DEF Placed

LEMMA EndsMoves ==
  ASSUME Placed, NEW t \in Threads, copy[t] = None, Returns(t, "idle"), UNCHANGED streams
  PROVE  Moves(t)
<1>1. AtRest(call'[t], "idle") /\ copy'[t] = None
  BY ReturnsOnly, EndedCall
<1>2. Fits(call'[t], out'[t], in'[t], copy'[t])
  BY <1>1, IdleFits DEF Placed, Fits, OutsideCopy, streams
<1> QED
  BY <1>2, ReturnsOnly DEF Moves, Stays, streams, Placed

LEMMA DeletesMoves ==
  ASSUME Placed, NEW t \in Threads, DeleteFile(t)
  PROVE  Moves(t)
<1>1. copy[t] = None /\ call[t].pc = "delete"
  BY DEF DeleteFile, At, Placed, Fits, InsideCopy, Between, Making
<1>2. "IO" \in Exceptions \ {"Null"}
  BY DEF Exceptions
<1> QED
  BY <1>1, <1>2, EndsMoves, ThrowsMoves DEF DeleteFile, UnlinkFails

LEMMA TriesMoves ==
  ASSUME Placed, NEW t \in Threads, call[t].pc \in {"sync", "fsync"}, TriesAgain(t), UNCHANGED streams
  PROVE  Moves(t)
<1>0. Fits(call[t], out[t], in[t], copy[t])
  BY DEF Placed
<1>1. CASE call[t].tries + 1 < SyncTries
  <2> DEFINE c == [call[t] EXCEPT !.tries = @ + 1, !.pc = "sync", !.fd = None]
  <2>1. call' = [call EXCEPT ![t] = c] /\ UNCHANGED copy
    BY <1>1 DEF TriesAgain, Placed
  <2>2. c \in Calls /\ c.tries = call[t].tries + 1 /\ c.pc = "sync" /\ c.fd = None
        /\ c.dir = call[t].dir /\ c.name = call[t].name /\ c.overlaps = call[t].overlaps
    <3> DEFINE a == [call[t] EXCEPT !.tries = @ + 1]
               b == [a EXCEPT !.pc = "sync"]
    <3>1. a \in Calls /\ a.tries = call[t].tries + 1 /\ a.dir = call[t].dir /\ a.name = call[t].name
          /\ a.overlaps = call[t].overlaps
      BY <1>0 DEF Fits, Calls
    <3> HIDE DEF a
    <3>2. b \in Calls /\ b.tries = a.tries /\ b.dir = a.dir /\ b.name = a.name /\ b.pc = "sync"
          /\ b.overlaps = a.overlaps
      BY <3>1 DEF Calls
    <3>3. c = [b EXCEPT !.fd = None]
      BY DEF a
    <3> HIDE DEF b, c
    <3> QED
      BY <3>1, <3>2, <3>3 DEF Calls
  <2>3. c.tries <= MaxTries
    BY <1>0, <1>1, <2>2, TriesAssumption DEF MaxTries, Fits, Calls
  <2> HIDE DEF c
  <2>4. Fits(c, out[t], in[t], copy[t])
    BY <1>0, <2>2, <2>3 DEF Fits, OutsideCopy, InsideCopy, Between, Making
  <2> QED
    BY <2>1, <2>4 DEF Moves, Stays, Placed, streams
<1>2. CASE ~(call[t].tries + 1 < SyncTries)
  <2>1. "IO" \in Exceptions \ {"Null"}
    BY DEF Exceptions
  <2> QED
    BY <1>2, <2>1, ThrowsMoves DEF TriesAgain
<1> QED
  BY <1>1, <1>2

LEMMA SyncsMoves ==
  ASSUME Stored, Placed, NEW t \in Threads, SyncOpens(t) \/ FSync(t)
  PROVE  Moves(t)
<1>0. Fits(call[t], out[t], in[t], copy[t])
  BY DEF Placed
<1>1. call[t].pc \in {"sync", "fsync"} /\ UNCHANGED streams
  BY DEF SyncOpens, FSync, At, streams
<1>2. copy[t] = None /\ call[t].dir \in Dirs /\ call[t].name \in Names
  BY <1>0, <1>1 DEF Fits, InsideCopy, Between, Making
<1>3. CASE Target(t) # None /\ call' = [call EXCEPT ![t].pc = "fsync", ![t].fd = Target(t)] /\ UNCHANGED copy
  <2> DEFINE c == [call[t] EXCEPT !.pc = "fsync", !.fd = Target(t)]
  <2>1. call' = [call EXCEPT ![t] = c]
    BY <1>3 DEF Placed
  <2>2. Target(t) \in Inodes
    BY <1>2, <1>3, TargetType
  <2>3. c \in Calls /\ c.tries = call[t].tries /\ c.pc = "fsync" /\ c.fd = Target(t)
        /\ c.dir = call[t].dir /\ c.name = call[t].name /\ c.overlaps = call[t].overlaps
    BY <1>0, <2>2 DEF Fits, Calls
  <2> HIDE DEF c
  <2>4. Fits(c, out[t], in[t], copy[t])
    BY <1>0, <1>1, <1>2, <1>3, <2>3 DEF Fits, OutsideCopy, Making, Between
  <2> QED
    BY <1>1, <1>3, <2>1, <2>4 DEF Moves, Stays, Placed, streams
<1> QED
  BY <1>1, <1>2, <1>3, TriesMoves, EndsMoves DEF SyncOpens, FSync

LEMMA ReadsMoves ==
  ASSUME Stored, Placed, NEW t \in Threads, OpenInput(t) \/ InputLength(t)
  PROVE  Moves(t)
<1>0. Fits(call[t], out[t], in[t], copy[t])
  BY DEF Placed
<1>1. call[t].pc \in {"openin", "length"} /\ UNCHANGED out
  BY DEF OpenInput, InputLength, At
<1>2. call[t].dir \in Dirs /\ call[t].name \in Names
  BY <1>0, <1>1 DEF Fits, Between
<1>3. Target(t) \in Inodes \cup {None}
  BY <1>2, TargetType
<1>4. ASSUME call[t].pc = "openin", Target(t) # None, GoesTo(t, "length"), UNCHANGED copy,
             in' = [in EXCEPT ![t] = [ino |-> Target(t), len |-> 0, pos |-> 0]]
      PROVE  Moves(t)
  <2> DEFINE c == [call[t] EXCEPT !.pc = "length"]
             i == [ino |-> Target(t), len |-> 0, pos |-> 0]
  <2>1. call'[t] = c /\ in'[t] = i
    BY <1>4, GoesToOnly DEF Placed
  <2>2. c \in Calls /\ c.tries = call[t].tries /\ c.pc = "length" /\ c.fd = call[t].fd
        /\ c.dir = call[t].dir /\ c.name = call[t].name /\ c.overlaps = call[t].overlaps
    BY <1>0 DEF Fits, Calls
  <2>3. i \in Inputs
    BY <1>3, <1>4 DEF Inputs
  <2>4. i # None
    BY <2>3, NoneAssumption
  <2> HIDE DEF c, i
  <2>5. Fits(c, out[t], i, copy[t])
    BY <1>0, <1>4, <2>2, <2>3, <2>4 DEF Fits, OutsideCopy, InsideCopy, Making, Between
  <2> QED
    BY <1>1, <1>4, <2>1, <2>5, GoesToOnly DEF Moves, Stays, Placed
<1>5. ASSUME OpenInput(t), Throws(t, "FileNotFound"), UNCHANGED in PROVE Moves(t)
  <2>1. "FileNotFound" \in Exceptions \ {"Null"}
    BY DEF Exceptions
  <2> QED
    BY <1>1, <1>5, <2>1, ThrowsMoves DEF streams
<1>6. CASE InputLength(t)
  <2>0. call[t].pc = "length" /\ in[t] \in Inputs /\ in[t] # None
    BY <1>0, <1>6 DEF InputLength, At, Fits, OutsideCopy, InsideCopy
  <2>1. CASE AsksAgain(t)
    <3> DEFINE c == [call[t] EXCEPT !.tries = @ + 1]
    <3>1. call' = [call EXCEPT ![t] = c] /\ UNCHANGED <<in, copy>>
      BY <1>6, <2>1 DEF InputLength, Placed
    <3>2. c \in Calls /\ c.tries = call[t].tries + 1 /\ c.pc = "length" /\ c.fd = call[t].fd
          /\ c.dir = call[t].dir /\ c.name = call[t].name /\ c.overlaps = call[t].overlaps
      BY <1>0, <2>0 DEF Fits, Calls
    <3>3. c.tries <= MaxTries
      BY <1>0, <2>1, <3>2, TriesAssumption DEF MaxTries, Fits, Calls, AsksAgain
    <3> HIDE DEF c
    <3>4. Fits(c, out[t], in[t], copy[t])
      BY <1>0, <2>0, <3>2, <3>3 DEF Fits, OutsideCopy, InsideCopy
    <3> QED
      BY <1>1, <3>1, <3>4 DEF Moves, Stays, Placed
  <2>2. CASE ~AsksAgain(t)
    <3> DEFINE i == [in[t] EXCEPT !.len = Length(t)]
    <3>1. in' = [in EXCEPT ![t] = i] /\ Returns(t, "copying")
      BY <1>6, <2>2 DEF InputLength, Placed
    <3>2. Length(t) \in Nat
      <4>1. Target(t) # None => file[Target(t)].data \in Seq(Blocks)
        BY <1>3 DEF Stored, GoodFiles, Files
      <4> QED
        BY <4>1 DEF Length
    <3>3. i \in Inputs
      BY <2>0, <3>2 DEF Inputs
    <3>4. i # None
      BY <3>3, NoneAssumption
    <3> HIDE DEF i
    <3>5. in'[t] = i /\ in' = [u \in Threads |-> in'[u]] /\ \A u \in Threads \ {t} : in'[u] = in[u]
      BY <3>1 DEF Placed
    <3>6. CASE copy[t] = None
      <4>1. AtRest(call'[t], "idle") /\ copy'[t] = None /\ out[t] = None
        BY <1>0, <2>0, <3>1, <3>6, ReturnsOnly, EndedCall DEF Fits, OutsideCopy
      <4> QED
        <5>1. Fits(call'[t], out'[t], in'[t], copy'[t])
          BY <1>1, <3>3, <3>5, <4>1, IdleFits
        <5> QED
          BY <1>1, <3>1, <3>5, <5>1, ReturnsOnly DEF Moves, Stays, Placed
    <3>7. CASE copy[t] # None
      <4>1. AtRest(call'[t], "copying") /\ copy'[t] = copy[t]
        BY <3>1, <3>7, ReturnsOnly, EndedCall DEF Between
      <4>2. Fits(call'[t], out[t], i, copy[t])
        BY <1>0, <2>0, <3>3, <3>4, <3>7, <4>1, TriesAssumption
           DEF AtRest, Fits, InsideCopy, Between, Making, MaxTries
      <4> QED
        BY <1>1, <3>1, <3>5, <4>1, <4>2, ReturnsOnly DEF Moves, Stays, Placed
    <3> QED
      BY <3>6, <3>7
  <2> QED
    BY <2>1, <2>2
<1> QED
  BY <1>4, <1>5, <1>6 DEF OpenInput, At

\* A call begins in a directory that is open; what others create meanwhile, overlaps.
LEMMA EnterOnly ==
  ASSUME Placed, NEW t \in Threads, NEW d \in Dirs, NEW n \in Names,
         NEW pc \in {"create", "openin", "delete", "sync"}, m_isOpen[d], Enter(t, pc, d, n)
  PROVE  /\ call' = [u \in Threads |-> call'[u]] /\ UNCHANGED copy
         /\ call'[t] \in Calls /\ call'[t].tries = 0 /\ call'[t].fd = None
         /\ call'[t].pc = pc /\ call'[t].dir = d /\ call'[t].name = n
         /\ call'[t].overlaps <=> pc = "create" /\ Creators(d, n) # {}
         /\ \A u \in Threads \ {t} :
              IF pc = "create" /\ u \in Creators(d, n)
              THEN call'[u] = [call[u] EXCEPT !.overlaps = TRUE] ELSE call'[u] = call[u]
<1> DEFINE ov == pc = "create" /\ Creators(d, n) # {}
           c == [Idle EXCEPT !.pc = pc, !.dir = d, !.name = n, !.overlaps = ov]
<1>1. /\ call' = [u \in Threads |-> call'[u]] /\ call'[t] = c /\ UNCHANGED copy
      /\ \A u \in Threads \ {t} :
           call'[u] = [call[u] EXCEPT !.overlaps = @ \/ (pc = "create" /\ u \in Creators(d, n))]
  BY DEF Enter
<1>2. c \in Calls /\ c.tries = 0 /\ c.pc = pc /\ c.fd = None /\ c.dir = d /\ c.name = n /\ c.overlaps = ov
  <2>1. ov \in BOOLEAN
    OBVIOUS
  <2> HIDE DEF ov
  <2> QED
    BY <2>1 DEF Idle, Calls, Making, Between
<1> HIDE DEF c
<1>3. ASSUME NEW u \in Threads \ {t}
      PROVE  IF pc = "create" /\ u \in Creators(d, n)
             THEN call'[u] = [call[u] EXCEPT !.overlaps = TRUE] ELSE call'[u] = call[u]
  <2>1. call[u] \in Calls
    BY DEF Placed
  <2>2. CASE pc = "create" /\ u \in Creators(d, n)
    BY <1>1, <2>2
  <2>3. CASE ~(pc = "create" /\ u \in Creators(d, n))
    <3>1. call'[u] = [call[u] EXCEPT !.overlaps = call[u].overlaps]
      BY <1>1, <2>1, <2>3 DEF Calls
    <3> QED
      BY <2>1, <2>3, <3>1 DEF Calls
  <2> QED
    BY <2>2, <2>3
<1> QED
  BY <1>1, <1>2, <1>3

LEMMA BeginsMoves ==
  ASSUME Stored, Placed, NEW t \in Threads, Begin(t)
  PROVE  Moves(t)
<1>0. Fits(call[t], out[t], in[t], copy[t])
  BY DEF Placed
<1>1. call[t].pc = "idle" /\ copy[t] = None /\ out[t] = None /\ in[t] = None /\ UNCHANGED streams
  BY <1>0 DEF Begin, At, NoStream, Fits, InsideCopy, Between, Making
<1>2. PICK d \in Dirs, n \in Names, pc \in {"create", "openin", "delete", "sync"} :
        Enter(t, pc, d, n) /\ (pc = "create" => MayChange(t))
  BY SetupsAssumption DEF Begin, Stored
<1>3. CASE ~m_isOpen[d]
  <2>1. "AlreadyClosed" \in Exceptions \ {"Null"}
    BY DEF Exceptions
  <2> QED
    BY <1>1, <1>2, <1>3, <2>1, ThrowsMoves DEF Enter
<1>4. CASE m_isOpen[d]
  <2>1. Fits(call'[t], out'[t], in'[t], copy'[t])
    BY <1>0, <1>1, <1>2, <1>4, EnterOnly, TriesAssumption
       DEF Fits, OutsideCopy, Making, Between, MaxTries, streams
  <2>2. ASSUME NEW u \in Threads \ {t} PROVE Stays(u)
    BY <1>1, <1>2, <1>4, EnterOnly DEF Stays, MayChange, streams, Creators
  <2> QED
    BY <1>1, <1>2, <1>4, <2>1, <2>2, EnterOnly DEF Moves, Placed, streams
<1> QED
  BY <1>3, <1>4

LEMMA AppendFits ==
  ASSUME NEW o \in Outputs, o.put <= Len(o.wrote), NEW b \in Blocks
  PROVE  LET p == [o EXCEPT !.wrote = Append(@, b)]
         IN  /\ p \in Outputs /\ p.put = o.put /\ p.good = o.good /\ p.ino = o.ino
             /\ p.wrote = Append(o.wrote, b) /\ p.put <= Len(p.wrote)
<1> DEFINE w == Append(o.wrote, b)
           p == [o EXCEPT !.wrote = w]
<1>1. o.wrote \in Seq(Blocks)
  BY DEF Outputs
<1>2. w \in Seq(Blocks) /\ Len(w) = Len(o.wrote) + 1
  BY <1>1
<1> HIDE DEF w
<1>3. p \in Outputs /\ p.put = o.put /\ p.good = o.good /\ p.ino = o.ino /\ p.wrote = w
  BY <1>2 DEF Outputs
<1>4. o.put \in Nat /\ Len(o.wrote) \in Nat
  BY <1>1 DEF Outputs
<1>5. p.put <= Len(p.wrote)
  BY <1>2, <1>3, <1>4
<1> QED
  BY <1>3, <1>5 DEF w

\* A block goes into the buffer, or to the file with it.
LEMMA AppendOnly ==
  ASSUME Placed, NEW t \in Threads, out[t] # None, NEW b \in Blocks, Append1(t, b)
  PROVE  /\ out' = [u \in Threads |-> out'[u]] /\ \A u \in Threads \ {t} : out'[u] = out[u]
         /\ out'[t] \in Outputs /\ out'[t].ino = out[t].ino /\ out'[t].wrote = Append(out[t].wrote, b)
         /\ out'[t].put <= Len(out'[t].wrote) /\ (out'[t].good => out[t].good)
<1> DEFINE o == [out[t] EXCEPT !.wrote = Append(@, b)]
<1>0. Fits(call[t], out[t], in[t], copy[t])
  BY DEF Placed
<1>1. out[t] \in Outputs /\ out[t].put <= Len(out[t].wrote) /\ (out[t].good => out[t].ino # None)
  BY <1>0 DEF Fits
<1>2. /\ o \in Outputs /\ o.put = out[t].put /\ o.good = out[t].good /\ o.ino = out[t].ino
      /\ o.wrote = Append(out[t].wrote, b) /\ o.put <= Len(o.wrote)
  BY <1>1, AppendFits
<1>3. Flush(t, o, FALSE) \/ out' = [out EXCEPT ![t] = o]
  BY DEF Append1
<1> HIDE DEF o
<1>4. CASE Flush(t, o, FALSE)
  BY <1>1, <1>2, <1>4, FlushOnly
<1>5. CASE out' = [out EXCEPT ![t] = o]
  BY <1>1, <1>2, <1>5 DEF Placed
<1> QED
  BY <1>3, <1>4, <1>5

LEMMA WritesMoves ==
  ASSUME Placed, NEW t \in Threads, WriteBlock(t) \/ CloseOutput(t) \/ CloseInput(t)
  PROVE  Moves(t)
<1>0. Fits(call[t], out[t], in[t], copy[t])
  BY DEF Placed
<1>1. call[t].pc = "idle" /\ copy[t] = None /\ UNCHANGED <<call, copy>>
  BY <1>0 DEF WriteBlock, CloseOutput, CloseInput, At, Fits, InsideCopy, Making, Between
<1>2. CASE WriteBlock(t)
  <2>1. t \in Blocks /\ out[t] # None
    BY <1>2 DEF Blocks, WriteBlock
  <2>2. out'[t] \in Outputs /\ out'[t] # None
    BY <1>2, <2>1, AppendOnly, NoneAssumption DEF WriteBlock
  <2>3. Fits(call'[t], out'[t], in'[t], copy'[t])
    BY <1>0, <1>1, <1>2, <2>1, <2>2, AppendOnly DEF WriteBlock, Fits, OutsideCopy
  <2> QED
    BY <1>1, <1>2, <2>1, <2>3, AppendOnly DEF Moves, Stays, Placed, WriteBlock
<1>3. CASE CloseOutput(t)
  <2>1. out[t] \in Outputs /\ out[t].put <= Len(out[t].wrote) /\ (out[t].good => out[t].ino # None)
    BY <1>0, <1>3 DEF Fits, CloseOutput
  <2>2. out' = [u \in Threads |-> out'[u]] /\ out'[t] = None /\ \A u \in Threads \ {t} : out'[u] = out[u]
    BY <1>3, <2>1, FlushOnly DEF CloseOutput
  <2>3. Fits(call'[t], out'[t], in'[t], copy'[t])
    BY <1>0, <1>1, <1>3, <2>2 DEF CloseOutput, Fits, OutsideCopy
  <2> QED
    BY <1>1, <1>3, <2>2, <2>3 DEF Moves, Stays, Placed, CloseOutput
<1>4. CASE CloseInput(t)
  <2>1. in' = [u \in Threads |-> in'[u]] /\ in'[t] = None /\ \A u \in Threads \ {t} : in'[u] = in[u]
    BY <1>4 DEF CloseInput, Placed
  <2>2. Fits(call'[t], out'[t], in'[t], copy'[t])
    BY <1>0, <1>1, <1>4, <2>1 DEF CloseInput, Fits, OutsideCopy
  <2> QED
    BY <1>1, <1>4, <2>1, <2>2 DEF Moves, Stays, Placed, CloseInput
<1> QED
  BY <1>2, <1>3, <1>4

LEMMA CopyBeginsMoves ==
  ASSUME Placed, NEW t \in Threads, CopyBegins(t)
  PROVE  Moves(t)
<1>0. Fits(call[t], out[t], in[t], copy[t])
  BY DEF Placed
<1>1. call[t].pc = "idle" /\ copy[t] = None /\ out[t] = None /\ in[t] = None /\ UNCHANGED streams
  BY <1>0 DEF CopyBegins, At, NoStream, Fits, InsideCopy, Between, Making, streams
<1>2. ASSUME NEW e \in {"IO", "NoSuchDirectory", "AlreadyClosed"}, Throws(t, e) PROVE Moves(t)
  BY <1>1, <1>2, ThrowsMoves DEF Exceptions
<1>3. ASSUME NEW names \in SUBSET Names, GoesTo(t, "next"),
             copy' = [copy EXCEPT ![t] = [listed |-> names, todo |-> names, name |-> None,
                                          finally |-> "Null", lost |-> FALSE]]
      PROVE  Moves(t)
  <2> DEFINE p == [listed |-> names, todo |-> names, name |-> None, finally |-> "Null", lost |-> FALSE]
  <2>1. p \in Copies /\ p.finally = "Null"
    BY DEF Copies, Exceptions
  <2>2. p # None
    BY <2>1, NoneAssumption
  <2>3. copy' = [copy EXCEPT ![t] = p]
    BY <1>3
  <2> HIDE DEF p
  <2>4. call'[t] = [call[t] EXCEPT !.pc = "next"]
    BY <1>3, GoesToOnly
  <2>5. /\ call'[t] \in Calls /\ call'[t].pc = "next" /\ call'[t].tries = call[t].tries
        /\ call'[t].fd = call[t].fd /\ call'[t].overlaps = call[t].overlaps
    BY <1>0, <2>4 DEF Fits, Calls, Between
  <2>6. Fits(call'[t], out[t], in[t], p)
    BY <1>0, <1>1, <2>1, <2>2, <2>5 DEF Fits, InsideCopy, Making, Between
  <2> QED
    BY <1>1, <1>3, <2>3, <2>6, GoesToOnly DEF Moves, Stays, Placed, streams
<1>4. list_all(Src) \in SUBSET Names
  BY DEF list_all
<1> QED
  BY <1>2, <1>3, <1>4 DEF CopyBegins

LEMMA CopyCreatesMoves ==
  ASSUME Placed, NEW t \in Threads, CopyCreates(t)
  PROVE  Moves(t)
<1>0. Fits(call[t], out[t], in[t], copy[t])
  BY DEF Placed
<1>1. call[t].pc = "next" /\ copy[t] \in Copies /\ copy[t] # None /\ out[t] = None /\ in[t] = None
      /\ UNCHANGED streams
  BY <1>0 DEF CopyCreates, At, Fits, OutsideCopy, InsideCopy, Between, streams
<1>2. PICK n \in copy[t].todo :
        LET next == [copy EXCEPT ![t].todo = @ \ {n}, ![t].name = n]
        IN  IF m_isOpen[Dest]
            THEN /\ call' = [call EXCEPT ![t] = [@ EXCEPT !.pc = "create", !.dir = Dest, !.name = n]]
                 /\ copy' = next
            ELSE /\ GoesTo(t, "cleanup")
                 /\ copy' = [next EXCEPT ![t].finally = "AlreadyClosed"]
  BY DEF CopyCreates
<1>3. n \in Names
  BY <1>1 DEF Copies
<1> DEFINE p == [copy[t] EXCEPT !.todo = @ \ {n}, !.name = n]
           c == [call[t] EXCEPT !.pc = "create", !.dir = Dest, !.name = n]
           q == [p EXCEPT !.finally = "AlreadyClosed"]
<1>4. p \in Copies /\ p.name = n /\ p.finally = copy[t].finally
  <2> DEFINE a == [copy[t] EXCEPT !.todo = @ \ {n}]
  <2>1. a \in Copies /\ a.finally = copy[t].finally
    BY <1>1 DEF Copies
  <2>2. p = [a EXCEPT !.name = n]
    OBVIOUS
  <2> HIDE DEF a, p
  <2> QED
    BY <1>3, <2>1, <2>2 DEF Copies
<1>5. CASE m_isOpen[Dest]
  <2>1. call' = [call EXCEPT ![t] = c] /\ copy' = [copy EXCEPT ![t] = p]
    BY <1>2, <1>5 DEF Placed
  <2>2. c \in Calls /\ c.pc = "create" /\ c.dir = Dest /\ c.name = n
        /\ c.tries = call[t].tries /\ c.fd = call[t].fd /\ c.overlaps = call[t].overlaps
    <3> DEFINE a == [call[t] EXCEPT !.pc = "create"]
               b == [a EXCEPT !.dir = Dest]
    <3>1. a \in Calls /\ a.pc = "create"
          /\ a.tries = call[t].tries /\ a.fd = call[t].fd /\ a.overlaps = call[t].overlaps
      BY <1>0 DEF Fits, Calls, Making
    <3> HIDE DEF a
    <3>2. b \in Calls /\ b.pc = "create" /\ b.dir = Dest
          /\ b.tries = a.tries /\ b.fd = a.fd /\ b.overlaps = a.overlaps
      BY <3>1, DirsAssumption DEF Calls
    <3>3. c = [b EXCEPT !.name = n]
      BY DEF a
    <3> HIDE DEF b, c
    <3> QED
      BY <1>3, <3>1, <3>2, <3>3 DEF Calls
  <2>3. p # None
    BY <1>4, NoneAssumption
  <2> HIDE DEF p, c
  <2>4. Fits(c, out[t], in[t], p)
    BY <1>0, <1>1, <1>3, <1>4, <2>2, <2>3, DirsAssumption DEF Fits, InsideCopy, Making, Between
  <2> QED
    BY <1>1, <2>1, <2>4 DEF Moves, Stays, Placed, streams
<1>6. CASE ~m_isOpen[Dest]
  <2> DEFINE r == [copy EXCEPT ![t] = p]
  <2>1. GoesTo(t, "cleanup") /\ copy' = [r EXCEPT ![t].finally = "AlreadyClosed"]
    BY <1>2, <1>6 DEF Placed
  <2>2. r[t] = p /\ r = [u \in Threads |-> r[u]]
    BY DEF Placed
  <2>3. copy' = [copy EXCEPT ![t] = q]
    <3> HIDE DEF p
    <3>1. r \in [Threads -> Copies \cup {None}]
      BY <1>4 DEF Placed
    <3> QED
      BY <2>1, <2>2, <3>1 DEF Placed
  <2> HIDE DEF p
  <2>4. q \in Copies /\ q.name = n /\ q.finally = "AlreadyClosed"
    BY <1>4 DEF Copies, Exceptions
  <2>5. q # None
    BY <2>4, NoneAssumption
  <2>6. call'[t] = [call[t] EXCEPT !.pc = "cleanup"]
    BY <2>1, GoesToOnly
  <2>7. /\ call'[t] \in Calls /\ call'[t].pc = "cleanup" /\ call'[t].tries = call[t].tries
        /\ call'[t].fd = call[t].fd /\ call'[t].overlaps = call[t].overlaps
    BY <1>0, <2>6 DEF Fits, Calls, Between
  <2> HIDE DEF q
  <2>8. Fits(call'[t], out[t], in[t], q)
    BY <1>0, <1>1, <1>3, <2>4, <2>5, <2>7 DEF Fits, InsideCopy, Making, Between
  <2> QED
    BY <1>1, <2>1, <2>3, <2>8, GoesToOnly DEF Moves, Stays, Placed, streams
<1> QED
  BY <1>5, <1>6

LEMMA CopyOpensMoves ==
  ASSUME Placed, NEW t \in Threads, CopyOpens(t)
  PROVE  Moves(t)
<1>0. Fits(call[t], out[t], in[t], copy[t])
  BY DEF Placed
<1>1. call[t].pc = "source" /\ copy[t] # None /\ copy[t].name \in Names /\ UNCHANGED streams
  BY <1>0 DEF CopyOpens, At, Fits, OutsideCopy, InsideCopy, Between, streams
<1>2. Enter(t, "openin", Src, copy[t].name)
  BY DEF CopyOpens
<1>3. CASE ~m_isOpen[Src]
  <2>1. "AlreadyClosed" \in Exceptions \ {"Null"}
    BY DEF Exceptions
  <2> QED
    BY <1>1, <1>2, <1>3, <2>1, ThrowsMoves DEF Enter
<1>4. CASE m_isOpen[Src]
  <2>1. /\ call'[t] \in Calls /\ call'[t].tries = 0 /\ call'[t].fd = None /\ call'[t].pc = "openin"
        /\ call'[t].dir = Src /\ call'[t].name = copy[t].name /\ ~call'[t].overlaps
        /\ UNCHANGED copy /\ call' = [u \in Threads |-> call'[u]]
        /\ \A u \in Threads \ {t} : call'[u] = call[u]
    BY <1>1, <1>2, <1>4, EnterOnly, DirsAssumption
  <2>2. Fits(call'[t], out'[t], in'[t], copy'[t])
    BY <1>0, <1>1, <2>1, DirsAssumption, TriesAssumption
       DEF Fits, InsideCopy, Making, Between, MaxTries, streams
  <2> QED
    BY <1>1, <2>1, <2>2 DEF Moves, Stays, Placed, streams
<1> QED
  BY <1>3, <1>4

LEMMA CopyBlockMoves ==
  ASSUME Stored, Placed, NEW t \in Threads, CopyBlock(t)
  PROVE  Moves(t)
<1>0. Fits(call[t], out[t], in[t], copy[t])
  BY DEF Placed
<1>1. /\ call[t].pc = "copying" /\ copy[t] # None /\ out[t] # None /\ in[t] # None
      /\ in[t] \in Inputs /\ copy[t] \in Copies
  BY <1>0 DEF CopyBlock, At, Fits, OutsideCopy, InsideCopy, Between
<1> DEFINE data == file[in[t].ino].data
<1>2. data \in Seq(Blocks) /\ in[t].pos \in Nat
  BY <1>1 DEF Stored, GoodFiles, Inputs, Files
<1>3. CASE in[t].pos < in[t].len /\ in[t].pos < Len(data)
  <2> DEFINE i == [in[t] EXCEPT !.pos = @ + 1]
  <2>1. in' = [in EXCEPT ![t] = i] /\ UNCHANGED <<call, copy>> /\ Append1(t, data[in[t].pos + 1])
    <3>1. Len(data) \in Nat /\ in[t].len \in Nat
      BY <1>1, <1>2 DEF Inputs
    <3>2. in' = [in EXCEPT ![t].pos = @ + 1] /\ UNCHANGED <<call, copy>> /\ Append1(t, data[in[t].pos + 1])
      BY <1>2, <1>3, <3>1 DEF CopyBlock
    <3> QED
      BY <3>2 DEF Placed
  <2>2. data[in[t].pos + 1] \in Blocks
    BY <1>2, <1>3
  <2>3. i \in Inputs
    BY <1>1 DEF Inputs
  <2>4. i # None
    BY <2>3, NoneAssumption
  <2> HIDE DEF i, data
  <2>5. out'[t] \in Outputs /\ out'[t] # None
    BY <1>1, <2>1, <2>2, AppendOnly, NoneAssumption
  <2>6. in'[t] = i
    BY <2>1 DEF Placed
  <2>7. Fits(call'[t], out'[t], in'[t], copy'[t])
    BY <1>0, <1>1, <2>1, <2>2, <2>3, <2>4, <2>5, <2>6, AppendOnly DEF Fits, InsideCopy, Making, Between
  <2> QED
    BY <1>1, <2>1, <2>2, <2>7, AppendOnly DEF Moves, Stays, Placed
<1>4. CASE in[t].pos < in[t].len /\ in[t].pos >= Len(data)
  <2>1. Throws(t, "IO") /\ UNCHANGED streams
    <3> HIDE DEF data
    <3>1. Len(data) \in Nat /\ in[t].len \in Nat
      BY <1>1, <1>2 DEF Inputs
    <3> QED
      BY <1>2, <1>4, <3>1 DEF CopyBlock, data
  <2>2. "IO" \in Exceptions \ {"Null"}
    BY DEF Exceptions
  <2> QED
    BY <1>1, <2>1, <2>2, ThrowsMoves
<1>5. CASE ~(in[t].pos < in[t].len)
  <2>1. GoesTo(t, "cleanup") /\ UNCHANGED <<streams, copy>>
    BY <1>1, <1>5 DEF CopyBlock, Inputs
  <2>2. call'[t] = [call[t] EXCEPT !.pc = "cleanup"]
    BY <2>1, GoesToOnly
  <2>3. /\ call'[t] \in Calls /\ call'[t].pc = "cleanup" /\ call'[t].tries = call[t].tries
        /\ call'[t].fd = call[t].fd /\ call'[t].overlaps = call[t].overlaps
    BY <1>0, <2>2 DEF Fits, Calls, Between
  <2>4. Fits(call'[t], out'[t], in'[t], copy'[t])
    BY <1>0, <1>1, <2>1, <2>3 DEF Fits, InsideCopy, Making, Between, streams
  <2> QED
    BY <2>1, <2>4, GoesToOnly DEF Moves, Stays, Placed, streams
<1> QED
  BY <1>2, <1>3, <1>4, <1>5

LEMMA CopyCleansUpMoves ==
  ASSUME Placed, NEW t \in Threads, CopyCleansUp(t)
  PROVE  Moves(t)
<1>0. Fits(call[t], out[t], in[t], copy[t])
  BY DEF Placed
<1>1. call[t].pc = "cleanup" /\ copy[t] # None /\ copy[t] \in Copies
  BY <1>0 DEF CopyCleansUp, At, Fits, OutsideCopy, Between
<1>2. in' = [u \in Threads |-> in'[u]] /\ in'[t] = None /\ \A u \in Threads \ {t} : in'[u] = in[u]
  BY DEF CopyCleansUp, Placed
<1>3. out' = [u \in Threads |-> out'[u]] /\ out'[t] = None /\ \A u \in Threads \ {t} : out'[u] = out[u]
  <2>1. CASE out[t] = None
    BY <2>1 DEF CopyCleansUp, Placed
  <2>2. CASE out[t] # None
    <3>1. out[t] \in Outputs /\ out[t].put <= Len(out[t].wrote) /\ (out[t].good => out[t].ino # None)
      BY <1>0, <2>2 DEF Fits
    <3> QED
      BY <2>2, <3>1, FlushOnly DEF CopyCleansUp
  <2> QED
    BY <2>1, <2>2
<1>4. CASE copy[t].finally # "Null"
  <2>1. call' = [call EXCEPT ![t] = Idle] /\ copy' = [copy EXCEPT ![t] = None]
    BY <1>4 DEF CopyCleansUp, throw_exception
  <2>2. call' = [u \in Threads |-> call'[u]] /\ call'[t] = Idle /\ \A u \in Threads \ {t} : call'[u] = call[u]
    BY <2>1 DEF Placed
  <2>3. copy' = [u \in Threads |-> copy'[u]] /\ copy'[t] = None /\ \A u \in Threads \ {t} : copy'[u] = copy[u]
    BY <2>1 DEF Placed
  <2>4. AtRest(Idle, "idle")
    BY EndedCall
  <2>5. Fits(call'[t], out'[t], in'[t], copy'[t])
    BY <1>2, <1>3, <2>2, <2>3, <2>4, IdleFits
  <2> QED
    BY <1>2, <1>3, <2>2, <2>3, <2>5 DEF Moves, Stays
<1>5. CASE copy[t].finally = "Null"
  <2> DEFINE l == copy[t].lost \/ failures' # failures \/ ~out[t].good
             p == [copy[t] EXCEPT !.lost = l]
             c == [Idle EXCEPT !.pc = "next"]
  <2>1. call' = [call EXCEPT ![t] = c] /\ copy' = [copy EXCEPT ![t] = p]
    BY <1>5 DEF CopyCleansUp, throw_exception
  <2>2. p \in Copies /\ p.finally = "Null"
    <3>1. l \in BOOLEAN
      OBVIOUS
    <3> HIDE DEF l
    <3> QED
      BY <1>1, <1>5, <3>1 DEF Copies
  <2>3. p # None
    BY <2>2, NoneAssumption
  <2>4. AtRest(c, "next")
    BY EndedCall DEF Between
  <2> HIDE DEF p, c
  <2>5. call' = [u \in Threads |-> call'[u]] /\ call'[t] = c /\ \A u \in Threads \ {t} : call'[u] = call[u]
    BY <2>1 DEF Placed
  <2>6. copy' = [u \in Threads |-> copy'[u]] /\ copy'[t] = p /\ \A u \in Threads \ {t} : copy'[u] = copy[u]
    BY <2>1 DEF Placed
  <2>7. Fits(c, None, None, p)
    BY <2>2, <2>3, <2>4, TriesAssumption DEF AtRest, Fits, InsideCopy, Making, Between, MaxTries
  <2> QED
    BY <1>2, <1>3, <2>5, <2>6, <2>7 DEF Moves, Stays
<1> QED
  BY <1>4, <1>5

LEMMA CopyEndsMoves ==
  ASSUME Placed, NEW t \in Threads, CopyEnds(t)
  PROVE  Moves(t)
<1>0. Fits(call[t], out[t], in[t], copy[t])
  BY DEF Placed
<1>1. copy[t] # None /\ out[t] = None /\ in[t] = None /\ UNCHANGED streams
  BY <1>0 DEF CopyEnds, At, Fits, OutsideCopy, InsideCopy, Between, streams
<1>2. call' = [u \in Threads |-> call'[u]] /\ call'[t] = Idle /\ \A u \in Threads \ {t} : call'[u] = call[u]
  BY DEF CopyEnds, Placed
<1>3. copy' = [u \in Threads |-> copy'[u]] /\ copy'[t] = None /\ \A u \in Threads \ {t} : copy'[u] = copy[u]
  BY DEF CopyEnds, Placed
<1>4. AtRest(Idle, "idle")
  BY EndedCall
<1>5. Fits(call'[t], out'[t], in'[t], copy'[t])
  BY <1>1, <1>2, <1>3, <1>4, IdleFits DEF streams
<1> QED
  BY <1>1, <1>2, <1>3, <1>5 DEF Moves, Stays, streams, Placed

-----------------------------------------------------------------------------
(* What a step makes of the files *)

LEMMA EmptyIsGood == Empty \in Files /\ Empty.safe <= Empty.stable /\ Empty.stable <= Len(Empty.data)
<1>1. <<>> \in Seq(Blocks)
  OBVIOUS
<1> QED
  BY <1>1 DEF Empty, Files

LEMMA KeepFiles ==
  ASSUME NEW f, GoodFiles(f), Keep(f)
  PROVE  GoodFiles(file') /\ \A i \in Inodes : file'[i] = IF i \in InUse' THEN f[i] ELSE Empty
<1>1. \A i \in Inodes : file'[i] = IF i \in InUse' THEN f[i] ELSE Empty
  BY DEF Keep
<1>2. file' = [i \in Inodes |-> file'[i]]
  BY <1>1 DEF Keep
<1>3. \A i \in Inodes : /\ file'[i] \in Files
                        /\ file'[i].safe <= file'[i].stable /\ file'[i].stable <= Len(file'[i].data)
  BY <1>1, EmptyIsGood DEF GoodFiles
<1> QED
  BY <1>1, <1>2, <1>3 DEF GoodFiles

\* What is written, synced or truncated.
LEMMA PutFiles ==
  ASSUME GoodFiles(file), NEW i \in Inodes, NEW p \in Nat, NEW bs \in Seq(Blocks)
  PROVE  LET f == [file EXCEPT ![i].data = Overwrite(@, p, bs)]
         IN  /\ GoodFiles(f)
             /\ f[i].data = Overwrite(file[i].data, p, bs) /\ f[i].shared = file[i].shared
             /\ \A j \in Inodes \ {i} : f[j] = file[j]
<1> DEFINE d == Overwrite(file[i].data, p, bs)
           g == [file[i] EXCEPT !.data = d]
           f == [file EXCEPT ![i] = g]
<1>1. [file EXCEPT ![i].data = Overwrite(@, p, bs)] = f
  BY DEF GoodFiles
<1>2. file[i] \in Files /\ file[i].data \in Seq(Blocks)
  BY DEF GoodFiles, Files
<1>3. d \in Seq(Blocks) /\ Len(d) >= Len(file[i].data)
  BY <1>2, OverwriteType
<1> HIDE DEF d
<1>4. g \in Files /\ g.data = d /\ g.safe = file[i].safe /\ g.stable = file[i].stable /\ g.shared = file[i].shared
  BY <1>2, <1>3 DEF Files
<1>5. g.safe <= g.stable /\ g.stable <= Len(g.data)
  <2>1. file[i].stable <= Len(file[i].data) /\ file[i].safe <= file[i].stable
    BY DEF GoodFiles
  <2>2. file[i].stable \in Nat /\ Len(d) \in Nat /\ Len(file[i].data) \in Nat
    BY <1>2, <1>3 DEF Files
  <2> HIDE DEF g
  <2> QED
    BY <1>3, <1>4, <2>1, <2>2
<1> HIDE DEF g
<1>6. f \in [Inodes -> Files] /\ f[i] = g /\ \A j \in Inodes \ {i} : f[j] = file[j]
  BY <1>4 DEF GoodFiles
<1> HIDE DEF f
<1>7. GoodFiles(f)
  BY <1>5, <1>6 DEF GoodFiles
<1> QED
  BY <1>1, <1>4, <1>6, <1>7 DEF d

LEMMA SyncFiles ==
  ASSUME GoodFiles(file), NEW i \in Inodes
  PROVE  LET len == Len(file[i].data)
             f == [file EXCEPT ![i].stable = len, ![i].safe = len]
         IN  /\ GoodFiles(f)
             /\ \A j \in Inodes : f[j].data = file[j].data /\ f[j].shared = file[j].shared
<1> DEFINE len == Len(file[i].data)
           g == [file[i] EXCEPT !.stable = len, !.safe = len]
           f == [file EXCEPT ![i] = g]
<1>1. [file EXCEPT ![i].stable = len, ![i].safe = len] = f
  BY DEF GoodFiles
<1>2. file[i] \in Files /\ len \in Nat
  BY DEF GoodFiles, Files
<1> HIDE DEF len
<1>3. g \in Files /\ g.data = file[i].data /\ g.safe = len /\ g.stable = len /\ g.shared = file[i].shared
  BY <1>2 DEF Files
<1>4. g.safe <= g.stable /\ g.stable <= Len(g.data)
  BY <1>2, <1>3 DEF len
<1> HIDE DEF g
<1>5. f \in [Inodes -> Files] /\ f[i] = g /\ \A j \in Inodes \ {i} : f[j] = file[j]
  BY <1>3 DEF GoodFiles
<1> HIDE DEF f
<1>6. GoodFiles(f)
  BY <1>4, <1>5 DEF GoodFiles
<1> QED
  BY <1>1, <1>3, <1>5, <1>6 DEF len

LEMMA NewFiles ==
  ASSUME GoodFiles(file), NEW i \in Inodes, NEW s \in BOOLEAN,
         file' = [file EXCEPT ![i] = [Empty EXCEPT !.shared = s]]
  PROVE  /\ GoodFiles(file')
         /\ file'[i].data = <<>> /\ file'[i].shared = s
         /\ \A j \in Inodes \ {i} : file'[j] = file[j]
<1> DEFINE g == [Empty EXCEPT !.shared = s]
<1>1. <<>> \in Seq(Blocks) /\ Len(<<>>) = 0
  OBVIOUS
<1>2. g \in Files /\ g.data = <<>> /\ g.safe = 0 /\ g.stable = 0 /\ g.shared = s
  BY <1>1 DEF Empty, Files
<1>3. g.safe <= g.stable /\ g.stable <= Len(g.data)
  BY <1>1, <1>2
<1> HIDE DEF g
<1>4. file' \in [Inodes -> Files] /\ file'[i] = g /\ \A j \in Inodes \ {i} : file'[j] = file[j]
  BY <1>2 DEF GoodFiles, g
<1>5. GoodFiles(file')
  BY <1>3, <1>4 DEF GoodFiles
<1> QED
  BY <1>2, <1>4, <1>5

\* No file that is still there is written, or truncated.
Unwritten ==
  \A i \in Inodes : i \in InUse' =>
    file'[i].data = file[i].data /\ file'[i].shared = file[i].shared

LEMMA ForgetFiles ==
  ASSUME GoodFiles(file), Forget PROVE GoodFiles(file') /\ Unwritten
BY KeepFiles DEF Forget, Unwritten

LEMMA SyncedFiles ==
  ASSUME GoodFiles(file), NEW t \in Threads, call[t].fd \in Inodes, Synced(t)
  PROVE  GoodFiles(file') /\ Unwritten
<1> DEFINE f == [file EXCEPT ![call[t].fd].stable = Len(file[call[t].fd].data),
                             ![call[t].fd].safe = Len(file[call[t].fd].data)]
<1>1. Keep(f)
  BY DEF Synced
<1>2. GoodFiles(f) /\ \A j \in Inodes : f[j].data = file[j].data /\ f[j].shared = file[j].shared
  BY SyncFiles
<1> HIDE DEF f
<1> QED
  BY <1>1, <1>2, KeepFiles DEF Unwritten

\* The rest of Stored.
Objects ==
  /\ Named(onDisk)
  /\ setup \in Setups /\ dirExists \subseteq Dirs /\ failures \in Nat
  /\ m_isOpen \in [Dirs -> BOOLEAN] /\ m_checked \in [Dirs -> BOOLEAN]

LEMMA StoredIs == Stored <=> Objects /\ Named(entry) /\ GoodFiles(file)
BY DEF Stored, Objects, Named

LEMMA FailuresCount ==
  ASSUME failures \in Nat, SystemFails \/ SystemWorks PROVE failures' \in Nat
BY DEF SystemFails, SystemWorks

\* The steps that write to no file, and change no name.
QuietStep(t) ==
  \/ Begin(t) \/ CreateDirTest(t) \/ MakeDir(t) \/ TestFile(t) \/ OpenOutputFails(t)
  \/ SyncOpens(t) \/ FSync(t) \/ OpenInput(t) \/ InputLength(t) \/ CloseInput(t)
  \/ CopyBegins(t) \/ CopyCreates(t) \/ CopyOpens(t) \/ CopyEnds(t)

LEMMA QuietFiles ==
  ASSUME Stored, Placed, NEW t \in Threads, QuietStep(t)
  PROVE  Stored' /\ UNCHANGED entry /\ Unwritten
<1>0. Objects /\ Named(entry) /\ GoodFiles(file) /\ Fits(call[t], out[t], in[t], copy[t])
  BY StoredIs DEF Placed
<1>1. UNCHANGED <<setup, onDisk, entry>>
  BY DEF QuietStep, Begin, CreateDirTest, MakeDir, TestFile, OpenOutputFails, SyncOpens, FSync, OpenInput,
         InputLength, CloseInput, CopyBegins, CopyCreates, CopyOpens, CopyEnds, files
<1>2. failures' \in Nat
  <2>1. SystemFails \/ SystemWorks \/ UNCHANGED failures
    BY DEF QuietStep, Begin, CreateDirTest, MakeDir, TestFile, OpenOutputFails, SyncOpens, FSync, OpenInput,
           InputLength, CloseInput, CopyBegins, CopyCreates, CopyOpens, CopyEnds, files
  <2> QED
    BY <1>0, <2>1, FailuresCount DEF Objects
<1>3. dirExists' \subseteq Dirs
  <2>1. call[t].pc = "mkdir" => call[t].dir \in Dirs
    BY <1>0 DEF Fits, Between
  <2> QED
    BY <1>0, <2>1 DEF Objects, QuietStep, Begin, CreateDirTest, MakeDir, TestFile, At,
       OpenOutputFails, SyncOpens, FSync, OpenInput, InputLength, CloseInput, CopyBegins, CopyCreates, CopyOpens,
       CopyEnds, files
<1>4. m_isOpen' \in [Dirs -> BOOLEAN] /\ m_checked' \in [Dirs -> BOOLEAN]
  BY <1>0 DEF Objects, QuietStep, Begin, CreateDirTest, MakeDir, TestFile,
     OpenOutputFails, SyncOpens, FSync, OpenInput, InputLength, CloseInput, CopyBegins, CopyCreates, CopyOpens,
     CopyEnds, objects
<1>5. GoodFiles(file') /\ Unwritten
  <2>1. CASE UNCHANGED file
    BY <1>0, <2>1 DEF GoodFiles, Unwritten
  <2>2. CASE Forget
    BY <1>0, <2>2, ForgetFiles
  <2>3. CASE FSync(t) /\ Synced(t)
    <3>1. call[t].fd \in Inodes
      BY <1>0, <2>3 DEF FSync, At, Fits, Calls
    <3> QED
      BY <1>0, <2>3, <3>1, SyncedFiles
  <2> QED
    BY <2>1, <2>2, <2>3 DEF QuietStep, Begin, CreateDirTest, MakeDir, TestFile, OpenOutputFails, SyncOpens, FSync,
       OpenInput, InputLength, CloseInput, CopyBegins, CopyCreates, CopyOpens, CopyEnds, files
<1> QED
  BY <1>0, <1>1, <1>2, <1>3, <1>4, <1>5, StoredIs DEF Objects, Stored, Named

\* A name is removed: the file is no longer there for it, and others stay.
RemovesName(t) ==
  \/ RemoveOld(t) /\ Unlink(t)
  \/ DeleteFile(t) /\ Unlink(t)

LEMMA RemoveFiles ==
  ASSUME Stored, Placed, NEW t \in Threads, RemovesName(t)
  PROVE  /\ Stored' /\ Unwritten
         /\ call[t].dir \in Dirs /\ call[t].name \in Names /\ entry'[call[t].dir][call[t].name] = None
         /\ \A d \in Dirs, n \in Names : ~(d = call[t].dir /\ n = call[t].name) => entry'[d][n] = entry[d][n]
<1>0. Objects /\ Named(entry) /\ GoodFiles(file) /\ Fits(call[t], out[t], in[t], copy[t])
  BY StoredIs DEF Placed
<1>1. call[t].pc \in {"remove", "delete"}
  BY DEF RemovesName, RemoveOld, DeleteFile, At
<1>2. call[t].dir \in Dirs /\ call[t].name \in Names
  BY <1>0, <1>1 DEF Fits, Between
<1>3. /\ entry' = [entry EXCEPT ![call[t].dir][call[t].name] = None]
      /\ UNCHANGED <<setup, onDisk, dirExists, objects, failures>>
  BY DEF RemovesName, RemoveOld, DeleteFile, Unlink, SystemWorks
<1>4. Forget
  <2>1. Target(t) # None
    BY DEF RemovesName, Unlink
  <2> QED
    BY <1>3, <2>1, <1>2, <1>0 DEF RemovesName, RemoveOld, DeleteFile, UnlinkFails, Unlink, Target, Named
<1>5. GoodFiles(file') /\ Unwritten
  BY <1>0, <1>4, ForgetFiles
<1>6. /\ entry'[call[t].dir][call[t].name] = None
      /\ \A d \in Dirs, n \in Names : ~(d = call[t].dir /\ n = call[t].name) => entry'[d][n] = entry[d][n]
      /\ entry' \in [Dirs -> [Names -> Inodes \cup {None}]]
  BY <1>0, <1>2, <1>3 DEF Named
<1>7. Named(entry')
  BY <1>0, <1>6 DEF Named
<1> QED
  BY <1>0, <1>2, <1>3, <1>5, <1>6, <1>7, StoredIs DEF Objects, Stored, Named, objects

LEMMA UnlinkFailsFiles ==
  ASSUME Stored, NEW t \in Threads, UnlinkFails(t), UNCHANGED <<onDisk, dirExists, objects>>
  PROVE  Stored' /\ UNCHANGED entry /\ Unwritten
<1>1. failures' \in Nat
  BY FailuresCount DEF UnlinkFails, Stored
<1>2. UNCHANGED <<entry, file>>
  BY DEF UnlinkFails
<1> QED
  BY <1>1, <1>2 DEF UnlinkFails, Stored, Unwritten, GoodFiles, objects

\* A file is made, or truncated, and then it is one that several write.
OpensInode(t, i) ==
  /\ call[t].dir \in Dirs /\ call[t].name \in Names /\ i \in Inodes
  /\ IF Target(t) # None THEN i = Target(t) ELSE i \notin InUse
  /\ entry'[call[t].dir][call[t].name] = i
  /\ \A d \in Dirs, n \in Names : ~(d = call[t].dir /\ n = call[t].name) => entry'[d][n] = entry[d][n]
  /\ out' = [out EXCEPT ![t] = Stream(i)]
  /\ file'[i].data = <<>> /\ (file'[i].shared <=> Target(t) # None)
  /\ \A j \in Inodes \ {i} : file'[j] = file[j]

LEMMA OpenFiles ==
  ASSUME Stored, Placed, HeldOnce, NEW t \in Threads, OpenOutput(t)
  PROVE  Stored' /\ \E i \in Inodes : OpensInode(t, i)
<1>0. Objects /\ Named(entry) /\ GoodFiles(file) /\ Fits(call[t], out[t], in[t], copy[t])
  BY StoredIs DEF Placed
<1>1. call[t].pc = "open"
  BY DEF OpenOutput, At
<1>2. call[t].dir \in Dirs /\ call[t].name \in Names
  BY <1>0, <1>1 DEF Fits, Between
<1> DEFINE d == call[t].dir
           n == call[t].name
           i == IF Target(t) # None THEN Target(t) ELSE Unused(d, n)
           s == Target(t) # None
<1>3. i \in Inodes /\ (Target(t) = None => i \notin InUse) /\ i[1] = d /\ i[2] = n
  BY <1>0, <1>2, UnusedInode DEF Target, Named
<1>4. /\ entry' = [entry EXCEPT ![d][n] = i] /\ out' = [out EXCEPT ![t] = Stream(i)]
      /\ file' = [file EXCEPT ![i] = [Empty EXCEPT !.shared = s]]
      /\ UNCHANGED <<setup, onDisk, dirExists, objects, failures>>
  BY DEF OpenOutput, SystemWorks
<1> HIDE DEF i
<1>5. s \in BOOLEAN
  OBVIOUS
<1>6. GoodFiles(file') /\ file'[i].data = <<>> /\ file'[i].shared = s /\ \A j \in Inodes \ {i} : file'[j] = file[j]
  <2> HIDE DEF s
  <2> QED
    BY <1>0, <1>3, <1>4, <1>5, NewFiles
<1>7. /\ entry'[d][n] = i
      /\ \A e \in Dirs, m \in Names : ~(e = d /\ m = n) => entry'[e][m] = entry[e][m]
      /\ entry' \in [Dirs -> [Names -> Inodes \cup {None}]]
  BY <1>0, <1>2, <1>3, <1>4 DEF Named
<1>8. Named(entry')
  BY <1>0, <1>3, <1>7 DEF Named
<1>9. Stored'
  BY <1>0, <1>4, <1>6, <1>8, StoredIs DEF Objects, Stored, Named, objects
<1>10. OpensInode(t, i)
  BY <1>2, <1>3, <1>4, <1>6, <1>7 DEF OpensInode, i
<1> QED
  BY <1>3, <1>9, <1>10

\* What a stream has in its buffer goes to its file, or is lost.
Writes(o) ==
  \A i \in Inodes : i \in InUse' =>
    /\ file'[i].shared = file[i].shared
    /\ file'[i].data = IF i = o.ino THEN Overwrite(file[i].data, o.put, Pending(o)) ELSE file[i].data
FlushWrites(t, o, closes) ==
  /\ o.good /\ SystemWorks /\ Writes(o)
  /\ out' = [out EXCEPT ![t] = IF closes THEN None ELSE [o EXCEPT !.put = Len(o.wrote)]]
FlushLoses(t, o, closes) ==
  /\ SystemFails \/ ~o.good
  /\ Unwritten
  /\ \/ closes /\ out' = [out EXCEPT ![t] = None]
     \/ ~closes /\ out' = [out EXCEPT ![t] = [o EXCEPT !.good = FALSE]]
     \/ ~closes /\ ~o.good /\ out' = [out EXCEPT ![t] = o]

LEMMA FlushFiles ==
  ASSUME GoodFiles(file), NEW t \in Threads, NEW o \in Outputs, o.put <= Len(o.wrote),
         o.good => o.ino # None, NEW closes \in BOOLEAN, Flush(t, o, closes)
  PROVE  /\ GoodFiles(file') /\ (SystemFails \/ SystemWorks)
         /\ FlushWrites(t, o, closes) \/ FlushLoses(t, o, closes)
<1> DEFINE works == [o EXCEPT !.put = Len(o.wrote)]
           fails == [o EXCEPT !.good = FALSE]
           put == [file EXCEPT ![o.ino].data = Overwrite(@, o.put, Pending(o))]
           Ends(p) == out' = [out EXCEPT ![t] = IF closes THEN None ELSE p]
<1>1. \/ o.good /\ SystemWorks /\ Ends(works) /\ Keep(put)
      \/ o.good /\ SystemFails /\ Ends(fails) /\ Forget
      \/ ~o.good /\ SystemWorks /\ Ends(o) /\ Forget
  BY DEF Flush
<1>2. CASE o.good /\ SystemWorks /\ Ends(works) /\ Keep(put)
  <2> DEFINE bs == Pending(o)
  <2>1. o.ino \in Inodes /\ o.put \in Nat /\ o.wrote \in Seq(Blocks)
    BY <1>2 DEF Outputs
  <2>2. bs \in Seq(Blocks)
    <3>1. Len(o.wrote) \in Nat
      BY <2>1
    <3> QED
      BY <2>1, <3>1 DEF Pending
  <2> HIDE DEF bs
  <2>3. /\ GoodFiles(put)
        /\ put[o.ino].data = Overwrite(file[o.ino].data, o.put, bs) /\ put[o.ino].shared = file[o.ino].shared
        /\ \A j \in Inodes \ {o.ino} : put[j] = file[j]
    BY <2>1, <2>2, PutFiles DEF bs
  <2> HIDE DEF put
  <2>4. GoodFiles(file') /\ \A i \in Inodes : i \in InUse' => file'[i] = put[i]
    BY <1>2, <2>3, KeepFiles
  <2>5. Writes(o)
    BY <2>3, <2>4 DEF Writes, bs
  <2> QED
    BY <1>2, <2>4, <2>5 DEF FlushWrites
<1>3. CASE o.good /\ SystemFails /\ Ends(fails) /\ Forget
  BY <1>3, ForgetFiles DEF FlushLoses
<1>4. CASE ~o.good /\ SystemWorks /\ Ends(o) /\ Forget
  BY <1>4, ForgetFiles DEF FlushLoses
<1> QED
  BY <1>1, <1>2, <1>3, <1>4

\* The steps of a stream that writes: a block of a copy() or of a thread, and the end.
Appends(t, b) ==
  LET o == [out[t] EXCEPT !.wrote = Append(@, b)]
  IN  \/ FlushWrites(t, o, FALSE) \/ FlushLoses(t, o, FALSE)
      \/ Unwritten /\ out' = [out EXCEPT ![t] = o]

LEMMA AppendFiles ==
  ASSUME Stored, Placed, NEW t \in Threads, out[t] # None, NEW b \in Blocks, Append1(t, b),
         UNCHANGED <<setup, onDisk, dirExists, entry, objects>>
  PROVE  Stored' /\ Appends(t, b)
<1> DEFINE o == [out[t] EXCEPT !.wrote = Append(@, b)]
<1>0. Objects /\ Named(entry) /\ GoodFiles(file) /\ Fits(call[t], out[t], in[t], copy[t])
  BY StoredIs DEF Placed
<1>1. out[t] \in Outputs /\ out[t].put <= Len(out[t].wrote) /\ (out[t].good => out[t].ino # None)
  BY <1>0 DEF Fits
<1>2. o \in Outputs /\ o.good = out[t].good /\ o.ino = out[t].ino /\ o.put <= Len(o.wrote)
  BY <1>1, AppendFits
<1>3. \/ Flush(t, o, FALSE)
      \/ out' = [out EXCEPT ![t] = o] /\ UNCHANGED <<file, failures>>
  BY DEF Append1
<1> HIDE DEF o
<1>4. CASE Flush(t, o, FALSE)
  <2>1. GoodFiles(file') /\ (SystemFails \/ SystemWorks) /\ (FlushWrites(t, o, FALSE) \/ FlushLoses(t, o, FALSE))
    BY <1>0, <1>1, <1>2, <1>4, FlushFiles
  <2>2. failures' \in Nat
    BY <1>0, <2>1, FailuresCount DEF Objects
  <2> QED
    BY <1>0, <2>1, <2>2, StoredIs DEF Appends, o, Stored, Objects, Named, objects
<1>5. CASE out' = [out EXCEPT ![t] = o] /\ UNCHANGED <<file, failures>>
  BY <1>0, <1>5 DEF Appends, o, Stored, Objects, Named, objects, GoodFiles, Unwritten
<1> QED
  BY <1>3, <1>4, <1>5
Closes(t) == FlushWrites(t, out[t], TRUE) \/ FlushLoses(t, out[t], TRUE)

LEMMA CloseFiles ==
  ASSUME Stored, Placed, NEW t \in Threads, out[t] # None, Flush(t, out[t], TRUE),
         UNCHANGED <<setup, onDisk, dirExists, entry, objects>>
  PROVE  Stored' /\ Closes(t)
<1>0. Objects /\ Named(entry) /\ GoodFiles(file) /\ Fits(call[t], out[t], in[t], copy[t])
  BY StoredIs DEF Placed
<1>1. out[t] \in Outputs /\ out[t].put <= Len(out[t].wrote) /\ (out[t].good => out[t].ino # None)
  BY <1>0 DEF Fits
<1>2. GoodFiles(file') /\ (SystemFails \/ SystemWorks) /\ Closes(t)
  BY <1>0, <1>1, FlushFiles DEF Closes
<1>3. failures' \in Nat
  BY <1>0, <1>2, FailuresCount DEF Objects
<1> QED
  BY <1>0, <1>2, <1>3 DEF Stored, Objects, Named, objects

-----------------------------------------------------------------------------
(* What a step of a thread is *)

ThreadStep(t) ==
  \/ Begin(t) \/ CopyBegins(t) \/ Continue(t)
  \/ WriteBlock(t) \/ CloseOutput(t) \/ CloseInput(t)

LEMMA StepMoves ==
  ASSUME Stored, Placed, HeldOnce, NEW t \in Threads, ThreadStep(t)
  PROVE  Moves(t)
BY BeginsMoves, CopyBeginsMoves, CreatesMoves, OpensMoves, DeletesMoves, SyncsMoves, ReadsMoves, WritesMoves,
   CopyCreatesMoves, CopyOpensMoves, CopyBlockMoves, CopyCleansUpMoves, CopyEndsMoves
   DEF ThreadStep, Continue

\* A step that does not write, with what it does to the files.
Quiet(t) == UNCHANGED entry /\ Unwritten
CopyWrites(t) ==
  /\ call[t].pc = "copying" /\ out[t] # None /\ in[t] \in Inputs
  /\ in[t].pos < in[t].len /\ in[t].pos < Len(file[in[t].ino].data)
  /\ in' = [in EXCEPT ![t].pos = @ + 1] /\ UNCHANGED <<call, copy>>
  /\ Appends(t, file[in[t].ino].data[in[t].pos + 1])
StepKinds(t) ==
  \/ Quiet(t) /\ (QuietStep(t) \/ RemoveOld(t) \/ DeleteFile(t) \/ UNCHANGED out)
  \/ RemovesName(t)
  \/ OpenOutput(t)
  \/ UNCHANGED entry /\ WriteBlock(t) /\ Appends(t, t)
  \/ UNCHANGED entry /\ CopyBlock(t) /\ CopyWrites(t)
  \/ UNCHANGED entry /\ (CloseOutput(t) \/ CopyCleansUp(t)) /\ out[t] # None /\ Closes(t)

LEMMA CopyBlockFiles ==
  ASSUME Stored, Placed, NEW t \in Threads, CopyBlock(t)
  PROVE  /\ Stored' /\ UNCHANGED entry
         /\ CopyWrites(t) \/ (Unwritten /\ UNCHANGED streams)
<1>0. Objects /\ Named(entry) /\ GoodFiles(file) /\ Fits(call[t], out[t], in[t], copy[t])
  BY StoredIs DEF Placed
<1>1. call[t].pc = "copying" /\ copy[t] # None /\ out[t] # None /\ in[t] \in Inputs
  BY <1>0 DEF CopyBlock, At, Fits, OutsideCopy, InsideCopy, Between
<1> DEFINE data == file[in[t].ino].data
<1>2. data \in Seq(Blocks) /\ in[t].pos \in Nat /\ in[t].len \in Nat
  BY <1>0, <1>1 DEF GoodFiles, Inputs, Files
<1>3. Len(data) \in Nat
  BY <1>2
<1> HIDE DEF data
<1>4. CASE in[t].pos < in[t].len /\ in[t].pos < Len(data)
  <2>1. /\ in' = [in EXCEPT ![t].pos = @ + 1] /\ Append1(t, data[in[t].pos + 1])
        /\ UNCHANGED <<setup, onDisk, dirExists, entry, objects, call, copy>>
    BY <1>2, <1>3, <1>4 DEF CopyBlock, data
  <2>2. data[in[t].pos + 1] \in Blocks
    BY <1>2, <1>4
  <2> QED
    BY <1>1, <1>4, <2>1, <2>2, AppendFiles DEF CopyWrites, data
<1>5. CASE ~(in[t].pos < in[t].len /\ in[t].pos < Len(data))
  <2>1. UNCHANGED <<files, objects, streams>>
    BY <1>2, <1>3, <1>5 DEF CopyBlock, data
  <2> QED
    BY <1>0, <2>1 DEF files, objects, streams, Stored, Objects, Named, GoodFiles, Unwritten
<1> QED
  BY <1>4, <1>5

LEMMA CleanFiles ==
  ASSUME Stored, Placed, NEW t \in Threads, CopyCleansUp(t)
  PROVE  /\ Stored' /\ UNCHANGED entry
         /\ IF out[t] # None THEN Closes(t) ELSE Unwritten /\ UNCHANGED out
<1>1. CASE out[t] # None
  BY <1>1, CloseFiles DEF CopyCleansUp
<1>2. CASE out[t] = None
  <2>1. Forget /\ UNCHANGED <<setup, onDisk, dirExists, entry, objects, failures, out>>
    BY <1>2 DEF CopyCleansUp
  <2> QED
    BY <1>2, <2>1, StoredIs, ForgetFiles DEF Stored, Objects, Named, objects
<1> QED
  BY <1>1, <1>2

LEMMA StepFiles ==
  ASSUME Stored, Placed, HeldOnce, NEW t \in Threads, ThreadStep(t)
  PROVE  Stored' /\ StepKinds(t)
<1>1. CASE QuietStep(t)
  BY <1>1, QuietFiles DEF StepKinds, Quiet
<1>2. CASE RemoveOld(t) \/ DeleteFile(t)
  <2>1. CASE RemovesName(t)
    BY <2>1, RemoveFiles DEF StepKinds
  <2>2. CASE ~RemovesName(t)
    <3>1. UnlinkFails(t) /\ UNCHANGED <<onDisk, dirExists, objects>>
      BY <1>2, <2>2 DEF RemovesName, RemoveOld, DeleteFile
    <3> QED
      BY <1>2, <3>1, UnlinkFailsFiles DEF StepKinds, Quiet
  <2> QED
    BY <2>1, <2>2
<1>3. CASE OpenOutput(t)
  BY <1>3, OpenFiles DEF StepKinds
<1>4. CASE WriteBlock(t)
  <2>1. t \in Blocks
    BY DEF Blocks
  <2> QED
    BY <1>4, <2>1, AppendFiles DEF WriteBlock, StepKinds
<1>5. CASE CopyBlock(t)
  BY <1>5, CopyBlockFiles DEF StepKinds, Quiet, streams
<1>6. CASE CloseOutput(t)
  BY <1>6, CloseFiles DEF CloseOutput, StepKinds
<1>7. CASE CopyCleansUp(t)
  BY <1>7, CleanFiles DEF StepKinds, Quiet
<1> QED
  BY <1>1, <1>2, <1>3, <1>4, <1>5, <1>6, <1>7 DEF ThreadStep, Continue, QuietStep

\* What another thread does while one is in a copy().
LEMMA Bystander ==
  ASSUME Stored, Placed, HeldOnce, CopyIsAlone, NEW t \in Threads, NEW u \in Threads, t # u,
         copy[u] # None, ThreadStep(t)
  PROVE  /\ QuietStep(t) /\ UNCHANGED entry /\ Unwritten
         /\ call'[t].pc \in {"idle", "sync", "fsync", "openin", "length"}
         /\ copy'[t] = None /\ out'[t] = None
         /\ copy'[u] = copy[u] /\ call'[u] = call[u] /\ out'[u] = out[u] /\ in'[u] = in[u]
<1>0. Moves(t)
  BY StepMoves
<1>1. copy[t] = None /\ out[t] = None /\ call[t].pc \in {"idle", "sync", "fsync", "openin", "length"}
  BY DEF CopyIsAlone
<1>2. copy'[u] = copy[u] /\ call'[u] = call[u] /\ out'[u] = out[u] /\ in'[u] = in[u]
  BY <1>0 DEF Moves, Stays
<1>3. ~MayChange(t)
  BY DEF MayChange
<1>4. \/ Begin(t) \/ SyncOpens(t) \/ FSync(t) \/ OpenInput(t) \/ InputLength(t) \/ CloseInput(t)
  BY <1>1, <1>3 DEF ThreadStep, Continue, CopyBegins, WriteBlock, CloseOutput, CreateDirTest, MakeDir, TestFile,
     RemoveOld, OpenOutput, OpenOutputFails, DeleteFile, CopyCreates, CopyOpens, CopyBlock, CopyCleansUp, CopyEnds,
     At
<1>5. out'[t] = None /\ copy'[t] = None
  <2>1. UNCHANGED out
    BY <1>4 DEF Begin, SyncOpens, FSync, OpenInput, InputLength, CloseInput, streams
  <2>2. copy'[t] = None
    BY <1>1, <1>4 DEF Begin, Enter, SyncOpens, FSync, TriesAgain, OpenInput, InputLength, CloseInput, Throws,
       Returns, Placed
  <2> QED
    BY <1>1, <2>1, <2>2
<1>6. call'[t].pc \in {"idle", "sync", "fsync", "openin", "length"}
  <2>0. call[t] \in Calls
    BY DEF Placed
  <2>1. ASSUME NEW e, Throws(t, e) PROVE call'[t].pc = "idle"
    BY <1>1, <2>1, ThrowsOnly, EndedCall DEF AtRest
  <2>2. ASSUME NEW pc, Returns(t, pc) PROVE call'[t].pc = "idle"
    BY <1>1, <2>2, ReturnsOnly, EndedCall DEF AtRest
  <2>3. CASE Begin(t)
    <3>1. PICK d \in Dirs, n \in Names, pc \in {"openin", "sync"} : Enter(t, pc, d, n)
      BY <1>3, <2>3, SetupsAssumption DEF Begin, Stored
    <3>2. CASE m_isOpen[d]
      BY <3>1, <3>2, EnterOnly
    <3>3. CASE ~m_isOpen[d]
      BY <2>1, <3>1, <3>3 DEF Enter
    <3> QED
      BY <3>2, <3>3
  <2>4. CASE SyncOpens(t) \/ FSync(t)
    <3>1. ASSUME call' = [call EXCEPT ![t].pc = "fsync", ![t].fd = Target(t)] PROVE call'[t].pc = "fsync"
      BY <2>0, <3>1 DEF Calls, Placed
    <3>2. ASSUME call' = [call EXCEPT ![t].tries = @ + 1, ![t].pc = "sync", ![t].fd = None]
          PROVE  call'[t].pc = "sync"
      BY <2>0, <3>2 DEF Calls, Placed
    <3> QED
      BY <2>1, <2>2, <2>4, <3>1, <3>2 DEF SyncOpens, FSync, TriesAgain
  <2>5. CASE OpenInput(t)
    <3>1. ASSUME GoesTo(t, "length") PROVE call'[t].pc = "length"
      <4>1. call'[t] = [call[t] EXCEPT !.pc = "length"]
        BY <3>1, GoesToOnly
      <4> QED
        BY <2>0, <4>1 DEF Calls
    <3> QED
      BY <2>1, <2>5, <3>1 DEF OpenInput
  <2>6. CASE InputLength(t)
    <3>1. ASSUME call' = [call EXCEPT ![t].tries = @ + 1] PROVE call'[t].pc = call[t].pc
      BY <2>0, <3>1 DEF Calls, Placed
    <3> QED
      BY <1>1, <2>2, <2>6, <3>1 DEF InputLength
  <2>7. CASE CloseInput(t)
    BY <1>1, <2>7 DEF CloseInput
  <2> QED
    BY <1>4, <2>3, <2>4, <2>5, <2>6, <2>7
<1>7. QuietStep(t)
  BY <1>4 DEF QuietStep
<1> QED
  BY <1>2, <1>5, <1>6, <1>7, QuietFiles

\* In a copy(), a thread that was not in one has nothing yet.
LEMMA CopyStarts ==
  ASSUME Stored, Placed, NEW t \in Threads, ThreadStep(t), copy[t] = None, copy'[t] # None
  PROVE  CopyBegins(t) /\ out[t] = None /\ in[t] = None /\ UNCHANGED streams /\ call'[t].pc = "next"
         /\ copy'[t].listed = list_all(Src) /\ copy'[t].todo = list_all(Src)
<1>0. Fits(call[t], out[t], in[t], copy[t])
  BY DEF Placed
<1>1. \A e : Throws(t, e) => copy'[t] = None
  BY DEF Throws, Placed
<1>2. \A d, n, pc : Enter(t, pc, d, n) => copy'[t] = None
  BY <1>1 DEF Enter
<1>3. TriesAgain(t) => copy'[t] = None
  BY <1>1 DEF TriesAgain
<1>4. \A pc : Returns(t, pc) => copy'[t] = None
  BY DEF Returns
<1>5. call[t].pc \notin Between
  BY <1>0 DEF Fits, OutsideCopy
<1>6. CopyBegins(t)
  BY <1>1, <1>2, <1>3, <1>4, <1>5 DEF ThreadStep, Continue, Begin, CreateDirTest, MakeDir, TestFile, RemoveOld,
     UnlinkFails, OpenOutput, OpenOutputFails, DeleteFile, SyncOpens, FSync, OpenInput, InputLength, WriteBlock,
     CloseOutput, CloseInput, CopyCreates, CopyOpens, CopyBlock, CopyCleansUp, CopyEnds, At, Between
<1>7. GoesTo(t, "next")
      /\ copy' = [copy EXCEPT ![t] = [listed |-> list_all(Src), todo |-> list_all(Src), name |-> None,
                                      finally |-> "Null", lost |-> FALSE]]
  BY <1>1, <1>6 DEF CopyBegins
<1>8. call'[t].pc = "next"
  <2>1. call'[t] = [call[t] EXCEPT !.pc = "next"]
    BY <1>7, GoesToOnly
  <2> QED
    BY <1>0, <2>1 DEF Fits, Calls
<1>9. copy'[t].listed = list_all(Src) /\ copy'[t].todo = list_all(Src)
  BY <1>7 DEF Placed
<1> QED
  BY <1>6, <1>8, <1>9 DEF CopyBegins, NoStream, streams

LEMMA StepAlone ==
  ASSUME Stored, Placed, HeldOnce, CopyIsAlone, NEW t \in Threads, ThreadStep(t)
  PROVE  CopyIsAlone'
<1> SUFFICES ASSUME NEW u \in Threads, copy'[u] # None, NEW v \in Threads, v # u
             PROVE  /\ copy'[v] = None /\ out'[v] = None
                    /\ call'[v].pc \in {"idle", "sync", "fsync", "openin", "length"}
  BY DEF CopyIsAlone
<1>0. Moves(t)
  BY StepMoves
<1>1. CASE u = t
  <2>1. copy[v] = None /\ out[v] = None /\ call[v].pc \in {"idle", "sync", "fsync", "openin", "length"}
    <3>1. CASE copy[t] # None
      BY <1>1, <3>1 DEF CopyIsAlone
    <3>2. CASE copy[t] = None
      BY <1>1, <3>2, CopyStarts DEF CopyBegins
    <3> QED
      BY <3>1, <3>2
  <2>2. Stays(v)
    BY <1>0, <1>1 DEF Moves
  <2> QED
    BY <2>1, <2>2 DEF Stays, Making
<1>2. CASE u # t
  <2>1. copy[u] # None
    BY <1>0, <1>2 DEF Moves, Stays
  <2>2. CASE v = t
    BY <1>2, <2>1, <2>2, Bystander
  <2>3. CASE v # t
    <3>1. Stays(v) /\ copy[v] = None /\ out[v] = None /\ call[v].pc \in {"idle", "sync", "fsync", "openin", "length"}
      BY <1>0, <2>1, <2>3 DEF Moves, CopyIsAlone
    <3> QED
      BY <3>1 DEF Stays, Making
  <2> QED
    BY <2>2, <2>3
<1> QED
  BY <1>1, <1>2

\* A stream stays on its inode, and a new one is on that of its name.
InodesStay(t) ==
  /\ out[t] # None /\ out'[t] # None => out'[t].ino = out[t].ino
  /\ in[t] # None /\ in'[t] # None => in'[t].ino = in[t].ino
  /\ out[t] = None /\ out'[t] # None =>
       /\ OpenOutput(t) \/ OpenOutputFails(t)
       /\ out'[t].ino \in {None, entry'[call[t].dir][call[t].name]}
  /\ in[t] = None /\ in'[t] # None => OpenInput(t) /\ in'[t].ino = Target(t)

LEMMA FlushStays ==
  ASSUME Placed, NEW t \in Threads, NEW o \in Outputs, NEW closes \in BOOLEAN,
         FlushWrites(t, o, closes) \/ FlushLoses(t, o, closes)
  PROVE  out'[t] = None \/ out'[t].ino = o.ino
<1>1. out'[t] \in {None, [o EXCEPT !.put = Len(o.wrote)], [o EXCEPT !.good = FALSE], o}
  BY DEF FlushWrites, FlushLoses, Placed
<1> QED
  BY <1>1 DEF Outputs

LEMMA AppendsStays ==
  ASSUME Placed, NEW t \in Threads, out[t] # None, NEW b, Appends(t, b)
  PROVE  out'[t] = None \/ out'[t].ino = out[t].ino
<1> DEFINE o == [out[t] EXCEPT !.wrote = Append(@, b)]
<1>1. out[t] \in Outputs
  BY DEF Placed
<1>2. out'[t] \in {[o EXCEPT !.put = Len(o.wrote)], [o EXCEPT !.good = FALSE], o}
  BY DEF Appends, FlushWrites, FlushLoses, Placed
<1>3. o.ino = out[t].ino /\ DOMAIN o = DOMAIN out[t]
  BY <1>1 DEF Outputs
<1> HIDE DEF o
<1> QED
  BY <1>1, <1>2, <1>3 DEF Outputs

LEMMA StepInodes ==
  ASSUME Stored, Placed, HeldOnce, NEW t \in Threads, ThreadStep(t)
  PROVE  InodesStay(t)
<1>0. StepKinds(t) /\ Fits(call[t], out[t], in[t], copy[t])
  BY StepFiles DEF Placed
<1>1. CASE OpenOutput(t) \/ OpenOutputFails(t)
  <2>1. call[t].pc = "open" /\ UNCHANGED in
    BY <1>1 DEF OpenOutput, OpenOutputFails, At
  <2>2. out[t] = None
    BY <1>0, <2>1 DEF Fits, OutsideCopy, InsideCopy
  <2>3. out'[t].ino \in {None, entry'[call[t].dir][call[t].name]}
    <3>1. ASSUME NEW i \in Inodes, OpensInode(t, i) PROVE out'[t].ino = entry'[call[t].dir][call[t].name]
      BY <3>1, StreamFits DEF OpensInode, Placed
    <3>2. ASSUME OpenOutputFails(t) PROVE out'[t].ino = None
      BY <3>2, StreamFits DEF OpenOutputFails, Placed
    <3> QED
      BY <1>1, <3>1, <3>2, OpenFiles
  <2> QED
    BY <1>1, <2>1, <2>2, <2>3 DEF InodesStay
<1>2. CASE OpenInput(t)
  <2>1. call[t].pc = "openin" /\ UNCHANGED out
    BY <1>2 DEF OpenInput, At
  <2>2. in[t] = None
    BY <1>0, <2>1 DEF Fits, OutsideCopy, InsideCopy
  <2>3. in'[t] # None => in'[t].ino = Target(t)
    BY <1>2, <2>2 DEF OpenInput, Placed
  <2> QED
    BY <1>2, <2>1, <2>2, <2>3 DEF InodesStay
<1>3. CASE WriteBlock(t) \/ CopyBlock(t)
  <2>1. UNCHANGED in \/ in' = [in EXCEPT ![t].pos = @ + 1]
    BY <1>3 DEF WriteBlock, CopyBlock, streams
  <2>2. (in[t] = None => in'[t] = None) /\ (in[t] # None => in'[t].ino = in[t].ino)
    <3>1. CASE UNCHANGED in
      BY <3>1
    <3>2. CASE CopyBlock(t) /\ in' = [in EXCEPT ![t].pos = @ + 1]
      <4>1. in[t] \in Inputs
        BY <1>0, <3>2 DEF CopyBlock, At, Fits, OutsideCopy, InsideCopy, Between
      <4>2. in'[t] = [in[t] EXCEPT !.pos = @ + 1] /\ in[t] # None
        BY <3>2, <4>1, NoneAssumption DEF Placed
      <4> QED
        BY <4>1, <4>2 DEF Inputs
    <3> QED
      BY <1>3, <2>1, <3>1, <3>2 DEF WriteBlock
  <2>3. (out[t] # None /\ out'[t] # None => out'[t].ino = out[t].ino) /\ (out[t] = None => out'[t] = None)
    <3>1. CASE WriteBlock(t)
      <4>1. t \in Blocks /\ out[t] # None /\ Append1(t, t)
        BY <3>1 DEF Blocks, WriteBlock
      <4> QED
        BY <4>1, AppendOnly
    <3>2. CASE CopyBlock(t)
      BY <1>0, <3>2, CopyBlockFiles, AppendsStays DEF CopyWrites, streams
    <3> QED
      BY <1>3, <3>1, <3>2
  <2> QED
    BY <2>2, <2>3 DEF InodesStay
<1>4. CASE CloseOutput(t) \/ CopyCleansUp(t)
  <2>1. UNCHANGED in \/ in' = [in EXCEPT ![t] = None]
    BY <1>4 DEF CloseOutput, CopyCleansUp
  <2>2. UNCHANGED out \/ out'[t] = None
    <3>1. ASSUME Closes(t) PROVE out'[t] = None
      BY <3>1 DEF Closes, FlushWrites, FlushLoses, Placed
    <3> QED
      BY <1>4, <3>1, CleanFiles, CloseFiles DEF CloseOutput
  <2> QED
    BY <2>1, <2>2 DEF InodesStay, Placed
<1>5. CASE InputLength(t) \/ CloseInput(t)
  <2>1. UNCHANGED out
    BY <1>5 DEF InputLength, CloseInput
  <2>2. CASE in' = [in EXCEPT ![t].len = Length(t)] /\ InputLength(t)
    <3>1. in[t] \in Inputs /\ in[t] # None
      BY <1>0, <2>2 DEF InputLength, At, Fits, OutsideCopy, InsideCopy
    <3>2. in'[t] = [in[t] EXCEPT !.len = Length(t)]
      BY <2>2 DEF Placed
    <3>3. in'[t].ino = in[t].ino
      BY <3>1, <3>2 DEF Inputs
    <3> QED
      BY <2>1, <3>1, <3>3 DEF InodesStay
  <2>3. CASE UNCHANGED in \/ in' = [in EXCEPT ![t] = None]
    BY <2>1, <2>3 DEF InodesStay, Placed
  <2> QED
    BY <1>5, <2>2, <2>3 DEF InputLength, CloseInput
<1>6. CASE UNCHANGED streams
  BY <1>6 DEF streams, InodesStay
<1> QED
  BY <1>1, <1>2, <1>3, <1>4, <1>5, <1>6 DEF ThreadStep, Continue, Begin, CopyBegins, CreateDirTest, MakeDir,
     TestFile, RemoveOld, DeleteFile, SyncOpens, FSync, CopyCreates, CopyOpens, CopyEnds, streams

\* A copy() is with the same file until its next one.
LEMMA CopyStays ==
  ASSUME Stored, Placed, NEW t \in Threads, ThreadStep(t), copy[t] # None, copy'[t] # None, call[t].pc # "next"
  PROVE  /\ copy'[t].name = copy[t].name
         /\ copy'[t].listed = copy[t].listed /\ copy'[t].todo = copy[t].todo
         /\ call[t].pc # "cleanup" => copy'[t].lost = copy[t].lost
<1>0. copy[t] \in Copies /\ Fits(call[t], out[t], in[t], copy[t])
  BY DEF Placed
<1>1. \A e : Throws(t, e) => copy'[t] = [copy[t] EXCEPT !.finally = e]
  BY DEF Throws, Placed
<1>2. \A d, n, pc : Enter(t, pc, d, n) => copy'[t] = copy[t] \/ \E e : copy'[t] = [copy[t] EXCEPT !.finally = e]
  BY <1>1 DEF Enter
<1>3. TriesAgain(t) => copy'[t] = copy[t] \/ \E e : copy'[t] = [copy[t] EXCEPT !.finally = e]
  BY <1>1 DEF TriesAgain
<1>4. CopyCleansUp(t) => \E l : copy'[t] = [copy[t] EXCEPT !.lost = l]
  <2> SUFFICES ASSUME CopyCleansUp(t) PROVE \E l : copy'[t] = [copy[t] EXCEPT !.lost = l]
    OBVIOUS
  <2>1. ~throw_exception(copy[t].finally)
    BY DEF CopyCleansUp, Placed
  <2> QED
    BY <2>1 DEF CopyCleansUp, Placed
<1>5. \/ copy'[t] = copy[t]
      \/ \E e : copy'[t] = [copy[t] EXCEPT !.finally = e]
      \/ call[t].pc = "cleanup" /\ \E l : copy'[t] = [copy[t] EXCEPT !.lost = l]
  BY <1>0, <1>1, <1>2, <1>3, <1>4 DEF ThreadStep, Continue, Begin, CreateDirTest, MakeDir, TestFile, RemoveOld,
     UnlinkFails, OpenOutput, OpenOutputFails, DeleteFile, SyncOpens, FSync, OpenInput, InputLength, WriteBlock,
     CloseOutput, CloseInput, CopyBegins, CopyCreates, CopyOpens, CopyBlock, CopyCleansUp, CopyEnds, At, Returns,
     Fits, InsideCopy, Between, Making
<1> QED
  BY <1>0, <1>5 DEF Copies

LEMMA EntryStays ==
  ASSUME Stored, Placed, HeldOnce, NEW t \in Threads, ThreadStep(t),
         call[t].pc \notin {"remove", "delete", "open"}
  PROVE  UNCHANGED entry
<1>1. StepKinds(t)
  BY StepFiles
<1> QED
  BY <1>1 DEF StepKinds, Quiet, RemovesName, RemoveOld, DeleteFile, OpenOutput, At

LEMMA StepHasFiles ==
  ASSUME Stored, Placed, HeldOnce, CopyIsAlone, CopyHasFiles, NEW t \in Threads, ThreadStep(t)
  PROVE  CopyHasFiles'
<1> SUFFICES ASSUME NEW u \in Threads, copy'[u] # None
             PROVE  /\ out'[u] # None => out'[u].ino \in {None, entry'[Dest][copy'[u].name]}
                    /\ in'[u] # None => in'[u].ino = entry'[Src][copy'[u].name]
  BY DEF CopyHasFiles
<1>0. Fits(call[t], out[t], in[t], copy[t]) /\ InodesStay(t) /\ Moves(t)
  BY StepInodes, StepMoves DEF Placed
<1>1. CASE u # t
  <2>1. copy[u] # None
    BY <1>0, <1>1 DEF Moves, Stays
  <2> QED
    BY <1>1, <2>1, Bystander DEF CopyHasFiles
<1>2. CASE u = t /\ copy[t] = None
  BY <1>2, CopyStarts DEF streams
<1>3. CASE u = t /\ copy[t] # None
  <2>1. InsideCopy(call[t], out[t], in[t], copy[t])
    BY <1>0, <1>3 DEF Fits
  <2>2. CASE call[t].pc = "next"
    <3>1. UNCHANGED streams
      BY <2>2 DEF ThreadStep, Continue, Begin, CreateDirTest, MakeDir, TestFile, RemoveOld, OpenOutput,
         OpenOutputFails, DeleteFile, SyncOpens, FSync, OpenInput, InputLength, WriteBlock, CloseOutput, CloseInput,
         CopyBegins, CopyCreates, CopyOpens, CopyBlock, CopyCleansUp, CopyEnds, At
    <3> QED
      BY <1>3, <2>1, <2>2, <3>1 DEF InsideCopy, streams
  <2>3. CASE call[t].pc # "next"
    <3>1. copy'[t].name = copy[t].name
      BY <1>3, <2>3, CopyStays
    <3>2. out'[t] # None => out'[t].ino \in {None, entry'[Dest][copy[t].name]}
      <4>1. CASE out[t] # None
        <5>1. UNCHANGED entry
          BY <2>1, <4>1, EntryStays DEF InsideCopy
        <5> QED
          BY <1>0, <1>3, <4>1, <5>1 DEF InodesStay, CopyHasFiles
      <4>2. CASE out[t] = None
        BY <1>0, <2>1, <4>2 DEF InodesStay, OpenOutput, OpenOutputFails, At, InsideCopy, Making
      <4> QED
        BY <4>1, <4>2
    <3>3. in'[t] # None => in'[t].ino = entry'[Src][copy[t].name]
      <4>1. CASE in[t] # None
        <5>1. UNCHANGED entry
          BY <2>1, <4>1, EntryStays DEF InsideCopy
        <5> QED
          BY <1>0, <1>3, <4>1, <5>1 DEF InodesStay, CopyHasFiles
      <4>2. CASE in[t] = None
        BY <1>0, <2>1, <4>2 DEF InodesStay, OpenInput, At, InsideCopy, Target
      <4> QED
        BY <4>1, <4>2
    <3> QED
      BY <1>3, <3>1, <3>2, <3>3
  <2> QED
    BY <2>2, <2>3
<1> QED
  BY <1>1, <1>2, <1>3

-----------------------------------------------------------------------------
(* What holds in all states *)

Base == Stored /\ Placed /\ CopyHasFiles /\ CopyIsAlone

LEMMA InitBase == Init => Base
<1> SUFFICES ASSUME Init PROVE Base
  OBVIOUS
<1> USE DEF Init
<1>1. Stored
  <2>1. GoodFiles(file)
    BY EmptyIsGood DEF GoodFiles
  <2>2. setup \in Setups /\ dirExists \subseteq Dirs
    BY SetupsAssumption
  <2>3. Named(entry)
    BY DEF Named
  <2> QED
    BY <2>1, <2>2, <2>3 DEF Stored, Named
<1>2. Placed
  <2>1. AtRest(Idle, "idle")
    BY EndedCall
  <2>2. Fits(Idle, None, None, None)
    BY <2>1, IdleFits
  <2> QED
    BY <2>1, <2>2 DEF Placed, AtRest
<1>3. CopyHasFiles /\ CopyIsAlone
  BY DEF CopyHasFiles, CopyIsAlone
<1> QED
  BY <1>1, <1>2, <1>3 DEF Base

LEMMA StepBase ==
  ASSUME Base, NEW t \in Threads, ThreadStep(t) PROVE Base' /\ HeldOnce
BY HeldOnceHolds, StepMoves, MovesPlaced, StepFiles, StepAlone, StepHasFiles DEF Base

LEMMA ObjectsBase ==
  ASSUME Base, NEW d \in Dirs, Close(d) \/ Open(d) PROVE Base'
<1>1. UNCHANGED <<setup, onDisk, dirExists, entry, file, failures, call, out, in, copy>>
  BY DEF Close, Open, files, streams
<1>2. m_isOpen' \in [Dirs -> BOOLEAN] /\ m_checked' \in [Dirs -> BOOLEAN]
  BY DEF Close, Open, Base, Stored
<1> QED
  BY <1>1, <1>2 DEF Base, Stored, Named, Placed, CopyHasFiles, CopyIsAlone

\* A name goes to stable storage.
LEMMA WriteBackBase ==
  ASSUME Base, NEW d \in Dirs, NEW n \in Names, WriteBack(d, n)
  PROVE  /\ Base' /\ Unwritten
         /\ UNCHANGED <<dirExists, entry, objects, call, streams, copy>>
<1>1. /\ Forget /\ onDisk' = [onDisk EXCEPT ![d][n] = entry[d][n]]
      /\ UNCHANGED <<setup, dirExists, entry, failures, objects, call, streams, copy>>
  BY DEF WriteBack
<1>2. GoodFiles(file') /\ Unwritten
  BY <1>1, ForgetFiles DEF Base, Stored
<1>3. Named(onDisk')
  BY <1>1 DEF Base, Stored, Named
<1>4. Stored'
  BY <1>1, <1>2, <1>3 DEF Base, Stored, Named, objects
<1> QED
  BY <1>1, <1>2, <1>4 DEF Base, Placed, CopyHasFiles, CopyIsAlone, streams

\* What a crash leaves of a file.
Left(i, k) ==
  [data |-> SubSeq(file[i].data, 1, k), stable |-> k, safe |-> k, shared |-> file[i].shared]

LEMMA CrashFiles ==
  ASSUME GoodFiles(file), Crash
  PROVE  GoodFiles(file')
<1>1. PICK kept \in [Linked(onDisk) -> 0..setup.blocks] :
        /\ \A i \in Linked(onDisk) : kept[i] \in file[i].stable..Len(file[i].data)
        /\ file' = [i \in Inodes |-> IF i \notin Linked(onDisk) THEN Empty ELSE Left(i, kept[i])]
  BY DEF Crash, Left
<1>2. ASSUME NEW i \in Inodes, i \in Linked(onDisk)
      PROVE  /\ kept[i] \in Nat /\ file[i].stable <= kept[i] /\ kept[i] <= Len(file[i].data)
             /\ Left(i, kept[i]) \in Files
             /\ Left(i, kept[i]).safe <= Left(i, kept[i]).stable
             /\ Left(i, kept[i]).stable <= Len(Left(i, kept[i]).data)
  <2>1. file[i] \in Files /\ file[i].data \in Seq(Blocks) /\ Len(file[i].data) \in Nat /\ file[i].stable \in Nat
    BY DEF GoodFiles, Files
  <2>2. kept[i] \in Nat /\ file[i].stable <= kept[i] /\ kept[i] <= Len(file[i].data)
    BY <1>1, <1>2, <2>1
  <2> DEFINE d == SubSeq(file[i].data, 1, kept[i])
  <2>3. d \in Seq(Blocks) /\ Len(d) = kept[i]
    BY <2>1, <2>2
  <2> HIDE DEF d
  <2>4. Left(i, kept[i]) \in Files
    BY <2>1, <2>2, <2>3 DEF Left, Files, d
  <2>5. Left(i, kept[i]).safe = kept[i] /\ Left(i, kept[i]).stable = kept[i] /\ Left(i, kept[i]).data = d
    BY DEF Left, d
  <2> QED
    BY <2>2, <2>3, <2>4, <2>5
<1>3. \A i \in Inodes : file'[i] = IF i \notin Linked(onDisk) THEN Empty ELSE Left(i, kept[i])
  BY <1>1
<1>4. file' \in [Inodes -> Files]
  BY <1>1, <1>2, EmptyIsGood
<1> QED
  BY <1>2, <1>3, <1>4, EmptyIsGood DEF GoodFiles

LEMMA CrashBase ==
  ASSUME Base, Crash PROVE Base'
<1>1. Stored'
  BY CrashFiles DEF Base, Stored, Named, Crash
<1>2. Placed'
  <2>1. AtRest(Idle, "idle")
    BY EndedCall
  <2>2. Fits(Idle, None, None, None)
    BY <2>1, IdleFits
  <2> QED
    BY <2>1, <2>2 DEF Placed, AtRest, Crash
<1>3. CopyHasFiles' /\ CopyIsAlone'
  BY DEF CopyHasFiles, CopyIsAlone, Crash
<1> QED
  BY <1>1, <1>2, <1>3 DEF Base

\* The steps of the system, one by one.
LEMMA NextSteps ==
  ASSUME Stored, [Next]_vars
  PROVE  \/ \E t \in Threads : ThreadStep(t)
         \/ \E d \in Dirs : Close(d) \/ Open(d)
         \/ \E d \in Dirs, n \in Names : WriteBack(d, n)
         \/ Crash
         \/ UNCHANGED vars
BY SetupsAssumption DEF Next, Stored, ThreadStep

LEMMA SameBase == Base /\ UNCHANGED vars => Base'
BY DEF vars, files, objects, streams, Base, Stored, Named, Placed, CopyHasFiles, CopyIsAlone, GoodFiles

LEMMA NextBase == Base /\ [Next]_vars => Base'
BY NextSteps, StepBase, ObjectsBase, WriteBackBase, CrashBase, SameBase DEF Base

\* Whatever the threads, the directories and the failures: the files, the calls
\* and the streams of FSDirectory are of their types, and of no file is more
\* stable than it has.
THEOREM TypeCorrect == Spec => []TypeOK
<1>1. Base => TypeOK
  <2> SUFFICES ASSUME Base PROVE TypeOK
    OBVIOUS
  <2>1. ASSUME NEW t \in Threads
        PROVE  /\ call[t].tries \in 0..MaxTries
               /\ out[t] # None => out[t].put <= Len(out[t].wrote)
    <3>1. Fits(call[t], out[t], in[t], copy[t])
      BY DEF Base, Placed
    <3>2. call[t].tries \in Nat /\ call[t].tries <= MaxTries
      BY <3>1 DEF Fits, Calls
    <3> QED
      BY <3>1, <3>2, TriesAssumption DEF Fits, MaxTries
  <2> QED
    BY <2>1 DEF Base, Stored, Named, GoodFiles, Placed, MaxTries, TypeOK
<1> QED
  BY <1>1, InitBase, NextBase, PTL DEF Spec

-----------------------------------------------------------------------------
(* What a creation knows *)

\* A thread is in a creation after a step of it, or as it begins one.
Creates(t) == CreateDirTest(t) \/ MakeDir(t) \/ TestFile(t) \/ RemoveOld(t)
MakingGoes(t) ==
  \/ /\ call[t].pc = "idle" /\ call'[t].pc = "create" /\ MayChange(t) /\ UNCHANGED entry
     /\ \E d \in Dirs, n \in Names : m_isOpen[d] /\ Enter(t, "create", d, n)
  \/ call'[t].pc = "create" /\ CopyCreates(t)
  \/ /\ call[t].pc \in Making /\ Creates(t) /\ UNCHANGED copy
     /\ call'[t].dir = call[t].dir /\ call'[t].name = call[t].name /\ call'[t].overlaps = call[t].overlaps

LEMMA ThrowsEnds ==
  ASSUME Placed, NEW t \in Threads, NEW e, Throws(t, e) PROVE call'[t].pc \in {"idle", "cleanup"}
<1>1. CASE copy[t] = None
  BY <1>1, ThrowsOnly, EndedCall DEF AtRest
<1>2. CASE copy[t] # None
  <2>1. call'[t] = [Idle EXCEPT !.pc = "cleanup"]
    BY <1>2, ThrowsOnly
  <2> QED
    BY <2>1, EndedCall DEF AtRest, Between
<1> QED
  BY <1>1, <1>2

LEMMA ReturnsEnds ==
  ASSUME Placed, NEW t \in Threads, NEW pc \in {"idle"} \cup Between, Returns(t, pc)
  PROVE  call'[t].pc \in {"idle"} \cup Between
<1> DEFINE then == IF copy[t] = None THEN "idle" ELSE pc
<1>1. call'[t] = [Idle EXCEPT !.pc = then]
  BY ReturnsOnly
<1>2. then \in {"idle"} \cup Between
  OBVIOUS
<1> HIDE DEF then
<1> QED
  BY <1>1, <1>2, EndedCall DEF AtRest

LEMMA GoesToPc ==
  ASSUME Placed, NEW t \in Threads, NEW pc, GoesTo(t, pc)
  PROVE  call'[t].pc = pc /\ call'[t].dir = call[t].dir /\ call'[t].name = call[t].name
         /\ call'[t].overlaps = call[t].overlaps
<1>1. call'[t] = [call[t] EXCEPT !.pc = pc] /\ call[t] \in Calls
  BY GoesToOnly DEF Placed
<1> QED
  BY <1>1 DEF Calls

LEMMA MakingSteps ==
  ASSUME Base, NEW t \in Threads, ThreadStep(t), call'[t].pc \in Making
  PROVE  MakingGoes(t)
<1>0. Placed /\ call[t] \in Calls /\ Fits(call[t], out[t], in[t], copy[t])
  BY DEF Base, Placed
<1>1. \A e : ~Throws(t, e)
  BY <1>0, ThrowsEnds DEF Making
<1>2. \A pc \in {"idle"} \cup Between : ~Returns(t, pc)
  BY <1>0, ReturnsEnds DEF Making, Between
<1>3. \A pc : GoesTo(t, pc) => pc \in Making
  BY <1>0, GoesToPc
<1>4. CASE Begin(t)
  <2>1. call[t].pc = "idle" /\ UNCHANGED entry
    BY <1>4 DEF Begin, At, files
  <2>2. PICK d \in Dirs, n \in Names, pc \in {"create", "openin", "delete", "sync"} :
          (pc = "create" => MayChange(t)) /\ Enter(t, pc, d, n)
    BY <1>4, SetupsAssumption DEF Begin, Base, Stored
  <2>3. m_isOpen[d]
    BY <1>1, <2>2 DEF Enter
  <2>4. call'[t].pc = pc
    BY <1>0, <2>2, <2>3, EnterOnly
  <2>5. pc = "create"
    BY <2>2, <2>4 DEF Making
  <2> QED
    BY <2>1, <2>2, <2>3, <2>4, <2>5 DEF MakingGoes
<1>5. CASE Creates(t)
  <2>1. call[t].pc \in Making
    BY <1>5 DEF Creates, CreateDirTest, MakeDir, TestFile, RemoveOld, At, Making
  <2>2. (\E pc : GoesTo(t, pc)) /\ UNCHANGED copy
    BY <1>1, <1>5 DEF Creates, CreateDirTest, MakeDir, TestFile, RemoveOld, UnlinkFails
  <2> QED
    BY <1>0, <1>5, <2>1, <2>2, GoesToPc DEF MakingGoes
<1>6. CASE CopyCreates(t)
  <2>1. PICK n \in copy[t].todo :
          IF m_isOpen[Dest]
          THEN call' = [call EXCEPT ![t] = [@ EXCEPT !.pc = "create", !.dir = Dest, !.name = n]]
          ELSE GoesTo(t, "cleanup")
    BY <1>6 DEF CopyCreates
  <2>4. call' = [call EXCEPT ![t] = [@ EXCEPT !.pc = "create", !.dir = Dest, !.name = n]]
    BY <1>3, <2>1 DEF Making
  <2>2. call'[t] = [call[t] EXCEPT !.pc = "create", !.dir = Dest, !.name = n]
    BY <1>0, <2>4 DEF Placed
  <2>3. call'[t].pc = "create"
    BY <1>0, <2>2 DEF Calls
  <2> QED
    BY <1>6, <2>3 DEF MakingGoes
<1>7. CASE SyncOpens(t) \/ FSync(t)
  <2>1. TriesAgain(t) \/ call' = [call EXCEPT ![t].pc = "fsync", ![t].fd = Target(t)]
    BY <1>2, <1>7 DEF SyncOpens, FSync
  <2>2. \/ call' = [call EXCEPT ![t].tries = @ + 1, ![t].pc = "sync", ![t].fd = None]
        \/ call' = [call EXCEPT ![t].pc = "fsync", ![t].fd = Target(t)]
    BY <1>1, <2>1 DEF TriesAgain
  <2>3. call'[t].pc \in {"sync", "fsync"}
    <3>1. ASSUME call' = [call EXCEPT ![t].tries = @ + 1, ![t].pc = "sync", ![t].fd = None]
          PROVE  call'[t].pc = "sync"
      BY <1>0, <3>1 DEF Placed, Calls
    <3>2. ASSUME call' = [call EXCEPT ![t].pc = "fsync", ![t].fd = Target(t)] PROVE call'[t].pc = "fsync"
      BY <1>0, <3>2 DEF Placed, Calls
    <3> QED
      BY <2>2, <3>1, <3>2
  <2> QED
    BY <2>3 DEF Making
<1>8. CASE OpenInput(t)
  <2>1. GoesTo(t, "length")
    BY <1>1, <1>8 DEF OpenInput
  <2> QED
    BY <1>3, <2>1 DEF Making
<1>9. CASE InputLength(t)
  <2>1. call' = [call EXCEPT ![t].tries = @ + 1] /\ call[t].pc = "length"
    BY <1>2, <1>9 DEF InputLength, At, Between
  <2>2. call'[t].pc = "length"
    BY <1>0, <2>1 DEF Placed, Calls
  <2> QED
    BY <2>2 DEF Making
<1>10. CASE CopyOpens(t)
  <2>1. call[t].pc = "source" /\ Enter(t, "openin", Src, copy[t].name)
    BY <1>10 DEF CopyOpens, At
  <2>2. m_isOpen[Src] /\ copy[t].name \in Names
    BY <1>0, <1>1, <2>1 DEF Enter, Fits, InsideCopy, OutsideCopy, Between
  <2>3. call'[t].pc = "openin"
    BY <1>0, <2>1, <2>2, EnterOnly, DirsAssumption
  <2> QED
    BY <2>3 DEF Making
<1>11. CASE CopyBlock(t)
  <2>1. call[t].pc = "copying" /\ UNCHANGED call
    BY <1>1, <1>3, <1>11 DEF CopyBlock, At, Making
  <2> QED
    BY <2>1 DEF Making
<1>12. CASE CopyCleansUp(t) \/ CopyEnds(t)
  <2>1. call'[t] \in {Idle, [Idle EXCEPT !.pc = "next"]}
    BY <1>0, <1>12 DEF CopyCleansUp, CopyEnds, Placed
  <2> QED
    BY <2>1, EndedCall DEF AtRest, Making, Between
<1>13. CASE CopyBegins(t)
  <2>1. GoesTo(t, "next")
    BY <1>1, <1>13 DEF CopyBegins
  <2> QED
    BY <1>3, <2>1 DEF Making
<1>14. CASE WriteBlock(t) \/ CloseOutput(t) \/ CloseInput(t)
  BY <1>14 DEF WriteBlock, CloseOutput, CloseInput, At, Making
<1>15. CASE OpenOutput(t) \/ OpenOutputFails(t) \/ DeleteFile(t)
  BY <1>1, <1>2, <1>15 DEF OpenOutput, OpenOutputFails, DeleteFile, UnlinkFails, Between
<1> QED
  BY <1>4, <1>5, <1>6, <1>7, <1>8, <1>9, <1>10, <1>11, <1>12, <1>13, <1>14, <1>15
     DEF ThreadStep, Continue, Creates

\* m_checked says no more than what is in the file system.
CheckedIsThere == \A d \in Dirs : m_checked[d] => d \in dirExists

LEMMA CheckedSteps ==
  ASSUME Base, CheckedIsThere, CheckedDirIsThere, NEW t \in Threads, ThreadStep(t)
  PROVE  CheckedIsThere' /\ CheckedDirIsThere'
<1>0. Placed /\ Fits(call[t], out[t], in[t], copy[t]) /\ Moves(t)
  BY StepBase, StepMoves DEF Base, Placed
<1>1. \/ UNCHANGED <<dirExists, m_checked>>
      \/ CreateDirTest(t)
      \/ MakeDir(t)
  BY DEF ThreadStep, Continue, Begin, TestFile, RemoveOld, OpenOutput, OpenOutputFails, DeleteFile, SyncOpens,
     FSync, OpenInput, InputLength, WriteBlock, CloseOutput, CloseInput, CopyBegins, CopyCreates, CopyOpens,
     CopyBlock, CopyCleansUp, CopyEnds, files, objects
<1>2. call[t].pc \in Making => call[t].dir \in Dirs
  BY <1>0 DEF Fits, Making, Between
<1>3. dirExists \subseteq dirExists'
  BY <1>1 DEF CreateDirTest, MakeDir, files
<1>4. CheckedIsThere'
  <2>1. CASE UNCHANGED <<dirExists, m_checked>>
    BY <2>1 DEF CheckedIsThere
  <2>2. CASE CreateDirTest(t)
    BY <1>2, <1>3, <2>2 DEF CheckedIsThere, CreateDirTest, At, Making, Base, Stored
  <2>3. CASE MakeDir(t)
    BY <1>2, <1>3, <2>3 DEF CheckedIsThere, MakeDir, At, Making, Base, Stored
  <2> QED
    BY <1>1, <2>1, <2>2, <2>3
<1>5. ASSUME NEW u \in Threads, call'[u].pc \in {"test", "remove", "open"} PROVE call'[u].dir \in dirExists'
  <2>1. CASE u # t
    <3>1. Stays(u)
      BY <1>0, <2>1 DEF Moves
    <3>2. call'[u].pc = call[u].pc /\ call'[u].dir = call[u].dir
      BY <1>0, <3>1 DEF Stays, Placed, Calls
    <3> QED
      BY <1>3, <1>5, <3>2 DEF CheckedDirIsThere
  <2>2. CASE u = t
    <3>1. call'[t].pc \in Making /\ call'[t].pc # "create"
      BY <1>5, <2>2 DEF Making
    <3>2. Creates(t) /\ call'[t].dir = call[t].dir
      BY <3>1, MakingSteps DEF MakingGoes
    <3>3. CASE CreateDirTest(t)
      <4>1. call[t].pc = "create" /\ (m_checked[call[t].dir] \/ call[t].dir \in dirExists \/ call'[t].pc = "mkdir")
        BY <1>0, <3>3, GoesToPc DEF CreateDirTest, At
      <4> QED
        BY <1>2, <1>3, <1>5, <2>2, <3>2, <4>1 DEF CheckedIsThere, Making
    <3>4. CASE MakeDir(t)
      <4>1. call[t].dir \in dirExists' \/ Throws(t, "IO")
        BY <3>4 DEF MakeDir
      <4> QED
        BY <1>0, <2>2, <3>1, <3>2, <4>1, ThrowsEnds DEF Making
    <3>5. CASE TestFile(t) \/ RemoveOld(t)
      BY <1>3, <2>2, <3>2, <3>5 DEF TestFile, RemoveOld, At, CheckedDirIsThere
    <3> QED
      BY <3>2, <3>3, <3>4, <3>5 DEF Creates
  <2> QED
    BY <2>1, <2>2
<1> QED
  BY <1>4, <1>5 DEF CheckedDirIsThere

\* Whatever the threads, the directories and the failures: a creation comes to
\* its file only where the directory is there, although m_checked is read and
\* set without a lock.
THEOREM CheckedIsSound == Spec => []CheckedDirIsThere
<1> DEFINE Inv == Base /\ CheckedIsThere /\ CheckedDirIsThere
<1>1. Init => Inv
  BY InitBase DEF Init, Idle, CheckedIsThere, CheckedDirIsThere
<1>2. Inv /\ [Next]_vars => Inv'
  <2> SUFFICES ASSUME Inv, [Next]_vars PROVE CheckedIsThere' /\ CheckedDirIsThere'
    BY NextBase
  <2>1. CASE \E t \in Threads : ThreadStep(t)
    BY <2>1, CheckedSteps
  <2>2. CASE \E d \in Dirs : Close(d) \/ Open(d)
    BY <2>2 DEF Close, Open, files, CheckedIsThere, CheckedDirIsThere, Base, Stored
  <2>3. CASE Crash
    BY <2>3 DEF Crash, Idle, CheckedIsThere, CheckedDirIsThere
  <2>4. CASE \E d \in Dirs, n \in Names : WriteBack(d, n)
    BY <2>4, WriteBackBase DEF objects, CheckedIsThere, CheckedDirIsThere
  <2>5. CASE UNCHANGED vars
    BY <2>5 DEF vars, files, objects, CheckedIsThere, CheckedDirIsThere
  <2> QED
    BY <2>1, <2>2, <2>3, <2>4, <2>5, NextSteps DEF Base
<1> QED
  BY <1>1, <1>2, PTL DEF Spec

-----------------------------------------------------------------------------
(* Creations that overlap, and streams that share a file *)

\* Of two creations of a file, each knows of the other.
Meet(c, e) == c.pc \in Making /\ e.pc \in Making /\ c.dir = e.dir /\ c.name = e.name
OverlapsKnown ==
  \A t, u \in Threads : t # u /\ Meet(call[t], call[u]) => call[t].overlaps

\* One that knows of none finds no file when it opens its own.
AloneFindsNone ==
  \A t \in Threads : At(t, "open") /\ ~call[t].overlaps => Target(t) = None

LEMMA OverlapsSteps ==
  ASSUME Base, OverlapsKnown, NEW t \in Threads, ThreadStep(t) PROVE OverlapsKnown'
<1>0. Placed /\ Moves(t)
  BY StepBase, StepMoves DEF Base
<1>1. ASSUME NEW u \in Threads, u # t
      PROVE  /\ call'[u].pc = call[u].pc /\ call'[u].dir = call[u].dir /\ call'[u].name = call[u].name
             /\ call[u].overlaps => call'[u].overlaps
  <2>1. Stays(u) /\ call[u] \in Calls
    BY <1>0, <1>1 DEF Moves, Placed
  <2>2. CASE call'[u] = call[u]
    BY <2>2
  <2>3. CASE call'[u] = [call[u] EXCEPT !.overlaps = TRUE]
    BY <2>1, <2>3 DEF Calls
  <2> QED
    BY <2>1, <2>2, <2>3 DEF Stays
<1>2. ASSUME NEW u \in Threads, u # t, Meet(call'[t], call'[u]) PROVE call'[t].overlaps /\ call'[u].overlaps
  <2>1. MakingGoes(t)
    BY <1>2, MakingSteps DEF Meet
  <2>2. CASE /\ call[t].pc = "idle" /\ MayChange(t)
             /\ \E d \in Dirs, n \in Names : m_isOpen[d] /\ Enter(t, "create", d, n)
    <3>1. PICK d \in Dirs, n \in Names : m_isOpen[d] /\ Enter(t, "create", d, n)
      BY <2>2
    <3>2. /\ call'[t].dir = d /\ call'[t].name = n /\ (call'[t].overlaps <=> Creators(d, n) # {})
          /\ u \in Creators(d, n) => call'[u] = [call[u] EXCEPT !.overlaps = TRUE]
      BY <1>0, <1>2, <3>1, EnterOnly
    <3>3. u \in Creators(d, n)
      BY <1>1, <1>2, <3>2 DEF Meet, Creators
    <3>4. call'[u].overlaps
      BY <1>0, <3>2, <3>3 DEF Placed, Calls
    <3> QED
      BY <3>2, <3>3, <3>4
  <2>3. CASE CopyCreates(t)
    <3>1. copy[t] # None
      BY <1>0, <2>3 DEF CopyCreates, At, Placed, Fits, OutsideCopy, Between
    <3> QED
      BY <1>1, <1>2, <3>1 DEF Base, CopyIsAlone, Meet, Making
  <2>4. CASE /\ call[t].pc \in Making /\ call'[t].dir = call[t].dir /\ call'[t].name = call[t].name
             /\ call'[t].overlaps = call[t].overlaps
    <3>1. Meet(call[t], call[u]) /\ Meet(call[u], call[t])
      BY <1>1, <1>2, <2>4 DEF Meet
    <3> QED
      BY <1>1, <1>2, <2>4, <3>1 DEF OverlapsKnown
  <2> QED
    BY <2>1, <2>2, <2>3, <2>4 DEF MakingGoes
<1>3. ASSUME NEW u \in Threads, NEW v \in Threads, u # v, Meet(call'[u], call'[v]) PROVE call'[u].overlaps
  <2>1. CASE u # t /\ v # t
    BY <1>1, <1>3, <2>1 DEF Meet, OverlapsKnown
  <2>2. CASE u = t \/ v = t
    BY <1>2, <1>3, <2>2 DEF Meet
  <2> QED
    BY <2>1, <2>2
<1> QED
  BY <1>3 DEF OverlapsKnown

\* A name changes when its file is removed, or made.
LEMMA EntrySteps ==
  ASSUME Base, NEW t \in Threads, ThreadStep(t), NEW d \in Dirs, NEW n \in Names
  PROVE  \/ entry'[d][n] = entry[d][n]
         \/ entry'[d][n] = None /\ RemovesName(t) /\ call[t].dir = d /\ call[t].name = n
         \/ OpenOutput(t) /\ call[t].dir = d /\ call[t].name = n
<1>1. Stored /\ Placed /\ HeldOnce /\ StepKinds(t)
  BY StepFiles, StepBase DEF Base
<1>2. CASE UNCHANGED entry
  BY <1>2
<1>3. CASE RemovesName(t)
  BY <1>1, <1>3, RemoveFiles
<1>4. CASE OpenOutput(t)
  <2>1. \E i \in Inodes : OpensInode(t, i)
    BY <1>1, <1>4, OpenFiles
  <2> QED
    BY <1>4, <2>1 DEF OpensInode
<1> QED
  BY <1>1, <1>2, <1>3, <1>4 DEF StepKinds, Quiet

LEMMA AloneSteps ==
  ASSUME Base, OverlapsKnown, AloneFindsNone, NEW t \in Threads, ThreadStep(t) PROVE AloneFindsNone'
<1>0. Placed /\ Moves(t) /\ Fits(call[t], out[t], in[t], copy[t])
  BY StepBase, StepMoves DEF Base, Placed
<1> SUFFICES ASSUME NEW u \in Threads, call'[u].pc = "open", ~call'[u].overlaps
             PROVE  entry'[call'[u].dir][call'[u].name] = None
  BY DEF AloneFindsNone, At, Target
<1>1. CASE u # t
  <2>1. call'[u] = call[u]
    <3>1. Stays(u) /\ call[u] \in Calls
      BY <1>0, <1>1 DEF Moves, Placed
    <3>2. call'[u] # [call[u] EXCEPT !.overlaps = TRUE]
      BY <3>1 DEF Calls
    <3> QED
      BY <3>1, <3>2 DEF Stays
  <2>2. entry[call[u].dir][call[u].name] = None
    BY <2>1 DEF AloneFindsNone, At, Target
  <2>3. call[u].dir \in Dirs /\ call[u].name \in Names
    BY <1>0, <2>1 DEF Placed, Fits, Between
  <2>4. ~(OpenOutput(t) /\ call[t].dir = call[u].dir /\ call[t].name = call[u].name)
    BY <1>1, <2>1 DEF OpenOutput, At, OverlapsKnown, Meet, Making
  <2> QED
    BY <2>1, <2>2, <2>3, <2>4, EntrySteps
<1>2. CASE u = t
  <2>1. Creates(t) /\ call'[t].dir = call[t].dir /\ call'[t].name = call[t].name
    <3>1. MakingGoes(t) /\ call'[t].pc # "create"
      BY <1>2, MakingSteps DEF Making
    <3> QED
      BY <3>1 DEF MakingGoes
  <2>2. call[t].dir \in Dirs /\ call[t].name \in Names
    BY <1>0, <2>1 DEF Creates, CreateDirTest, MakeDir, TestFile, RemoveOld, At, Fits, Between
  <2>3. CASE CreateDirTest(t)
    <3>1. GoesTo(t, "test") \/ GoesTo(t, "mkdir")
      BY <2>3 DEF CreateDirTest
    <3> QED
      BY <1>0, <1>2, <3>1, GoesToPc
  <2>4. CASE MakeDir(t)
    <3>1. GoesTo(t, "test") \/ Throws(t, "IO")
      BY <2>4 DEF MakeDir
    <3>2. call'[t].pc \in {"test", "idle", "cleanup"}
      BY <1>0, <3>1, GoesToPc, ThrowsEnds
    <3> QED
      BY <1>2, <3>2
  <2>5. CASE TestFile(t)
    <3>1. Target(t) = None /\ UNCHANGED entry
      BY <1>0, <1>2, <2>5, GoesToPc DEF TestFile, files
    <3> QED
      BY <1>2, <2>1, <3>1 DEF Target
  <2>6. CASE RemoveOld(t)
    <3>1. ~Throws(t, "IO")
      BY <1>0, <1>2, ThrowsEnds
    <3>2. Unlink(t)
      BY <2>6, <3>1 DEF RemoveOld, UnlinkFails
    <3> QED
      BY <1>0, <1>2, <2>1, <2>6, <3>2, RemoveFiles DEF RemovesName, Base
  <2> QED
    BY <2>1, <2>3, <2>4, <2>5, <2>6 DEF Creates
<1> QED
  BY <1>1, <1>2

\* A file that one stream was opened on has what that stream has put there.
OnlyWriter(t) ==
  HasInode(out[t]) =>
    /\ ~file[out[t].ino].shared => file[out[t].ino].data = SubSeq(out[t].wrote, 1, out[t].put)
    /\ copy[t] # None => ~file[out[t].ino].shared
    /\ \A u \in Threads \ {t} :
         HasInode(out[u]) /\ out[u].ino = out[t].ino => file[out[t].ino].shared
SoleWriter == \A t \in Threads : OnlyWriter(t)

LEMMA OutInUse ==
  ASSUME Placed, NEW t \in Threads, HasInode(out[t])
  PROVE  out[t] \in Outputs /\ out[t].ino \in Inodes /\ out[t].ino \in InUse
<1>1. out[t] # None /\ out[t].ino # None
  BY DEF HasInode
<1>2. out[t] \in Outputs
  BY <1>1 DEF Placed
<1> QED
  BY <1>1, <1>2 DEF Outputs, InUse

\* What a step of t can do to a file: nothing, what t has written, or truncate it.
StreamOf(t, o) ==
  /\ o \in Outputs /\ o.ino = out[t].ino /\ o.put = out[t].put /\ o.good = out[t].good
  /\ o.put <= Len(o.wrote) /\ (o.good => o.ino # None)
  /\ SubSeq(o.wrote, 1, o.put) = SubSeq(out[t].wrote, 1, out[t].put)
FileKinds(t) ==
  \/ Unwritten /\ ~OpenOutput(t)
  \/ OpenOutput(t) /\ \E i \in Inodes : OpensInode(t, i)
  \/ /\ out[t] # None /\ ~OpenOutput(t)
     /\ \E o \in Outputs, closes \in BOOLEAN : StreamOf(t, o) /\ FlushWrites(t, o, closes)

LEMMA AppendStreams ==
  ASSUME Placed, NEW t \in Threads, out[t] # None, NEW b \in Blocks
  PROVE  StreamOf(t, [out[t] EXCEPT !.wrote = Append(@, b)])
<1> DEFINE o == [out[t] EXCEPT !.wrote = Append(@, b)]
<1>1. out[t] \in Outputs /\ out[t].put <= Len(out[t].wrote) /\ (out[t].good => out[t].ino # None)
  BY DEF Placed, Fits
<1>2. o \in Outputs /\ o.put = out[t].put /\ o.good = out[t].good /\ o.ino = out[t].ino
      /\ o.wrote = Append(out[t].wrote, b) /\ o.put <= Len(o.wrote)
  BY <1>1, AppendFits
<1>3. SubSeq(Append(out[t].wrote, b), 1, out[t].put) = SubSeq(out[t].wrote, 1, out[t].put)
  <2>1. out[t].wrote \in Seq(Blocks) /\ out[t].put \in Nat
    BY <1>1 DEF Outputs
  <2> QED
    BY <1>1, <2>1, AppendKeeps
<1> HIDE DEF o
<1> QED
  BY <1>1, <1>2, <1>3 DEF StreamOf, o

LEMMA SameStream ==
  ASSUME Placed, NEW t \in Threads, out[t] # None PROVE StreamOf(t, out[t]) /\ out[t] \in Outputs
BY DEF Placed, Fits, StreamOf

LEMMA FileSteps ==
  ASSUME Base, NEW t \in Threads, ThreadStep(t) PROVE FileKinds(t)
<1>1. Stored /\ Placed /\ HeldOnce /\ StepKinds(t)
  BY StepFiles, StepBase DEF Base
<1>2. ASSUME NEW b \in Blocks, out[t] # None, Appends(t, b), ~OpenOutput(t) PROVE FileKinds(t)
  <2> DEFINE o == [out[t] EXCEPT !.wrote = Append(@, b)]
  <2>1. StreamOf(t, o)
    BY <1>1, <1>2, AppendStreams
  <2>2. FlushWrites(t, o, FALSE) \/ Unwritten
    BY <1>2 DEF Appends, FlushLoses
  <2>3. o \in Outputs
    BY <2>1 DEF StreamOf
  <2> HIDE DEF o
  <2> QED
    BY <1>2, <2>1, <2>2, <2>3 DEF FileKinds
<1>3. CASE Quiet(t) /\ ~OpenOutput(t)
  BY <1>3 DEF Quiet, FileKinds
<1>4. CASE RemovesName(t)
  BY <1>1, <1>4, RemoveFiles DEF FileKinds, RemovesName, RemoveOld, DeleteFile, OpenOutput, At
<1>5. CASE OpenOutput(t)
  BY <1>1, <1>5, OpenFiles DEF FileKinds
<1>6. CASE WriteBlock(t) /\ Appends(t, t)
  <2>1. t \in Blocks /\ out[t] # None /\ ~OpenOutput(t)
    BY <1>6 DEF Blocks, WriteBlock, OpenOutput, At
  <2> QED
    BY <1>2, <1>6, <2>1
<1>7. CASE CopyBlock(t) /\ CopyWrites(t)
  <2>1. out[t] # None /\ ~OpenOutput(t)
    BY <1>7 DEF CopyWrites, OpenOutput, At
  <2>2. file[in[t].ino].data[in[t].pos + 1] \in Blocks
    <3>1. in[t].pos \in Nat /\ in[t].ino \in Inodes /\ in[t].pos < Len(file[in[t].ino].data)
      BY <1>7 DEF CopyWrites, Inputs
    <3>2. file[in[t].ino].data \in Seq(Blocks)
      BY <1>1, <3>1 DEF Stored, GoodFiles, Files
    <3> DEFINE data == file[in[t].ino].data
    <3> HIDE DEF data
    <3>3. data \in Seq(Blocks) /\ in[t].pos < Len(data)
      BY <3>1, <3>2 DEF data
    <3>4. data[in[t].pos + 1] \in Blocks
      BY <3>1, <3>3
    <3> QED
      BY <3>4 DEF data
  <2> QED
    BY <1>2, <1>7, <2>1, <2>2 DEF CopyWrites
<1>8. CASE (CloseOutput(t) \/ CopyCleansUp(t)) /\ out[t] # None /\ Closes(t)
  <2>1. ~OpenOutput(t)
    BY <1>8 DEF CloseOutput, CopyCleansUp, OpenOutput, At
  <2> QED
    BY <1>1, <1>8, <2>1, SameStream DEF Closes, FlushLoses, FileKinds
<1> QED
  BY <1>1, <1>3, <1>4, <1>5, <1>6, <1>7, <1>8 DEF StepKinds

\* A write goes on with what the stream has put to its file.
LEMMA WriteGoesOn ==
  ASSUME Placed, NEW t \in Threads, OnlyWriter(t), HasInode(out[t]), ~file[out[t].ino].shared,
         NEW o \in Outputs, StreamOf(t, o)
  PROVE  Overwrite(file[o.ino].data, o.put, Pending(o)) = o.wrote
<1>1. o.wrote \in Seq(Blocks) /\ o.put \in Nat /\ o.put <= Len(o.wrote)
  BY DEF StreamOf, Outputs
<1>2. file[o.ino].data = SubSeq(o.wrote, 1, o.put)
  BY DEF StreamOf, OnlyWriter
<1> QED
  BY <1>1, <1>2, OverwriteAppends DEF Pending

\* What a step does to a file that it leaves in use: if several write it, they
\* still do; and if nobody truncates it, then only its own streams change it.
LEMMA UsedSteps ==
  ASSUME Base, NEW t \in Threads, ThreadStep(t), NEW i \in Inodes, i \in InUse, i \in InUse'
  PROVE  /\ file[i].shared => file'[i].shared
         /\ \/ file'[i].data = file[i].data /\ file'[i].shared = file[i].shared
            \/ OpensInode(t, i) /\ OpenOutput(t) /\ Target(t) = i /\ file'[i].shared
            \/ /\ HasInode(out[t]) /\ out[t].ino = i /\ file'[i].shared = file[i].shared
               /\ \E o \in Outputs, closes \in BOOLEAN :
                    /\ StreamOf(t, o) /\ FlushWrites(t, o, closes)
                    /\ file'[i].data = Overwrite(file[i].data, o.put, Pending(o))
<1>1. FileKinds(t)
  BY FileSteps
<1>2. CASE Unwritten
  BY <1>2 DEF Unwritten
<1>3. ASSUME OpenOutput(t), NEW j \in Inodes, OpensInode(t, j)
      PROVE  \/ file'[i] = file[i]
             \/ OpensInode(t, i) /\ OpenOutput(t) /\ Target(t) = i /\ file'[i].shared
  <2>1. CASE i = j
    <3>1. Target(t) # None /\ Target(t) = i
      BY <1>3, <2>1 DEF OpensInode
    <3> QED
      BY <1>3, <2>1, <3>1 DEF OpensInode
  <2>2. CASE i # j
    BY <1>3, <2>2 DEF OpensInode
  <2> QED
    BY <2>1, <2>2
<1>4. ASSUME NEW o \in Outputs, NEW closes \in BOOLEAN, StreamOf(t, o), FlushWrites(t, o, closes), out[t] # None
      PROVE  /\ file'[i].shared = file[i].shared
             /\ \/ file'[i].data = file[i].data
                \/ /\ HasInode(out[t]) /\ out[t].ino = i
                   /\ file'[i].data = Overwrite(file[i].data, o.put, Pending(o))
  <2>1. Writes(o) /\ o.ino = out[t].ino
    BY <1>4 DEF FlushWrites, StreamOf
  <2>2. file'[i].shared = file[i].shared
        /\ file'[i].data = IF i = o.ino THEN Overwrite(file[i].data, o.put, Pending(o)) ELSE file[i].data
    BY <2>1 DEF Writes
  <2>3. i # None
    BY NoneAssumption
  <2> QED
    BY <1>4, <2>1, <2>2, <2>3 DEF HasInode
<1> QED
  BY <1>1, <1>2, <1>3, <1>4 DEF FileKinds

\* What a stream that writes goes on as, and that one is on its file alone.
LEMMA GoesOnAs ==
  ASSUME Placed, NEW t \in Threads, NEW o \in Outputs, NEW closes \in BOOLEAN, StreamOf(t, o),
         FlushWrites(t, o, closes)
  PROVE  out'[t] = None \/ (out'[t].wrote = o.wrote /\ out'[t].put = Len(o.wrote))
<1>1. out'[t] = None \/ out'[t] = [o EXCEPT !.put = Len(o.wrote)]
  BY DEF FlushWrites, Placed
<1> QED
  BY <1>1 DEF Outputs

LEMMA UnwrittenGoesOn ==
  ASSUME Base, NEW t \in Threads, ThreadStep(t), out[t] # None, out'[t] # None
  PROVE  \/ SubSeq(out'[t].wrote, 1, out'[t].put) = SubSeq(out[t].wrote, 1, out[t].put)
         \/ \E o \in Outputs, closes \in BOOLEAN : StreamOf(t, o) /\ FlushWrites(t, o, closes)
<1>1. Stored /\ Placed /\ HeldOnce /\ StepKinds(t) /\ Fits(call[t], out[t], in[t], copy[t])
  BY StepFiles, StepBase DEF Base, Placed
<1>2. ASSUME NEW b \in Blocks, Appends(t, b)
      PROVE  \/ SubSeq(out'[t].wrote, 1, out'[t].put) = SubSeq(out[t].wrote, 1, out[t].put)
             \/ \E o \in Outputs, closes \in BOOLEAN : StreamOf(t, o) /\ FlushWrites(t, o, closes)
  <2> DEFINE o == [out[t] EXCEPT !.wrote = Append(@, b)]
  <2>1. StreamOf(t, o)
    BY <1>1, AppendStreams
  <2>2. CASE FlushWrites(t, o, FALSE)
    BY <2>1, <2>2 DEF StreamOf
  <2>3. CASE ~FlushWrites(t, o, FALSE)
    <3>1. out'[t] = o \/ out'[t] = [o EXCEPT !.good = FALSE]
      BY <1>1, <1>2, <2>3 DEF Appends, FlushLoses, Placed
    <3> HIDE DEF o
    <3>2. out'[t].wrote = o.wrote /\ out'[t].put = o.put
      BY <2>1, <3>1 DEF StreamOf, Outputs
    <3> QED
      BY <2>1, <3>2 DEF StreamOf
  <2> QED
    BY <2>2, <2>3
<1>3. CASE UNCHANGED out
  BY <1>3
<1>4. CASE OpenOutput(t) \/ OpenOutputFails(t)
  BY <1>1, <1>4 DEF OpenOutput, OpenOutputFails, At, Fits, OutsideCopy, InsideCopy
<1>5. CASE WriteBlock(t) /\ Appends(t, t)
  BY <1>2, <1>5 DEF Blocks
<1>6. CASE CopyBlock(t) /\ CopyWrites(t)
  <2>1. file[in[t].ino].data[in[t].pos + 1] \in Blocks
    <3>1. in[t].pos \in Nat /\ in[t].ino \in Inodes /\ in[t].pos < Len(file[in[t].ino].data)
      BY <1>6 DEF CopyWrites, Inputs
    <3>2. file[in[t].ino].data \in Seq(Blocks)
      BY <1>1, <3>1 DEF Stored, GoodFiles, Files
    <3> DEFINE data == file[in[t].ino].data
    <3> HIDE DEF data
    <3>3. data \in Seq(Blocks) /\ in[t].pos < Len(data)
      BY <3>1, <3>2 DEF data
    <3>4. data[in[t].pos + 1] \in Blocks
      BY <3>1, <3>3
    <3> QED
      BY <3>4 DEF data
  <2> QED
    BY <1>2, <1>6, <2>1 DEF CopyWrites
<1>7. CASE Closes(t)
  BY <1>1, <1>7 DEF Closes, FlushWrites, FlushLoses, Placed
<1> QED
  BY <1>1, <1>3, <1>4, <1>5, <1>6, <1>7 DEF StepKinds, QuietStep, RemovesName, Begin, CreateDirTest, MakeDir,
     TestFile, SyncOpens, FSync, OpenInput, InputLength, CloseInput, CopyBegins, CopyCreates, CopyOpens, CopyEnds,
     RemoveOld, DeleteFile, streams

LEMMA OwnWriterSteps ==
  ASSUME Base, OverlapsKnown, AloneFindsNone, SoleWriter, NEW t \in Threads, ThreadStep(t), HasInode(out'[t])
  PROVE  OnlyWriter(t)'
<1>0. /\ Stored /\ Placed /\ Placed' /\ HeldOnce /\ Fits(call[t], out[t], in[t], copy[t])
      /\ InodesStay(t) /\ Moves(t)
  BY StepBase, StepInodes, StepMoves DEF Base, Placed
<1> DEFINE i == out'[t].ino
<1>1. out'[t] # None /\ i # None
  BY DEF HasInode
<1>2. i \in Inodes /\ i \in InUse'
  BY <1>0, <1>1 DEF Placed, Outputs, InUse
<1>3. ASSUME NEW u \in Threads, u # t PROVE out'[u] = out[u]
  BY <1>0, <1>3 DEF Moves, Stays
<1>4. copy[t] = None => copy'[t] = None
  BY <1>0, <1>1, CopyStarts DEF streams
<1>5. CASE out[t] = None
  <2>1. OpenOutput(t) \/ OpenOutputFails(t)
    BY <1>0, <1>1, <1>5 DEF InodesStay
  <2>2. ~OpenOutputFails(t)
    <3> SUFFICES ASSUME OpenOutputFails(t) PROVE FALSE
      OBVIOUS
    <3>1. out'[t] = Stream(None)
      BY <1>0 DEF OpenOutputFails, Placed
    <3> QED
      BY <1>1, <3>1, StreamFits
  <2>3. PICK j \in Inodes : OpensInode(t, j)
    BY <1>0, <2>1, <2>2, OpenFiles
  <2>4. out'[t] = Stream(j) /\ i = j /\ out'[t].wrote = <<>> /\ out'[t].put = 0
    BY <1>0, <2>3, StreamFits DEF OpensInode, Placed
  <2>5. file'[i].data = <<>> /\ (file'[i].shared <=> Target(t) # None)
    BY <2>3, <2>4 DEF OpensInode
  <2>6. SubSeq(out'[t].wrote, 1, out'[t].put) = <<>>
    BY <2>4
  <2>7. copy'[t] # None => Target(t) = None
    BY <1>0, <1>4, <2>1, <2>2 DEF OpenOutput, At, Fits, InsideCopy, AloneFindsNone
  <2>8. ASSUME NEW u \in Threads \ {t}, HasInode(out'[u]), out'[u].ino = i PROVE file'[i].shared
    <3>1. i \in InUse
      BY <1>0, <1>3, <2>8, OutInUse
    <3> QED
      BY <2>3, <2>4, <2>5, <3>1 DEF OpensInode
  <2> QED
    BY <1>1, <2>5, <2>6, <2>7, <2>8 DEF OnlyWriter
<1>6. CASE out[t] # None
  <2>1. out[t].ino = i /\ HasInode(out[t]) /\ i \in InUse /\ OnlyWriter(t)
    BY <1>0, <1>1, <1>6, OutInUse DEF InodesStay, HasInode, SoleWriter
  <2>2. ~OpensInode(t, i) \/ ~OpenOutput(t)
    BY <1>0, <1>6 DEF OpenOutput, At, Fits, OutsideCopy, InsideCopy
  <2>3. file'[i].shared = file[i].shared
    BY <1>2, <2>1, <2>2, UsedSteps
  <2>4. ASSUME ~file'[i].shared PROVE file'[i].data = SubSeq(out'[t].wrote, 1, out'[t].put)
    <3>1. ~file[i].shared /\ file[i].data = SubSeq(out[t].wrote, 1, out[t].put)
      BY <2>1, <2>3, <2>4 DEF OnlyWriter
    <3>2. CASE \E o \in Outputs, closes \in BOOLEAN : StreamOf(t, o) /\ FlushWrites(t, o, closes)
      <4>1. PICK o \in Outputs, closes \in BOOLEAN : StreamOf(t, o) /\ FlushWrites(t, o, closes)
        BY <3>2
      <4>2. out'[t].wrote = o.wrote /\ out'[t].put = Len(o.wrote)
        BY <1>0, <1>1, <4>1, GoesOnAs
      <4>3. file'[i].data = Overwrite(file[i].data, o.put, Pending(o))
        BY <1>2, <2>1, <4>1 DEF FlushWrites, Writes, StreamOf
      <4>4. Overwrite(file[o.ino].data, o.put, Pending(o)) = o.wrote /\ o.ino = i
        BY <1>0, <2>1, <3>1, <4>1, WriteGoesOn DEF StreamOf
      <4>5. o.wrote \in Seq(Blocks)
        BY DEF Outputs
      <4> QED
        BY <4>2, <4>3, <4>4, <4>5, SubSeqFull
    <3>3. CASE ~\E o \in Outputs, closes \in BOOLEAN : StreamOf(t, o) /\ FlushWrites(t, o, closes)
      <4>1. file'[i].data = file[i].data
        BY <1>2, <2>1, <2>2, <3>3, UsedSteps
      <4>2. SubSeq(out'[t].wrote, 1, out'[t].put) = SubSeq(out[t].wrote, 1, out[t].put)
        BY <1>1, <1>6, <3>3, UnwrittenGoesOn
      <4> QED
        BY <3>1, <4>1, <4>2
    <3> QED
      BY <3>2, <3>3
  <2> QED
    BY <1>3, <1>4, <2>1, <2>3, <2>4 DEF OnlyWriter
<1> QED
  BY <1>5, <1>6

LEMMA OtherWriterSteps ==
  ASSUME Base, OverlapsKnown, AloneFindsNone, SoleWriter, NEW t \in Threads, ThreadStep(t),
         NEW u \in Threads, u # t, HasInode(out'[u])
  PROVE  OnlyWriter(u)'
<1>0. /\ Stored /\ Placed /\ Placed' /\ HeldOnce /\ InodesStay(t) /\ Moves(t)
  BY StepBase, StepInodes, StepMoves DEF Base, Placed
<1>1. ASSUME NEW v \in Threads, v # t PROVE out'[v] = out[v] /\ copy'[v] = copy[v]
  BY <1>0, <1>1 DEF Moves, Stays
<1> DEFINE i == out[u].ino
<1>2. HasInode(out[u]) /\ OnlyWriter(u) /\ out'[u].ino = i /\ i \in Inodes /\ i \in InUse
  BY <1>0, <1>1, OutInUse DEF SoleWriter
<1>3. i \in InUse' /\ i # None
  BY <1>1, <1>2 DEF InUse, HasInode
<1>4. ASSUME ~file'[i].shared PROVE file'[i].data = file[i].data /\ ~file[i].shared
  BY <1>2, <1>3, <1>4, UsedSteps DEF OnlyWriter
<1>5. ASSUME copy'[u] # None PROVE ~file'[i].shared
  <2>1. Unwritten /\ copy[u] # None
    BY <1>0, <1>1, <1>5, Bystander DEF Base
  <2> QED
    BY <1>2, <1>3, <2>1 DEF OnlyWriter, Unwritten
<1>6. ASSUME NEW v \in Threads \ {u}, HasInode(out'[v]), out'[v].ino = i PROVE file'[i].shared
  <2>1. CASE HasInode(out[v]) /\ out[v].ino = i
    BY <1>2, <1>3, <2>1, UsedSteps DEF OnlyWriter
  <2>2. CASE ~(HasInode(out[v]) /\ out[v].ino = i)
    <3>1. v = t /\ out[t] = None /\ out'[t] # None
      BY <1>0, <1>1, <1>3, <1>6, <2>2 DEF InodesStay, HasInode
    <3>2. OpenOutput(t)
      <4> SUFFICES ASSUME OpenOutputFails(t) PROVE FALSE
        BY <1>0, <3>1 DEF InodesStay
      <4>1. out'[t] = Stream(None)
        BY <1>0 DEF OpenOutputFails, Placed
      <4> QED
        BY <1>3, <1>6, <3>1, <4>1, StreamFits
    <3>3. PICK j \in Inodes : OpensInode(t, j)
      BY <1>0, <3>2, OpenFiles
    <3>4. j = i
      BY <1>0, <1>6, <3>1, <3>3, StreamFits DEF OpensInode, Placed
    <3> QED
      BY <1>2, <3>3, <3>4 DEF OpensInode
  <2> QED
    BY <2>1, <2>2
<1> QED
  BY <1>1, <1>2, <1>4, <1>5, <1>6 DEF OnlyWriter

Sharing == Base /\ OverlapsKnown /\ AloneFindsNone /\ SoleWriter

LEMMA InitSharing == Init => Sharing
BY InitBase DEF Init, Idle, Sharing, OverlapsKnown, AloneFindsNone, SoleWriter, OnlyWriter, HasInode, Meet,
   Making, At

LEMMA NextSharing == Sharing /\ [Next]_vars => Sharing'
<1> SUFFICES ASSUME Sharing, [Next]_vars PROVE OverlapsKnown' /\ AloneFindsNone' /\ SoleWriter'
  BY NextBase DEF Sharing
<1>1. CASE \E t \in Threads : ThreadStep(t)
  <2>1. PICK t \in Threads : ThreadStep(t)
    BY <1>1
  <2>2. ASSUME NEW u \in Threads PROVE OnlyWriter(u)'
    <3>1. CASE HasInode(out'[u])
      BY <2>1, <3>1, OwnWriterSteps, OtherWriterSteps DEF Sharing
    <3>2. CASE ~HasInode(out'[u])
      BY <3>2 DEF OnlyWriter
    <3> QED
      BY <3>1, <3>2
  <2> QED
    BY <2>1, <2>2, OverlapsSteps, AloneSteps DEF Sharing, SoleWriter
<1>2. CASE UNCHANGED <<entry, file, call, out, copy>>
  BY <1>2 DEF Sharing, OverlapsKnown, AloneFindsNone, SoleWriter, OnlyWriter, At, Target
<1>3. CASE Crash
  BY <1>3 DEF Crash, Idle, OverlapsKnown, AloneFindsNone, SoleWriter, OnlyWriter, HasInode, Meet, Making, At
<1>4. CASE \E d \in Dirs, n \in Names : WriteBack(d, n)
  <2>1. Base /\ Placed /\ Unwritten /\ UNCHANGED <<entry, call, out, in, copy>>
    BY <1>4, WriteBackBase DEF Sharing, Base, streams
  <2>2. ASSUME NEW u \in Threads PROVE OnlyWriter(u)'
    <3>1. HasInode(out[u]) => out[u].ino \in Inodes /\ out[u].ino \in InUse'
      BY <2>1, OutInUse DEF HasInode, InUse
    <3>2. OnlyWriter(u)
      BY DEF Sharing, SoleWriter
    <3> QED
      BY <2>1, <3>1, <3>2 DEF OnlyWriter, Unwritten
  <2> QED
    BY <2>1, <2>2 DEF Sharing, OverlapsKnown, AloneFindsNone, SoleWriter, At, Target
<1> QED
  BY <1>1, <1>2, <1>3, <1>4, NextSteps DEF Sharing, Base, Close, Open, vars, files, objects, streams

LEMMA StepKeepsBytes ==
  ASSUME Sharing, NEW t \in Threads, ThreadStep(t), NEW i \in Inodes, i \in InUse, i \in InUse'
  PROVE  KeepsItsBytes(i)
<1>0. Base /\ Placed /\ Fits(call[t], out[t], in[t], copy[t]) /\ file[i].data \in Seq(Blocks)
  BY DEF Sharing, Base, Placed, Stored, GoodFiles, Files
<1>1. CASE file'[i].data = file[i].data
  BY <1>0, <1>1, PrefixSame DEF KeepsItsBytes
<1>2. CASE OpensInode(t, i) /\ OpenOutput(t) /\ Target(t) = i
  <2>1. At(t, "open") /\ out[t] = None
    BY <1>0, <1>2 DEF OpenOutput, At, Fits, OutsideCopy, InsideCopy
  <2>2. call[t].overlaps
    BY <1>2, <2>1, NoneAssumption DEF Sharing, AloneFindsNone
  <2>3. out'[t] # None
    BY <1>0, <1>2, StreamFits DEF OpensInode, Placed
  <2> QED
    BY <2>1, <2>2, <2>3 DEF KeepsItsBytes
<1>3. CASE /\ HasInode(out[t]) /\ out[t].ino = i /\ ~file[i].shared
           /\ \E o \in Outputs : StreamOf(t, o) /\ file'[i].data = Overwrite(file[i].data, o.put, Pending(o))
  <2>1. PICK o \in Outputs : StreamOf(t, o) /\ file'[i].data = Overwrite(file[i].data, o.put, Pending(o))
    BY <1>3
  <2>2. OnlyWriter(t) /\ file[i].data = SubSeq(o.wrote, 1, o.put)
    BY <1>3, <2>1 DEF Sharing, SoleWriter, OnlyWriter, StreamOf
  <2>3. file'[i].data = o.wrote
    BY <1>0, <1>3, <2>1, <2>2, WriteGoesOn DEF StreamOf
  <2>4. o.wrote \in Seq(Blocks) /\ o.put \in Nat /\ o.put <= Len(o.wrote)
    BY <2>1 DEF StreamOf, Outputs
  <2>5. SubSeq(o.wrote, 1, Len(o.wrote)) = o.wrote /\ Len(o.wrote) \in Nat
    BY <2>4, SubSeqFull
  <2>6. IsPrefix(file[i].data, file'[i].data)
    <3> DEFINE n == Len(o.wrote)
    <3>1. n \in Nat /\ o.put <= n /\ n <= Len(o.wrote)
      BY <2>4, <2>5
    <3>2. IsPrefix(SubSeq(o.wrote, 1, o.put), SubSeq(o.wrote, 1, n))
      BY <2>4, <3>1, PrefixGrows
    <3> QED
      BY <2>2, <2>3, <2>5, <3>2
  <2> QED
    BY <2>6 DEF KeepsItsBytes
<1> QED
  BY <1>0, <1>1, <1>2, <1>3, UsedSteps DEF KeepsItsBytes

\* Whatever the threads, the directories and the failures: the bytes of a file
\* that a stream is on stay, and more come after them; but not where two
\* creations of the file overlap.
THEOREM WrittenOnce == Spec => FilesAreWrittenOnce
<1> DEFINE Keeps ==
      \A t \in Threads :
        /\ HasInode(out[t]) /\ HasInode(out'[t]) => KeepsItsBytes(out[t].ino)
        /\ HasInode(in[t]) /\ HasInode(in'[t]) => KeepsItsBytes(in[t].ino)
<1>1. ASSUME Sharing, [Next]_vars PROVE [Keeps]_vars
  <2>0. Base /\ Base' /\ Placed /\ Placed' /\ Stored
    BY <1>1, NextBase DEF Sharing, Base
  <2>1. ASSUME NEW t \in Threads, HasInode(out[t]) PROVE out[t].ino \in Inodes /\ out[t].ino \in InUse
    BY <2>0, <2>1, OutInUse
  <2>2. ASSUME NEW t \in Threads, HasInode(in[t]) PROVE in[t].ino \in Inodes /\ in[t].ino \in InUse
    BY <2>0, <2>2 DEF HasInode, Placed, Inputs, InUse
  <2>3. CASE \E t \in Threads : ThreadStep(t)
    <3>1. PICK t \in Threads : ThreadStep(t)
      BY <2>3
    <3>2. InodesStay(t) /\ Moves(t)
      BY <2>0, <3>1, StepBase, StepInodes, StepMoves DEF Base
    <3>3. ASSUME NEW u \in Threads, HasInode(out[u]), HasInode(out'[u]) PROVE KeepsItsBytes(out[u].ino)
      <4>1. out'[u].ino = out[u].ino
        BY <3>2, <3>3 DEF InodesStay, Moves, Stays, HasInode
      <4>2. out[u].ino \in InUse'
        BY <3>3, <4>1 DEF HasInode, InUse
      <4> QED
        BY <1>1, <2>1, <3>1, <3>3, <4>2, StepKeepsBytes
    <3>4. ASSUME NEW u \in Threads, HasInode(in[u]), HasInode(in'[u]) PROVE KeepsItsBytes(in[u].ino)
      <4>1. in'[u].ino = in[u].ino
        BY <3>2, <3>4 DEF InodesStay, Moves, Stays, HasInode
      <4>2. in[u].ino \in InUse'
        BY <3>4, <4>1 DEF HasInode, InUse
      <4> QED
        BY <1>1, <2>2, <3>1, <3>4, <4>2, StepKeepsBytes
    <3> QED
      BY <3>3, <3>4
  <2>4. CASE UNCHANGED file
    <3>1. ASSUME NEW i \in Inodes PROVE KeepsItsBytes(i)
      <4>1. file[i].data \in Seq(Blocks)
        BY <2>0 DEF Stored, GoodFiles, Files
      <4> QED
        BY <2>4, <4>1, PrefixSame DEF KeepsItsBytes
    <3> QED
      BY <2>1, <2>2, <3>1
  <2>5. CASE Crash
    BY <2>5 DEF Crash, HasInode
  <2>6. CASE \E d \in Dirs, n \in Names : WriteBack(d, n)
    <3>1. Unwritten /\ UNCHANGED <<out, in>>
      BY <2>0, <2>6, WriteBackBase DEF streams
    <3>2. ASSUME NEW i \in Inodes, i \in InUse' PROVE KeepsItsBytes(i)
      <4>1. file[i].data \in Seq(Blocks)
        BY <2>0 DEF Stored, GoodFiles, Files
      <4> QED
        BY <3>1, <3>2, <4>1, PrefixSame DEF KeepsItsBytes, Unwritten
    <3>3. ASSUME NEW t \in Threads, HasInode(out[t]) PROVE out[t].ino \in InUse'
      BY <3>1, <3>3 DEF HasInode, InUse
    <3>4. ASSUME NEW t \in Threads, HasInode(in[t]) PROVE in[t].ino \in InUse'
      BY <3>1, <3>4 DEF HasInode, InUse
    <3> QED
      BY <2>1, <2>2, <3>2, <3>3, <3>4
  <2> QED
    BY <1>1, <2>0, <2>3, <2>4, <2>5, <2>6, NextSteps DEF Close, Open, vars, files
<1> QED
  BY <1>1, InitSharing, NextSharing, PTL DEF Spec, FilesAreWrittenOnce

-----------------------------------------------------------------------------
(* copy() *)

\* How far a copy() is with a file.
CopyGoesOn(t) ==
  copy[t] # None =>
    /\ call[t].pc \in {"source", "openin", "length"} => out[t].wrote = <<>>
    /\ call[t].pc = "length" => in[t].pos = 0
    /\ call[t].pc = "copying" =>
         /\ in[t].len = Len(file[in[t].ino].data) /\ in[t].pos <= in[t].len
         /\ out[t].wrote = SubSeq(file[in[t].ino].data, 1, in[t].pos)
    /\ call[t].pc = "cleanup" /\ copy[t].finally = "Null" => out[t].wrote = file[in[t].ino].data

\* The files that are to be copied are there, and those before this one are whole.
IsCopied(n) == entry[Dest][n] # None /\ file[entry[Dest][n]].data = file[entry[Src][n]].data
CopiesAreWhole(t) ==
  copy[t] # None =>
    /\ \A n \in copy[t].listed : entry[Src][n] # None
    /\ ~copy[t].lost =>
         \A n \in copy[t].listed \ copy[t].todo : At(t, "next") \/ n # copy[t].name => IsCopied(n)
Copying == \A t \in Threads : CopyGoesOn(t) /\ CopiesAreWhole(t)

LEMMA ThrowsInCopy ==
  ASSUME Placed, NEW t \in Threads, copy[t] # None, NEW e \in Exceptions \ {"Null"}, Throws(t, e)
  PROVE  call'[t].pc = "cleanup" /\ copy'[t].finally # "Null"
<1>1. call'[t] = [Idle EXCEPT !.pc = "cleanup"] /\ copy'[t] = [copy[t] EXCEPT !.finally = e]
  BY ThrowsOnly
<1>2. copy[t] \in Copies
  BY DEF Placed
<1> QED
  BY <1>1, <1>2, EndedCall DEF AtRest, Between, Copies

LEMMA ReturnsInCopy ==
  ASSUME Placed, NEW t \in Threads, copy[t] # None, NEW pc \in Between, Returns(t, pc)
  PROVE  call'[t].pc = pc
<1>1. call'[t] = [Idle EXCEPT !.pc = pc]
  BY ReturnsOnly
<1> QED
  BY <1>1, EndedCall DEF AtRest

LEMMA ThrownExceptions ==
  "IO" \in Exceptions \ {"Null"} /\ "FileNotFound" \in Exceptions \ {"Null"}
  /\ "AlreadyClosed" \in Exceptions \ {"Null"} /\ "NoSuchDirectory" \in Exceptions \ {"Null"}
BY DEF Exceptions

\* A step of a copy() that is with a file leaves the files of other names alone.
LEMMA OtherFilesStay ==
  ASSUME Base, NEW t \in Threads, ThreadStep(t), copy[t] # None, call[t].pc # "next",
         NEW d \in Dirs, NEW n \in Names, ~(d = Dest /\ n = copy[t].name), entry[d][n] # None
  PROVE  entry'[d][n] = entry[d][n] /\ file'[entry[d][n]].data = file[entry[d][n]].data
<1>0. /\ Stored /\ Placed /\ HeldOnce /\ copy[t].name \in Names
      /\ InsideCopy(call[t], out[t], in[t], copy[t])
  BY StepBase, CopyNames DEF Base, Placed, Fits
<1> DEFINE i == entry[d][n]
<1>1. i \in Inodes /\ i[1] = d /\ i[2] = n /\ i \in InUse
  BY <1>0 DEF Stored, InUse, Linked
<1>2. call[t].pc \in {"remove", "delete", "open"} => call[t].dir = Dest /\ call[t].name = copy[t].name
  BY <1>0 DEF InsideCopy, Making, Between
<1>3. entry'[d][n] = entry[d][n]
  <2>1. RemovesName(t) \/ OpenOutput(t) => call[t].pc \in {"remove", "delete", "open"}
    BY DEF RemovesName, RemoveOld, DeleteFile, OpenOutput, At
  <2> QED
    BY <1>2, <2>1, EntrySteps
<1>4. i \in InUse'
  BY <1>3 DEF InUse, Linked
<1>5. ~(OpenOutput(t) /\ Target(t) = i)
  <2> SUFFICES ASSUME OpenOutput(t), Target(t) = i PROVE FALSE
    OBVIOUS
  <2>1. entry[Dest][copy[t].name] = i
    BY <1>2 DEF OpenOutput, At, Target
  <2> QED
    BY <1>0, <1>1, <2>1, DirsAssumption, NoneAssumption DEF Stored
<1>6. ~(HasInode(out[t]) /\ out[t].ino = i)
  <2> SUFFICES ASSUME HasInode(out[t]), out[t].ino = i PROVE FALSE
    OBVIOUS
  <2>1. entry[Dest][copy[t].name] = i
    BY DEF HasInode, Base, CopyHasFiles
  <2> QED
    BY <1>0, <1>1, <2>1, DirsAssumption, NoneAssumption DEF Stored
<1> HIDE DEF i
<1>7. file'[i].data = file[i].data
  BY <1>1, <1>4, <1>5, <1>6, UsedSteps
<1> QED
  BY <1>3, <1>7 DEF i

\* What the copy() of another thread has stays.
LEMMA OthersCopying ==
  ASSUME Base, NEW t \in Threads, ThreadStep(t), NEW u \in Threads, u # t, CopyGoesOn(u), CopiesAreWhole(u)
  PROVE  CopyGoesOn(u)' /\ CopiesAreWhole(u)'
<1>0. Stored /\ Placed /\ HeldOnce /\ CopyIsAlone /\ CopyHasFiles /\ Moves(t)
  BY StepBase, StepMoves DEF Base
<1> SUFFICES ASSUME copy'[u] # None PROVE CopyGoesOn(u)' /\ CopiesAreWhole(u)'
  BY DEF CopyGoesOn, CopiesAreWhole
<1>1. copy[u] # None
  BY <1>0 DEF Moves, Stays
<1>2. /\ UNCHANGED entry /\ Unwritten
      /\ copy'[u] = copy[u] /\ call'[u] = call[u] /\ out'[u] = out[u] /\ in'[u] = in[u]
  BY <1>0, <1>1, Bystander
<1>3. ASSUME NEW d \in Dirs, NEW n \in Names, entry[d][n] # None
      PROVE  file'[entry[d][n]].data = file[entry[d][n]].data
  <2>1. entry[d][n] \in Inodes /\ entry[d][n] \in InUse'
    BY <1>0, <1>2, <1>3 DEF Stored, InUse, Linked
  <2> QED
    BY <1>2, <2>1 DEF Unwritten
<1>4. CopyGoesOn(u)'
  <2>1. ASSUME in[u] # None PROVE file'[in[u].ino].data = file[in[u].ino].data
    <3>1. in[u].ino \in Inodes /\ in[u].ino \in InUse'
      BY <1>0, <1>2, <2>1 DEF Placed, Inputs, InUse
    <3> QED
      BY <1>2, <3>1 DEF Unwritten
  <2>2. call[u].pc = "copying" \/ (call[u].pc = "cleanup" /\ copy[u].finally = "Null") => in[u] # None
    BY <1>0, <1>1 DEF Placed, Fits, InsideCopy
  <2> QED
    BY <1>1, <1>2, <2>1, <2>2 DEF CopyGoesOn
<1>5. CopiesAreWhole(u)'
  <2>1. copy[u].listed \subseteq Names
    BY <1>0, <1>1 DEF Placed, Copies
  <2>2. ASSUME NEW n \in copy[u].listed, IsCopied(n) PROVE IsCopied(n)'
    BY <1>1, <1>2, <1>3, <2>1, <2>2, DirsAssumption DEF IsCopied, CopiesAreWhole
  <2> QED
    BY <1>1, <1>2, <2>2 DEF CopiesAreWhole, At
<1> QED
  BY <1>4, <1>5

\* A step of a copy() goes on with its file.
LEMMA OwnGoesOn ==
  ASSUME Base, NEW t \in Threads, ThreadStep(t), CopyGoesOn(t), copy[t] # None, copy'[t] # None,
         call[t].pc # "next"
  PROVE  CopyGoesOn(t)'
<1>0. /\ Stored /\ Placed /\ Placed' /\ HeldOnce /\ CopyHasFiles
      /\ InsideCopy(call[t], out[t], in[t], copy[t]) /\ call[t] \in Calls
  BY StepBase DEF Base, Placed, Fits
<1>1. ASSUME call'[t].pc \in Making \cup {"next"} PROVE CopyGoesOn(t)'
  BY <1>1 DEF CopyGoesOn, Making
<1>2. ASSUME NEW e \in Exceptions \ {"Null"}, Throws(t, e) PROVE CopyGoesOn(t)'
  BY <1>0, <1>2, ThrowsInCopy DEF CopyGoesOn
<1>3. ASSUME in[t] # None
      PROVE  in[t].ino = entry[Src][copy[t].name] /\ in[t].ino \in Inodes
             /\ file'[in[t].ino].data = file[in[t].ino].data /\ file[in[t].ino].data \in Seq(Blocks)
  <2>1. in[t].ino = entry[Src][copy[t].name] /\ in[t].ino \in Inodes
    BY <1>0, <1>3 DEF CopyHasFiles, Placed, Inputs
  <2>2. copy[t].name \in Names
    BY <1>0, CopyNames
  <2> QED
    <3>1. entry[Src][copy[t].name] # None /\ Src \in Dirs /\ Src # Dest
      BY <2>1, DirsAssumption, NoneAssumption
    <3>2. file'[entry[Src][copy[t].name]].data = file[entry[Src][copy[t].name]].data
      BY <2>2, <3>1, OtherFilesStay
    <3>3. file[in[t].ino].data \in Seq(Blocks)
      BY <1>0, <2>1 DEF Stored, GoodFiles, Files
    <3> QED
      BY <2>1, <3>2, <3>3
<1>4. CASE Creates(t)
  <2>1. Throws(t, "IO") \/ \E pc \in Making : GoesTo(t, pc)
    BY <1>4 DEF Creates, CreateDirTest, MakeDir, TestFile, RemoveOld, UnlinkFails, Making
  <2> QED
    BY <1>0, <1>1, <1>2, <2>1, GoesToPc, ThrownExceptions
<1>5. CASE OpenOutput(t) \/ OpenOutputFails(t)
  <2>1. Returns(t, "source") /\ \E i \in Inodes \cup {None} : out' = [out EXCEPT ![t] = Stream(i)]
    BY <1>0, <1>5, OpenFiles DEF OpenOutput, OpenOutputFails, OpensInode
  <2>2. call'[t].pc = "source"
    BY <1>0, <2>1, ReturnsInCopy DEF Between
  <2>3. out'[t].wrote = <<>>
    BY <1>0, <2>1, StreamFits DEF Placed
  <2> QED
    BY <2>2, <2>3 DEF CopyGoesOn
<1>6. CASE CopyOpens(t)
  <2>1. call[t].pc = "source" /\ UNCHANGED streams /\ Enter(t, "openin", Src, copy[t].name) /\ copy[t].name \in Names
    BY <1>0, <1>6, CopyNames DEF CopyOpens, At
  <2>2. CASE m_isOpen[Src]
    <3>1. call'[t].pc = "openin"
      BY <1>0, <2>1, <2>2, EnterOnly, DirsAssumption
    <3> QED
      BY <2>1, <3>1 DEF CopyGoesOn, streams
  <2>3. CASE ~m_isOpen[Src]
    BY <1>2, <2>1, <2>3, ThrownExceptions DEF Enter
  <2> QED
    BY <2>2, <2>3
<1>7. CASE OpenInput(t)
  <2>1. call[t].pc = "openin" /\ UNCHANGED out
    BY <1>7 DEF OpenInput, At
  <2>2. CASE GoesTo(t, "length") /\ in' = [in EXCEPT ![t] = [ino |-> Target(t), len |-> 0, pos |-> 0]]
    <3>1. call'[t].pc = "length"
      BY <1>0, <2>2, GoesToPc
    <3>2. in'[t].pos = 0
      BY <1>0, <2>2 DEF Placed
    <3> QED
      BY <2>1, <3>1, <3>2 DEF CopyGoesOn
  <2> QED
    BY <1>2, <1>7, <2>2, ThrownExceptions DEF OpenInput
<1>8. CASE InputLength(t)
  <2>1. call[t].pc = "length" /\ UNCHANGED out /\ in[t] # None /\ out[t].wrote = <<>> /\ in[t].pos = 0
    BY <1>0, <1>8 DEF InputLength, At, InsideCopy, CopyGoesOn
  <2>2. CASE call' = [call EXCEPT ![t].tries = @ + 1] /\ UNCHANGED in
    <3>1. call'[t].pc = "length"
      BY <1>0, <2>1, <2>2 DEF Placed, Calls
    <3> QED
      BY <2>1, <2>2, <3>1 DEF CopyGoesOn
  <2>3. CASE in' = [in EXCEPT ![t].len = Length(t)] /\ Returns(t, "copying")
    <3>1. call'[t].pc = "copying"
      BY <1>0, <2>3, ReturnsInCopy DEF Between
    <3>2. Target(t) = in[t].ino
      BY <1>0, <1>3, <2>1 DEF Target, InsideCopy
    <3>3. Length(t) = Len(file[in[t].ino].data)
      BY <1>3, <2>1, <3>2, NoneAssumption DEF Length
    <3>4. in'[t].len = Length(t) /\ in'[t].pos = 0 /\ in'[t].ino = in[t].ino
      <4>1. in'[t] = [in[t] EXCEPT !.len = Length(t)] /\ in[t] \in Inputs
        BY <1>0, <2>1, <2>3 DEF Placed
      <4> QED
        BY <2>1, <4>1 DEF Inputs
    <3> DEFINE data == file[in[t].ino].data
    <3>5. data \in Seq(Blocks) /\ file'[in'[t].ino].data = data
      BY <1>3, <2>1, <3>4
    <3>6. in'[t].len = Len(data) /\ out'[t].wrote = <<>>
      BY <2>1, <3>3, <3>4
    <3> HIDE DEF data
    <3>7. SubSeq(data, 1, 0) = <<>> /\ Len(data) \in Nat
      BY <3>5
    <3> QED
      BY <3>1, <3>4, <3>5, <3>6, <3>7 DEF CopyGoesOn
  <2> QED
    BY <1>8, <2>2, <2>3 DEF InputLength
<1>9. CASE CopyBlock(t)
  <2>1. call[t].pc = "copying" /\ out[t] # None /\ in[t] # None
    BY <1>0, <1>9 DEF CopyBlock, At, InsideCopy
  <2> DEFINE data == file[in[t].ino].data
  <2>2. /\ data \in Seq(Blocks) /\ file'[in[t].ino].data = data
        /\ in[t].len = Len(data) /\ in[t].pos <= in[t].len /\ out[t].wrote = SubSeq(data, 1, in[t].pos)
    BY <1>3, <2>1 DEF CopyGoesOn
  <2>3. in[t] \in Inputs /\ in[t].pos \in Nat /\ Len(data) \in Nat
    BY <1>0, <2>1, <2>2 DEF Placed, Inputs
  <2>4. \/ /\ in[t].pos < in[t].len /\ in[t].pos < Len(data)
           /\ in' = [in EXCEPT ![t].pos = @ + 1] /\ UNCHANGED call
           /\ Append1(t, data[in[t].pos + 1])
        \/ Throws(t, "IO")
        \/ in[t].pos >= in[t].len /\ GoesTo(t, "cleanup") /\ UNCHANGED streams
    BY <1>9 DEF CopyBlock
  <2> HIDE DEF data
  <2>5. CASE /\ in[t].pos < in[t].len /\ in[t].pos < Len(data)
             /\ in' = [in EXCEPT ![t].pos = @ + 1] /\ UNCHANGED call
             /\ Append1(t, data[in[t].pos + 1])
    <3>1. data[in[t].pos + 1] \in Blocks
      BY <2>2, <2>3, <2>5
    <3>2. out'[t].wrote = Append(out[t].wrote, data[in[t].pos + 1])
      BY <1>0, <2>1, <2>5, <3>1, AppendOnly
    <3>3. in'[t].pos = in[t].pos + 1 /\ in'[t].len = in[t].len /\ in'[t].ino = in[t].ino
      <4>1. in'[t] = [in[t] EXCEPT !.pos = @ + 1]
        BY <1>0, <2>5 DEF Placed
      <4> QED
        BY <2>3, <4>1 DEF Inputs
    <3>4. Append(SubSeq(data, 1, in[t].pos), data[in[t].pos + 1]) = SubSeq(data, 1, in[t].pos + 1)
      <4> DEFINE p == in[t].pos
      <4>1. p \in Nat /\ p < Len(data)
        BY <2>3, <2>5
      <4> HIDE DEF p
      <4>2. Append(SubSeq(data, 1, p), data[p + 1]) = SubSeq(data, 1, p + 1)
        BY <2>2, <4>1
      <4> QED
        BY <4>2 DEF p
    <3>5. call'[t].pc = "copying"
      BY <2>1, <2>5
    <3>6. in'[t].pos <= in'[t].len
      BY <2>2, <2>3, <2>5, <3>3
    <3> QED
      BY <2>2, <3>2, <3>3, <3>4, <3>5, <3>6 DEF CopyGoesOn
  <2>6. CASE in[t].pos >= in[t].len /\ GoesTo(t, "cleanup") /\ UNCHANGED streams
    <3>1. call'[t].pc = "cleanup"
      BY <1>0, <2>6, GoesToPc
    <3>2. in[t].pos = Len(data)
      BY <2>2, <2>3, <2>6
    <3>3. out[t].wrote = data
      BY <2>2, <3>2, SubSeqFull
    <3> QED
      BY <2>2, <2>6, <3>1, <3>3 DEF CopyGoesOn, streams
  <2> QED
    BY <1>2, <2>4, <2>5, <2>6, ThrownExceptions
<1>10. CASE CopyCleansUp(t)
  <2>1. call'[t].pc \in {"idle", "next"}
    <3>1. call'[t] \in {Idle, [Idle EXCEPT !.pc = "next"]}
      BY <1>0, <1>10 DEF CopyCleansUp, Placed
    <3> QED
      BY <3>1, EndedCall DEF AtRest, Between
  <2> QED
    BY <2>1 DEF CopyGoesOn
<1> QED
  BY <1>0, <1>4, <1>5, <1>6, <1>7, <1>8, <1>9, <1>10 DEF ThreadStep, Continue, Creates, Begin, DeleteFile, SyncOpens,
     FSync, WriteBlock, CloseOutput, CloseInput, CopyBegins, CopyCreates, CopyEnds, At, InsideCopy, Making, Between

\* A copy() comes to its next file only when it has closed the streams of this one.
LEMMA InCleanup ==
  ASSUME Placed, NEW t \in Threads, ThreadStep(t), copy[t] # None, call[t].pc = "cleanup"
  PROVE  CopyCleansUp(t)
BY DEF ThreadStep, Continue, Begin, CreateDirTest, MakeDir, TestFile, RemoveOld, OpenOutput, OpenOutputFails,
   DeleteFile, SyncOpens, FSync, OpenInput, InputLength, WriteBlock, CloseOutput, CloseInput, CopyBegins,
   CopyCreates, CopyOpens, CopyBlock, CopyEnds, At

LEMMA ToNext ==
  ASSUME Base, NEW t \in Threads, ThreadStep(t), copy[t] # None, call[t].pc # "next", call'[t].pc = "next"
  PROVE  CopyCleansUp(t)
<1>0. Placed /\ InsideCopy(call[t], out[t], in[t], copy[t]) /\ call[t] \in Calls
  BY DEF Base, Placed, Fits
<1>1. \A e \in Exceptions \ {"Null"} : ~Throws(t, e)
  BY <1>0, ThrowsInCopy
<1>2. \A pc : GoesTo(t, pc) => pc = "next"
  BY <1>0, GoesToPc
<1>3. \A pc \in Between : Returns(t, pc) => pc = "next"
  BY <1>0, ReturnsInCopy
<1>4. ~Creates(t)
  <2>1. Creates(t) => Throws(t, "IO") \/ \E pc \in Making : GoesTo(t, pc)
    BY DEF Creates, CreateDirTest, MakeDir, TestFile, RemoveOld, UnlinkFails, Making
  <2> QED
    BY <1>1, <1>2, <2>1, ThrownExceptions DEF Making
<1>5. ~OpenOutput(t) /\ ~OpenOutputFails(t)
  BY <1>3 DEF OpenOutput, OpenOutputFails, Between
<1>6. ~CopyOpens(t)
  <2> SUFFICES ASSUME CopyOpens(t) PROVE FALSE
    OBVIOUS
  <2>1. call[t].pc = "source" /\ Enter(t, "openin", Src, copy[t].name) /\ copy[t].name \in Names
    BY <1>0, CopyNames DEF CopyOpens, At
  <2>2. m_isOpen[Src]
    BY <1>1, <2>1, ThrownExceptions DEF Enter
  <2>3. call'[t].pc = "openin"
    BY <1>0, <2>1, <2>2, EnterOnly, DirsAssumption
  <2> QED
    BY <2>3
<1>7. ~OpenInput(t)
  BY <1>1, <1>2, ThrownExceptions DEF OpenInput
<1>8. ~InputLength(t)
  <2> SUFFICES ASSUME InputLength(t) PROVE FALSE
    OBVIOUS
  <2>1. call' = [call EXCEPT ![t].tries = @ + 1]
    BY <1>3 DEF InputLength, Between
  <2>2. call'[t].pc = call[t].pc
    BY <1>0, <2>1 DEF Placed, Calls
  <2> QED
    BY <2>2
<1>9. ~CopyBlock(t)
  <2> SUFFICES ASSUME CopyBlock(t) PROVE FALSE
    OBVIOUS
  <2>1. UNCHANGED call
    BY <1>1, <1>2, ThrownExceptions DEF CopyBlock
  <2> QED
    BY <2>1
<1> QED
  BY <1>0, <1>4, <1>5, <1>6, <1>7, <1>8, <1>9 DEF ThreadStep, Continue, Creates, Begin, DeleteFile, SyncOpens, FSync,
     WriteBlock, CloseOutput, CloseInput, CopyBegins, CopyCreates, CopyEnds, At, InsideCopy, Making, Between

\* What the next file of a copy() is, or that there is none any more.
LEMMA NextFile ==
  ASSUME Base, NEW t \in Threads, ThreadStep(t), CopiesAreWhole(t), copy[t] # None, copy'[t] # None,
         call[t].pc = "next"
  PROVE  CopiesAreWhole(t)' /\ CopyGoesOn(t)'
<1>0. Stored /\ Placed /\ copy[t] \in Copies /\ call[t] \in Calls
  BY DEF Base, Placed
<1>1. CopyCreates(t)
  <2>1. CopyEnds(t) => copy'[t] = None
    BY <1>0 DEF CopyEnds, Placed
  <2> QED
    BY <2>1 DEF ThreadStep, Continue, Begin, CreateDirTest, MakeDir, TestFile, RemoveOld, OpenOutput,
       OpenOutputFails, DeleteFile, SyncOpens, FSync, OpenInput, InputLength, WriteBlock, CloseOutput, CloseInput,
       CopyBegins, CopyOpens, CopyBlock, CopyCleansUp, At
<1>2. PICK n \in copy[t].todo :
        LET next == [copy EXCEPT ![t].todo = @ \ {n}, ![t].name = n]
        IN  IF m_isOpen[Dest]
            THEN /\ call' = [call EXCEPT ![t] = [@ EXCEPT !.pc = "create", !.dir = Dest, !.name = n]]
                 /\ copy' = next
            ELSE /\ GoesTo(t, "cleanup")
                 /\ copy' = [next EXCEPT ![t].finally = "AlreadyClosed"]
  BY <1>1 DEF CopyCreates
<1> DEFINE a == [copy[t] EXCEPT !.todo = @ \ {n}]
           p == [a EXCEPT !.name = n]
           q == [p EXCEPT !.finally = "AlreadyClosed"]
<1>3. a \in Copies /\ a.listed = copy[t].listed /\ a.todo = copy[t].todo \ {n} /\ a.lost = copy[t].lost
  BY <1>0 DEF Copies
<1>4. n \in Names
  BY <1>0 DEF Copies
<1>5. p \in Copies /\ p.listed = a.listed /\ p.todo = a.todo /\ p.lost = a.lost /\ p.name = n
  <2> HIDE DEF a
  <2> QED
    BY <1>3, <1>4 DEF Copies
<1>6. q.listed = p.listed /\ q.todo = p.todo /\ q.lost = p.lost /\ q.name = n /\ q.finally # "Null"
  <2> HIDE DEF p
  <2> QED
    BY <1>5 DEF Copies
<1>7. copy'[t] = (IF m_isOpen[Dest] THEN p ELSE q) /\ call'[t].pc = IF m_isOpen[Dest] THEN "create" ELSE "cleanup"
  <2>1. CASE m_isOpen[Dest]
    <3>1. call'[t] = [call[t] EXCEPT !.pc = "create", !.dir = Dest, !.name = n]
      BY <1>0, <1>2, <2>1 DEF Placed
    <3>2. call'[t].pc = "create"
      BY <1>0, <3>1 DEF Calls
    <3>3. copy'[t] = p
      BY <1>0, <1>2, <2>1 DEF Placed
    <3> QED
      BY <2>1, <3>2, <3>3
  <2>2. CASE ~m_isOpen[Dest]
    <3>1. call'[t].pc = "cleanup"
      BY <1>0, <1>2, <2>2, GoesToPc
    <3>2. copy'[t] = q
      BY <1>0, <1>2, <2>2 DEF Placed
    <3> QED
      BY <2>2, <3>1, <3>2
  <2> QED
    BY <2>1, <2>2
<1> HIDE DEF a, p, q
<1>8. UNCHANGED <<entry, file>>
  BY <1>1 DEF CopyCreates, files
<1>9. CopyGoesOn(t)'
  BY <1>6, <1>7 DEF CopyGoesOn
<1>10. copy'[t].listed = copy[t].listed /\ copy'[t].todo = copy[t].todo \ {n} /\ copy'[t].lost = copy[t].lost
       /\ copy'[t].name = n /\ call'[t].pc # "next"
  BY <1>3, <1>5, <1>6, <1>7
<1> QED
  BY <1>8, <1>9, <1>10 DEF CopiesAreWhole, IsCopied, At

\* The streams of a file are closed, and the file is whole.
LEMMA FileEnds ==
  ASSUME Sharing, NEW t \in Threads, CopyCleansUp(t), CopyGoesOn(t), copy[t] # None, copy'[t] # None,
         NEW n, n = copy[t].name
  PROVE  /\ call'[t].pc = "next" /\ (copy[t].lost => copy'[t].lost)
         /\ ~copy'[t].lost => IsCopied(n)'
<1>0. /\ Base /\ Stored /\ Placed /\ HeldOnce /\ ThreadStep(t) /\ CopyHasFiles
      /\ InsideCopy(call[t], out[t], in[t], copy[t]) /\ call[t].pc = "cleanup" /\ copy[t] \in Copies
  BY HeldOnceHolds DEF Sharing, Base, Placed, Fits, ThreadStep, Continue, CopyCleansUp, At
<1>1. ~throw_exception(copy[t].finally) /\ call'[t] = [Idle EXCEPT !.pc = "next"]
      /\ copy'[t] = [copy[t] EXCEPT !.lost = @ \/ failures' # failures \/ ~out[t].good]
  BY <1>0 DEF CopyCleansUp, Placed
<1>2. call'[t].pc = "next"
  BY <1>1, EndedCall DEF AtRest, Between
<1>3. copy'[t].lost = (copy[t].lost \/ failures' # failures \/ ~out[t].good)
  BY <1>0, <1>1 DEF Copies
<1>4. ASSUME ~copy'[t].lost PROVE IsCopied(n)'
  <2>1. copy[t].finally = "Null" /\ failures' = failures /\ out[t].good /\ in[t] # None /\ out[t] # None
    BY <1>0, <1>1, <1>3, <1>4 DEF throw_exception, InsideCopy
  <2>2. n \in Names /\ out[t].wrote = file[in[t].ino].data
    BY <1>0, <2>1, CopyNames DEF CopyGoesOn
  <2> DEFINE src == entry[Src][n]
             dest == entry[Dest][n]
  <2>3. in[t].ino = src /\ src \in Inodes /\ src # None
    BY <1>0, <2>1, NoneAssumption DEF CopyHasFiles, Placed, Inputs
  <2>4. HasInode(out[t]) /\ out[t].ino = dest /\ dest \in Inodes /\ dest # None
    <3>1. out[t].ino # None
      BY <1>0, <2>1 DEF Placed, Fits
    <3> QED
      BY <1>0, <2>1, <3>1 DEF HasInode, CopyHasFiles, Placed, Outputs
  <2>5. UNCHANGED entry
    BY DEF CopyCleansUp
  <2>6. file'[src].data = file[src].data
    BY <1>0, <2>2, <2>3, OtherFilesStay, DirsAssumption
  <2>7. FlushWrites(t, out[t], TRUE)
    <3>1. Closes(t) /\ failures \in Nat
      BY <1>0, <2>1, CleanFiles DEF Stored
    <3>2. ~SystemFails
      BY <2>1, <3>1 DEF SystemFails
    <3> QED
      BY <2>1, <3>1, <3>2 DEF Closes, FlushLoses
  <2>8. file'[dest].data = Overwrite(file[dest].data, out[t].put, Pending(out[t]))
    <3>1. dest \in InUse'
      BY <2>2, <2>4, <2>5, DirsAssumption DEF InUse, Linked
    <3> QED
      BY <2>4, <2>7, <3>1 DEF FlushWrites, Writes
  <2>9. file'[dest].data = out[t].wrote
    <3>1. StreamOf(t, out[t]) /\ out[t] \in Outputs /\ OnlyWriter(t) /\ ~file[dest].shared
      BY <1>0, <2>1, <2>4, SameStream DEF Sharing, SoleWriter, OnlyWriter
    <3> QED
      BY <1>0, <2>4, <2>8, <3>1, WriteGoesOn
  <2> QED
    BY <2>2, <2>3, <2>4, <2>5, <2>6, <2>9 DEF IsCopied
<1> QED
  BY <1>2, <1>3, <1>4

LEMMA OwnWhole ==
  ASSUME Sharing, NEW t \in Threads, ThreadStep(t), CopyGoesOn(t), CopiesAreWhole(t),
         copy[t] # None, copy'[t] # None, call[t].pc # "next"
  PROVE  CopiesAreWhole(t)'
<1>0. Base /\ Stored /\ Placed /\ copy[t].listed \subseteq Names
  BY DEF Sharing, Base, Placed, Copies
<1>1. copy'[t].name = copy[t].name /\ copy'[t].listed = copy[t].listed /\ copy'[t].todo = copy[t].todo
  BY <1>0, CopyStays
<1>2. ASSUME NEW n \in copy[t].listed
      PROVE  /\ entry'[Src][n] # None /\ entry'[Src][n] = entry[Src][n]
             /\ file'[entry[Src][n]].data = file[entry[Src][n]].data
  <2>1. n \in Names /\ entry[Src][n] # None /\ Src \in Dirs /\ Src # Dest
    BY <1>0, <1>2, DirsAssumption DEF CopiesAreWhole
  <2> QED
    BY <1>0, <2>1, OtherFilesStay
<1>3. ASSUME NEW n \in copy[t].listed, n # copy[t].name, IsCopied(n) PROVE IsCopied(n)'
  <2>1. entry'[Dest][n] = entry[Dest][n] /\ file'[entry[Dest][n]].data = file[entry[Dest][n]].data
    BY <1>0, <1>3, OtherFilesStay, DirsAssumption DEF IsCopied
  <2> QED
    BY <1>2, <1>3, <2>1 DEF IsCopied
<1>4. copy[t].lost => copy'[t].lost
  <2>1. CASE call[t].pc # "cleanup"
    BY <1>0, <2>1, CopyStays
  <2>2. CASE call[t].pc = "cleanup"
    <3>1. CopyCleansUp(t)
      BY <1>0, <2>2, InCleanup
    <3> QED
      BY <3>1, FileEnds
  <2> QED
    BY <2>1, <2>2
<1>5. ASSUME ~copy'[t].lost, NEW n \in copy[t].listed \ copy[t].todo, At(t, "next")' \/ n # copy[t].name
      PROVE  IsCopied(n)'
  <2>1. CASE n # copy[t].name
    <3>1. IsCopied(n)
      BY <1>4, <1>5, <2>1 DEF CopiesAreWhole
    <3> QED
      BY <1>3, <1>5, <2>1, <3>1
  <2>2. CASE n = copy[t].name
    <3>1. call'[t].pc = "next"
      BY <1>5, <2>2 DEF At
    <3>2. CopyCleansUp(t)
      BY <1>0, <3>1, ToNext
    <3> QED
      BY <1>5, <2>2, <3>2, FileEnds
  <2> QED
    BY <2>1, <2>2
<1> QED
  BY <1>1, <1>2, <1>5 DEF CopiesAreWhole

\* A copy() that begins has copied nothing yet.
LEMMA CopyBeginsWhole ==
  ASSUME Base, NEW t \in Threads, ThreadStep(t), copy[t] = None, copy'[t] # None
  PROVE  CopyGoesOn(t)' /\ CopiesAreWhole(t)'
<1>1. call'[t].pc = "next" /\ copy'[t].listed = list_all(Src) /\ copy'[t].todo = list_all(Src) /\ CopyBegins(t)
  BY CopyStarts DEF Base
<1>2. UNCHANGED entry
  BY <1>1 DEF CopyBegins
<1> QED
  BY <1>1, <1>2 DEF CopyGoesOn, CopiesAreWhole, list_all

\* Names that go to stable storage change no file of a copy().
LEMMA WriteBackCopying ==
  ASSUME Base, NEW u \in Threads, CopyGoesOn(u), CopiesAreWhole(u),
         NEW d \in Dirs, NEW n \in Names, WriteBack(d, n)
  PROVE  CopyGoesOn(u)' /\ CopiesAreWhole(u)'
<1>1. /\ Stored /\ Placed /\ Unwritten /\ UNCHANGED <<entry, call, out, in, copy>>
      /\ Fits(call[u], out[u], in[u], copy[u])
  BY WriteBackBase DEF Base, Placed, streams
<1>2. ASSUME NEW e \in Dirs, NEW m \in Names, entry[e][m] # None
      PROVE  file'[entry[e][m]].data = file[entry[e][m]].data
  BY <1>1, <1>2 DEF Stored, InUse, Linked, Unwritten
<1>3. CopyGoesOn(u)'
  <2>1. in[u] # None => file'[in[u].ino].data = file[in[u].ino].data
    BY <1>1 DEF Placed, Inputs, InUse, Unwritten
  <2>2. copy[u] # None /\ call[u].pc \in {"copying", "cleanup"} =>
          in[u] # None \/ (call[u].pc = "cleanup" /\ copy[u].finally # "Null")
    BY <1>1 DEF Fits, InsideCopy
  <2> QED
    BY <1>1, <2>1, <2>2 DEF CopyGoesOn
<1>4. CopiesAreWhole(u)'
  <2>1. ASSUME copy[u] # None, NEW m \in copy[u].listed, IsCopied(m) PROVE IsCopied(m)'
    <3>1. m \in Names /\ entry[Src][m] # None
      BY <1>1, <2>1 DEF Placed, Copies, CopiesAreWhole
    <3> QED
      BY <1>1, <1>2, <2>1, <3>1, DirsAssumption DEF IsCopied
  <2> QED
    BY <1>1, <2>1 DEF CopiesAreWhole, At
<1> QED
  BY <1>3, <1>4

LEMMA NextCopying == Sharing /\ Copying /\ [Next]_vars => Copying'
<1> SUFFICES ASSUME Sharing, Copying, [Next]_vars, NEW u \in Threads
             PROVE  CopyGoesOn(u)' /\ CopiesAreWhole(u)'
  BY DEF Copying
<1>0. Base /\ CopyGoesOn(u) /\ CopiesAreWhole(u)
  BY DEF Sharing, Copying
<1>1. CASE copy'[u] = None
  BY <1>1 DEF CopyGoesOn, CopiesAreWhole
<1>2. CASE copy'[u] # None
  <2>1. ASSUME NEW t \in Threads, ThreadStep(t) PROVE CopyGoesOn(u)' /\ CopiesAreWhole(u)'
    <3>1. CASE t # u
      BY <1>0, <2>1, <3>1, OthersCopying
    <3>2. CASE t = u /\ copy[u] = None
      BY <1>0, <1>2, <2>1, <3>2, CopyBeginsWhole
    <3>3. CASE t = u /\ copy[u] # None /\ call[u].pc = "next"
      BY <1>0, <1>2, <2>1, <3>3, NextFile
    <3>4. CASE t = u /\ copy[u] # None /\ call[u].pc # "next"
      BY <1>0, <1>2, <2>1, <3>4, OwnGoesOn, OwnWhole
    <3> QED
      BY <3>1, <3>2, <3>3, <3>4
  <2>2. CASE UNCHANGED <<entry, file, call, out, in, copy>>
    BY <1>0, <2>2 DEF CopyGoesOn, CopiesAreWhole, IsCopied, At
  <2>3. CASE Crash
    BY <1>2, <2>3 DEF Crash
  <2>4. CASE \E d \in Dirs, n \in Names : WriteBack(d, n)
    BY <1>0, <2>4, WriteBackCopying
  <2> QED
    BY <1>0, <2>1, <2>2, <2>3, <2>4, NextSteps DEF Base, Close, Open, vars, files, objects, streams
<1> QED
  BY <1>1, <1>2

\* Whatever the threads, the directories, the names and the failures: the files
\* of the destination, as far as a copy() has come, are those of the source,
\* unless a write was lost.
THEOREM CopiesAreTheSource == Spec => []CopyIsWhole
<1>1. Init => Copying
  BY DEF Init, Copying, CopyGoesOn, CopiesAreWhole
<1>2. Copying => CopyIsWhole
  BY DEF Copying, CopiesAreWhole, CopyIsWhole, IsCopied
<1> QED
  BY <1>1, <1>2, InitSharing, NextSharing, NextCopying, PTL DEF Spec

-----------------------------------------------------------------------------
(* LockScope *)

\* A factory is as its constructor made it until a directory takes it.
UnusedIsNew ==
  \A f \in Factories : users[f] = {} => m_lockDir[f] = LockDir[f]

\* Who has a factory has used it, and nobody has a lock without one.
UsersKnown ==
  \A d \in Directories :
    /\ m_lockFactory[d] \in Factories \cup {NoPath}
    /\ IsOpen(d) => d \in users[m_lockFactory[d]]
    /\ ~IsOpen(d) => writer[d] = NoLock /\ \A f \in Factories : d \notin users[f]

\* A directory that is used as directory.h asks for has a factory of its own,
\* of the kind its constructor takes, as the constructor has left it.
ScopedIsAsOpened ==
  \A d \in Directories : Scoped(d) =>
    LET f == m_lockFactory[d]
    IN  /\ users[f] = {d}
        /\ Kind[f] = IF InMemory(d) THEN "single" ELSE "fs"
        /\ ~InMemory(d) =>
             /\ m_lockDir[f] = Place(d)
             /\ m_lockPrefix[f] = IF Place(d) = Path[d] THEN NoPrefix ELSE get_lock_id(d)
        /\ writer[d] \in {NoLock, make_lock(d)}

\* No lock has two holders, but for the one that is always obtained.
OneHolder ==
  \A d, e \in Directories :
    d # e /\ writer[d] \notin {NoLock, SingletonLock} => writer[e] # writer[d]

ScopeTyped ==
  /\ m_lockFactory = [d \in Directories |-> m_lockFactory[d]]
  /\ m_lockDir = [f \in Factories |-> m_lockDir[f]]
  /\ m_lockPrefix = [f \in Factories |-> m_lockPrefix[f]]
  /\ writer = [d \in Directories |-> writer[d]]
  /\ users \in [Factories -> SUBSET Directories]
  /\ astray \subseteq Directories

ScopeInv == ScopeTyped /\ UnusedIsNew /\ UsersKnown /\ ScopedIsAsOpened /\ OneHolder

\* Locks of different kinds, and prefixes, are different.
LEMMA LocksDiffer ==
  /\ \A f \in Factories : /\ FileLock(f) # NoLock /\ NameLock(f) # NoLock
                          /\ FileLock(f) # SingletonLock /\ NameLock(f) # SingletonLock
  /\ \A f, g \in Factories : FileLock(f) # NameLock(g)
  /\ \A d, e \in Directories :
       /\ ~InMemory(d) => get_lock_id(d) # NoPrefix
       /\ ~InMemory(d) /\ ~InMemory(e) /\ get_lock_id(d) = get_lock_id(e) => Path[d] = Path[e]
BY DEF FileLock, NameLock, NoLock, SingletonLock, NoPrefix, get_lock_id

LEMMA InitScopeInv == ScopeInit => ScopeInv
BY ScopeAssumption DEF ScopeInit, ScopeInv, ScopeTyped, UnusedIsNew, UsersKnown, ScopedIsAsOpened, OneHolder,
   Scoped, IsOpen

\* A directory gets factory f: when it opens, and later, which leads astray.
LEMMA TakesScopeInv ==
  ASSUME ScopeInv, NEW d \in Directories, NEW f \in Factories, TakesFactory(d, f), UNCHANGED writer,
         NEW dir, m_lockDir' = [m_lockDir EXCEPT ![f] = dir],
         NEW prefix, m_lockPrefix' = [m_lockPrefix EXCEPT ![f] = prefix],
         ~IsOpen(d) /\ users[f] \ {d} = {} =>
           /\ Kind[f] = IF InMemory(d) THEN "single" ELSE "fs"
           /\ ~InMemory(d) =>
                /\ dir = IF LockDir[f] = NoPath THEN Path[d] ELSE LockDir[f]
                /\ prefix = IF LockDir[f] \in {NoPath, Path[d]} THEN NoPrefix ELSE get_lock_id(d)
  PROVE  ScopeInv'
<1> USE ScopeAssumption DEF ScopeInv, ScopeTyped, TakesFactory
<1>1. ScopeTyped'
  OBVIOUS
<1>2. UnusedIsNew'
  BY DEF UnusedIsNew
<1>3. UsersKnown'
  BY DEF UsersKnown, IsOpen
<1>4. ScopedIsAsOpened'
  <2> SUFFICES ASSUME NEW e \in Directories, Scoped(e)'
               PROVE  LET g == m_lockFactory'[e]
                      IN  /\ users'[g] = {e}
                          /\ Kind[g] = IF InMemory(e) THEN "single" ELSE "fs"
                          /\ ~InMemory(e) =>
                               /\ m_lockDir'[g] = Place(e)'
                               /\ m_lockPrefix'[g] = IF Place(e)' = Path[e] THEN NoPrefix ELSE get_lock_id(e)
                          /\ writer[e] \in {NoLock, make_lock(e)'}
    BY DEF ScopedIsAsOpened, InMemory, get_lock_id
  <2>1. CASE e = d
    <3>1. ~IsOpen(d) /\ users[f] \ {d} = {}
      BY <2>1 DEF Scoped
    <3>2. m_lockFactory'[d] = f /\ users'[f] = {d} /\ writer[d] = NoLock
      BY <3>1 DEF UsersKnown
    <3>3. Place(d)' = IF LockDir[f] = NoPath THEN Path[d] ELSE LockDir[f]
      BY <3>2 DEF Place
    <3> QED
      BY <2>1, <3>1, <3>2, <3>3
  <2>2. CASE e # d
    <3>1. m_lockFactory'[e] = m_lockFactory[e] /\ Scoped(e)
      BY <2>2 DEF Scoped, IsOpen
    <3>2. m_lockFactory[e] # f
      BY <2>2, <3>1 DEF Scoped, UsersKnown
    <3>3. m_lockFactory[e] \in Factories
      BY <3>1 DEF Scoped, UsersKnown, IsOpen
    <3>4. Place(e)' = Place(e) /\ make_lock(e)' = make_lock(e)
      BY <3>1, <3>2, <3>3 DEF Place, make_lock, FileLock, NameLock
    <3> QED
      BY <3>1, <3>2, <3>3, <3>4 DEF ScopedIsAsOpened
  <2> QED
    BY <2>1, <2>2
<1>5. OneHolder'
  BY DEF OneHolder
<1> QED
  BY <1>1, <1>2, <1>3, <1>4, <1>5

LEMMA LocksScopeInv ==
  ASSUME ScopeInv, NEW d \in Directories, Obtain(d) \/ Release(d)
  PROVE  ScopeInv'
<1> USE DEF ScopeInv, ScopeTyped
<1>1. UNCHANGED <<m_lockFactory, m_lockDir, m_lockPrefix, users, astray>>
  BY DEF Obtain, Release
<1>2. ScopeTyped' /\ UnusedIsNew'
  BY <1>1 DEF Obtain, Release, UnusedIsNew
<1>3. UsersKnown'
  BY <1>1 DEF Obtain, Release, UsersKnown, IsOpen
<1>4. \A e \in Directories : make_lock(e)' = make_lock(e) /\ Place(e)' = Place(e) /\ Scoped(e)' = Scoped(e)
  BY <1>1 DEF make_lock, FileLock, NameLock, Place, Scoped, IsOpen
<1>5. \A e \in Directories : writer'[e] \in {writer[e], NoLock, make_lock(e)}
  BY DEF Obtain, Release
<1>6. ScopedIsAsOpened'
  <2> SUFFICES ASSUME NEW e \in Directories, Scoped(e)'
               PROVE  LET g == m_lockFactory'[e]
                      IN  /\ users'[g] = {e}
                          /\ Kind[g] = IF InMemory(e) THEN "single" ELSE "fs"
                          /\ ~InMemory(e) =>
                               /\ m_lockDir'[g] = Place(e)'
                               /\ m_lockPrefix'[g] = IF Place(e)' = Path[e] THEN NoPrefix ELSE get_lock_id(e)
                          /\ writer'[e] \in {NoLock, make_lock(e)'}
    BY DEF ScopedIsAsOpened, InMemory, get_lock_id
  <2>1. Scoped(e) /\ make_lock(e)' = make_lock(e) /\ Place(e)' = Place(e)
    BY <1>4
  <2> QED
    BY <1>1, <1>5, <2>1 DEF ScopedIsAsOpened
<1>7. OneHolder'
  BY DEF OneHolder, Obtain, Release, CanObtain
<1> QED
  BY <1>2, <1>3, <1>6, <1>7

LEMMA NextScopeInv == ScopeInv /\ [ScopeNext]_scope => ScopeInv'
<1> SUFFICES ASSUME ScopeInv, [ScopeNext]_scope PROVE ScopeInv'
  OBVIOUS
<1> USE DEF set_lock_dir, set_lock_prefix
<1>1. ASSUME NEW d \in Directories, NEW f \in Factories, OpenFS(d, f) PROVE ScopeInv'
  <2> DEFINE dir == IF m_lockDir[f] = NoPath THEN Path[d] ELSE m_lockDir[f]
             prefix == IF m_lockDir[f] \in {NoPath, Path[d]} THEN NoPrefix ELSE get_lock_id(d)
  <2>1. m_lockDir' = [m_lockDir EXCEPT ![f] = dir] /\ m_lockPrefix' = [m_lockPrefix EXCEPT ![f] = prefix]
    BY <1>1 DEF OpenFS, ScopeInv, ScopeTyped
  <2>2. users[f] \ {d} = {} => m_lockDir[f] = LockDir[f]
    BY <1>1 DEF OpenFS, ScopeInv, ScopeTyped, UnusedIsNew, UsersKnown
  <2>3. ~IsOpen(d) /\ users[f] \ {d} = {} =>
          /\ Kind[f] = IF InMemory(d) THEN "single" ELSE "fs"
          /\ ~InMemory(d) =>
               /\ dir = IF LockDir[f] = NoPath THEN Path[d] ELSE LockDir[f]
               /\ prefix = IF LockDir[f] \in {NoPath, Path[d]} THEN NoPrefix ELSE get_lock_id(d)
    BY <1>1, <2>2 DEF OpenFS
  <2> QED
    BY <1>1, <2>1, <2>3, TakesScopeInv DEF OpenFS
<1>2. ASSUME NEW d \in Directories, NEW f \in Factories, OpenRAM(d, f) PROVE ScopeInv'
  <2>1. m_lockDir' = [m_lockDir EXCEPT ![f] = m_lockDir[f]]
    BY <1>2 DEF OpenRAM, ScopeInv, ScopeTyped
  <2> QED
    BY <1>2, <2>1, TakesScopeInv DEF OpenRAM
<1>3. ASSUME NEW d \in Directories, NEW f \in Factories, set_lock_factory(d, f) PROVE ScopeInv'
  <2>1. m_lockDir' = [m_lockDir EXCEPT ![f] = m_lockDir[f]]
    BY <1>3 DEF set_lock_factory, ScopeInv, ScopeTyped
  <2> QED
    BY <1>3, <2>1, TakesScopeInv DEF set_lock_factory
<1>4. CASE UNCHANGED scope
  BY <1>4 DEF scope, ScopeInv, ScopeTyped, UnusedIsNew, UsersKnown, ScopedIsAsOpened, OneHolder, Scoped,
     IsOpen, InMemory, Place, make_lock, FileLock, NameLock
<1> QED
  BY <1>1, <1>2, <1>3, <1>4, LocksScopeInv DEF ScopeNext

\* Of directories that are used as directory.h asks for, the locks are those of
\* their indexes.
LEMMA ScopedLocks ==
  ASSUME ScopeInv, NEW d \in Directories, NEW e \in Directories, d # e, Scoped(d), Scoped(e)
  PROVE  /\ SameIndex(d, e) /\ SamePlace(d, e) => make_lock(d) = make_lock(e) /\ make_lock(d) # SingletonLock
         /\ ~SameIndex(d, e) => make_lock(d) # make_lock(e)
         /\ make_lock(d) # NoLock
<1> DEFINE f == m_lockFactory[d]
           g == m_lockFactory[e]
<1>1. f \in Factories /\ g \in Factories /\ f # g
  BY DEF ScopeInv, UsersKnown, ScopedIsAsOpened, Scoped, IsOpen
<1>2. CASE InMemory(d) /\ InMemory(e)
  <2>1. make_lock(d) = NameLock(f) /\ make_lock(e) = NameLock(g)
    BY <1>2 DEF ScopeInv, ScopedIsAsOpened, make_lock
  <2> QED
    BY <1>1, <1>2, <2>1 DEF NameLock, NoLock, SameIndex
<1>3. CASE (InMemory(d) /\ ~InMemory(e)) \/ (~InMemory(d) /\ InMemory(e))
  <2>1. \/ make_lock(d) = NameLock(f) /\ make_lock(e) = FileLock(g)
        \/ make_lock(d) = FileLock(f) /\ make_lock(e) = NameLock(g)
    BY <1>3 DEF ScopeInv, ScopedIsAsOpened, make_lock
  <2> QED
    BY <1>1, <1>3, <2>1, LocksDiffer DEF SameIndex, InMemory
<1>4. CASE ~InMemory(d) /\ ~InMemory(e)
  <2>1. make_lock(d) = FileLock(f) /\ make_lock(e) = FileLock(g)
    BY <1>4 DEF ScopeInv, ScopedIsAsOpened, make_lock
  <2>2. /\ m_lockDir[f] = Place(d) /\ m_lockPrefix[f] = IF Place(d) = Path[d] THEN NoPrefix ELSE get_lock_id(d)
        /\ m_lockDir[g] = Place(e) /\ m_lockPrefix[g] = IF Place(e) = Path[e] THEN NoPrefix ELSE get_lock_id(e)
    BY <1>4 DEF ScopeInv, ScopedIsAsOpened
  <2>3. SameIndex(d, e) /\ SamePlace(d, e) => FileLock(f) = FileLock(g)
    BY <2>2 DEF FileLock, SameIndex, SamePlace, get_lock_id, InMemory
  <2>4. ~SameIndex(d, e) => FileLock(f) # FileLock(g)
    BY <1>4, <2>2, LocksDiffer DEF FileLock, SameIndex
  <2> QED
    BY <1>1, <2>1, <2>3, <2>4, LocksDiffer
<1> QED
  BY <1>2, <1>3, <1>4

\* "This ID should be the same if two Directory instances are considered the same
\* index.  This is how locking scopes to the right index" (src/store/directory.h):
\* for every set of directories and factories, of two directories that use their
\* factories as it asks, two on one path with their locks in one place never both
\* have the write lock, and others never keep each other from it.
THEOREM ScopeIsExact == ScopeSpec => []ScopeExact
<1>1. ScopeInv => ScopeExact
  <2> SUFFICES ASSUME ScopeInv, NEW d \in Directories, NEW e \in Directories,
                      Scoped(d), Scoped(e), d # e, writer[d] # NoLock
               PROVE  /\ SameIndex(d, e) /\ SamePlace(d, e) => writer[e] = NoLock /\ ~CanObtain(e)
                      /\ ~SameIndex(d, e) => make_lock(e) # writer[d]
    BY DEF ScopeExact
  <2>1. writer[d] = make_lock(d) /\ writer[e] \in {NoLock, make_lock(e)}
    BY DEF ScopeInv, ScopedIsAsOpened
  <2> QED
    BY <2>1, ScopedLocks DEF ScopeInv, OneHolder, CanObtain
<1> QED
  BY <1>1, InitScopeInv, NextScopeInv, PTL DEF ScopeSpec
=================================================================================
