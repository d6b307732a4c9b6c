------------------------------- MODULE MMapStream -------------------------------
(***************************************************************************)
(* The input streams of MMapDirectory (src/store/mmap_directory.cpp), on a *)
(* file that a SimpleFSIndexOutput has written: a position in a mapping of *)
(* the file, which the clones of a stream share.  A read behind the end of *)
(* the mapping, or of a clone after its original is closed, has no defined *)
(* behaviour, and is not made here.                                        *)
(***************************************************************************)
EXTENDS FSStream

\* An MMapIndexInput: whose mapping it uses, m_bufferPosition, m_length, and
\* whether it is closed.
MapStream(f, length, pos) ==
  [file |-> f, start |-> 0, pos |-> pos, length |-> length, done |-> FALSE]

MapStreams == [file : Readers, start : {0}, pos : Nat, length : Nat, done : BOOLEAN]
ASSUME MapNoneAssumption == None \notin MapStreams

IsMapped(r) == Usable(r) /\ ~in[in[r].file].done

\* A file of no bytes cannot be mapped, and its stream is not opened.
OpenMap(r) ==
  /\ closed /\ in[r] = None /\ disk # <<>>
  /\ in' = [in EXCEPT ![r] = MapStream(r, Len(disk), 0)]
  /\ UNCHANGED <<output, getAt, getState, asserted, got>>

\* AlreadyClosed is thrown if the original is closed.
CloneMap(r, s) ==
  /\ IsMapped(r) /\ in[s] = None
  /\ in' = [in EXCEPT ![s] = MapStream(in[r].file, in[r].length, in[r].pos)]
  /\ UNCHANGED <<output, getAt, getState, asserted, got>>

\* read_byte() and read_bytes().
ReadMap(r, n) ==
  /\ IsMapped(r) /\ in[r].pos + n <= in[r].length
  /\ Returned(r, n, SubSeq(disk, in[r].pos + 1, in[r].pos + n))
  /\ in' = [in EXCEPT ![r].pos = @ + n]
  /\ UNCHANGED <<output, getAt, getState, asserted>>

SeekMap(r, p) ==
  /\ Usable(r)
  /\ Returned(r, 0, <<>>)
  /\ in' = [in EXCEPT ![r].pos = p]
  /\ UNCHANGED <<output, getAt, getState, asserted>>

\* A clone is not closed; the original takes the mapping with it.
CloseMap(r) ==
  /\ Usable(r) /\ in[r].file = r
  /\ Returned(r, 0, <<>>)
  /\ in' = [in EXCEPT ![r].done = TRUE, ![r].length = 0, ![r].pos = 0]
  /\ UNCHANGED <<output, getAt, getState, asserted>>

MapInput ==
  \E r \in setup.readers :
    \/ OpenMap(r) \/ CloseMap(r)
    \/ \E s \in setup.readers : CloneMap(r, s)
    \/ \E n \in 1..setup.maxLength : ReadMap(r, n)
    \/ \E p \in 0..setup.maxLength : SeekMap(r, p)

StreamNext ==
  \/ Next
  \/ setup.directory = "mmap" /\ MapInput

StreamSpec == Init /\ [][StreamNext]_vars
=============================================================================
