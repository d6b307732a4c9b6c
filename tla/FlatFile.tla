-------------------------------- MODULE FlatFile --------------------------------
(***************************************************************************)
(* What a file of a Directory promises to the streams on it                *)
(* (src/store/directory.h, index_output.h, index_input.h): one stream      *)
(* writes it, at any position; after it is closed, any number of streams   *)
(* read it.  Nothing of buffers shows.  RAMStream and FSStream implement   *)
(* it.                                                                     *)
(***************************************************************************)
EXTENDS Integers, Sequences

CONSTANTS
  Byte,                 \* the bytes
  Readers,              \* the input streams
  EOF,                  \* the IOException of a read past the end; no sequence
  None                  \* of an input stream that is not open; no number

VARIABLES
  data,                 \* the bytes of the file
  wpos,                 \* where the output stream writes
  closed,               \* whether the output stream is closed
  rpos,                 \* where each input stream reads, or None
  got                   \* what it asked for and got in a read after its last seek
vars == <<data, wpos, closed, rpos, got>>

\* data with bs from position p on, in the place of what was there.
Overwrite(d, p, bs) ==
  [i \in 1..(IF p + Len(bs) > Len(d) THEN p + Len(bs) ELSE Len(d)) |->
     IF i \in (p + 1)..(p + Len(bs)) THEN bs[i - p] ELSE d[i]]

Init ==
  /\ data = <<>> /\ wpos = 0 /\ closed = FALSE
  /\ rpos = [r \in Readers |-> None]
  /\ got = [r \in Readers |-> [asked |-> 0, bytes |-> <<>>]]

Write ==
  /\ ~closed
  /\ \E n \in 1..(Len(data') - wpos) :
       /\ data' = Overwrite(data, wpos, SubSeq(data', wpos + 1, wpos + n))
       /\ wpos' = wpos + n
  /\ data' \in Seq(Byte)
  /\ UNCHANGED <<closed, rpos, got>>

Seek ==
  /\ ~closed
  /\ wpos' \in 0..Len(data)
  /\ UNCHANGED <<data, closed, rpos, got>>

Reset ==
  /\ ~closed
  /\ data' = <<>> /\ wpos' = 0
  /\ UNCHANGED <<closed, rpos, got>>

Close ==
  /\ closed' = TRUE
  /\ UNCHANGED <<data, wpos, rpos, got>>

Open(r) ==
  /\ closed /\ rpos[r] = None
  /\ rpos' = [rpos EXCEPT ![r] = 0]
  /\ UNCHANGED <<data, wpos, closed, got>>

\* A clone is a stream of its own, at the position of the original.
Clone(r, s) ==
  /\ rpos[r] # None /\ rpos[s] = None
  /\ rpos' = [rpos EXCEPT ![s] = rpos[r]]
  /\ UNCHANGED <<data, wpos, closed, got>>

Read(r) ==
  /\ rpos[r] # None
  /\ \E n \in 1..(Len(data) - rpos[r]) :
       /\ got' = [got EXCEPT ![r] =
                   [asked |-> n, bytes |-> SubSeq(data, rpos[r] + 1, rpos[r] + n)]]
       /\ rpos' = [rpos EXCEPT ![r] = @ + n]
  /\ UNCHANGED <<data, wpos, closed>>

\* More bytes were asked for than are left; those may have been passed over.
ReadPastEnd(r) ==
  /\ rpos[r] # None
  /\ got'[r].asked > Len(data) - rpos[r]
  /\ got' = [got EXCEPT ![r] = [asked |-> got'[r].asked, bytes |-> EOF]]
  /\ \E p \in {rpos[r]} \cup rpos[r]..Len(data) : rpos' = [rpos EXCEPT ![r] = p]
  /\ UNCHANGED <<data, wpos, closed>>

SeekInput(r) ==
  /\ rpos[r] # None
  /\ rpos'[r] \in Nat
  /\ rpos' = [rpos EXCEPT ![r] = rpos'[r]]
  /\ got' = [got EXCEPT ![r] = [asked |-> 0, bytes |-> <<>>]]
  /\ UNCHANGED <<data, wpos, closed>>

Next ==
  \/ Write \/ Seek \/ Reset \/ Close
  \/ \E r \in Readers :
       \/ Open(r) \/ Read(r) \/ ReadPastEnd(r) \/ SeekInput(r)
       \/ \E s \in Readers : Clone(r, s)

Spec == Init /\ [][Next]_vars
=============================================================================
