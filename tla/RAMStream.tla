-------------------------------- MODULE RAMStream --------------------------------
(***************************************************************************)
(* The streams on a RAMFile: RAMOutputStream                               *)
(* (src/store/ram_output_stream.cpp), which adds buffers as it goes and    *)
(* seeks among them, and RAMInputStream (src/store/ram_input_stream.cpp),  *)
(* which reads the same buffers up to the length that the file had when it *)
(* was opened.  As src/store/directory.h has it, a file is written once,   *)
(* and read after that.  A write or read is one round of the loop of       *)
(* write_bytes() or read_bytes(); of one byte, it is write_byte() or       *)
(* read_byte().                                                            *)
(***************************************************************************)
EXTENDS Integers, Sequences, SequencesExt

CONSTANTS
  Byte, Readers, EOF, None,     \* see FlatFile
  Junk,                 \* the content of a byte of a buffer never written; no byte
  BUFFER_SIZE,          \* RAMOutputStream::BUFFER_SIZE
  IntMax,               \* std::numeric_limits<int>::max()
  MaxLength             \* bound: the length of the file, and its positions

VARIABLES
  m_buffers,            \* RAMFile: m_buffers
  m_length,             \* RAMFile: m_length
  out,                  \* the RAMOutputStream
  closed,               \* whether it is closed
  in,                   \* the RAMInputStreams, None before they are opened
  got,                  \* what it asked for and got in a read after its last seek
  astray                \* ghost: a file was opened that has whole buffers behind
                        \* its length, or sought behind its last buffer

vars == <<m_buffers, m_length, out, closed, in, got, astray>>

Buffer == [1..BUFFER_SIZE -> Byte \cup {Junk}]

Fresh == [index |-> -1, pos |-> 0, start |-> 0, len |-> 0]
FreshIn == [index |-> -1, pos |-> 0, start |-> 0, len |-> 0, length |-> 0, current |-> None]

Inputs ==
  [index : Int, pos : Nat, start : Nat, len : Int, length : Nat, current : Nat \cup {None}]

TypeOK ==
  /\ m_buffers \in Seq(Buffer)
  /\ m_length \in Nat
  /\ out.index \in -1..(Len(m_buffers) - 1) /\ out.pos \in 0..BUFFER_SIZE
  /\ closed \in BOOLEAN
  /\ \A r \in Readers : in[r] # None =>
       /\ in[r].pos \in 0..BUFFER_SIZE
       /\ in[r].current \in 0..(Len(m_buffers) - 1) \cup {None}
  /\ astray \in BOOLEAN

Init ==
  /\ m_buffers = <<>> /\ m_length = 0
  /\ out = Fresh /\ closed = FALSE
  /\ in = [r \in Readers |-> None]
  /\ astray = FALSE
  /\ got = [r \in Readers |-> [asked |-> 0, bytes |-> <<>>]]

file == <<m_buffers, m_length>>
input == <<in, got, astray>>

\* The byte at position p of the file, counted from 0.
ByteAt(p) == m_buffers[(p \div BUFFER_SIZE) + 1][(p % BUFFER_SIZE) + 1]

-----------------------------------------------------------------------------
(* RAMOutputStream *)

pointer == out.start + out.pos
DataLength == IF pointer > m_length THEN pointer ELSE m_length

\* switch_current_buffer(): the buffers when buffer i is the current one.
WithBuffer(i) ==
  IF i = Len(m_buffers) THEN Append(m_buffers, [k \in 1..BUFFER_SIZE |-> Junk]) ELSE m_buffers

AtBuffer(i, pos) == [index |-> i, pos |-> pos, start |-> BUFFER_SIZE * i, len |-> BUFFER_SIZE]

Write(bs) ==
  /\ ~closed
  /\ LET full == out.pos = out.len
         i == IF full THEN out.index + 1 ELSE out.index
         pos == IF full THEN 0 ELSE out.pos
     IN  /\ pos + Len(bs) <= BUFFER_SIZE
         /\ BUFFER_SIZE * i + pos + Len(bs) <= MaxLength
         /\ m_buffers' = [WithBuffer(i) EXCEPT ![i + 1] =
              [k \in 1..BUFFER_SIZE |->
                 IF k \in (pos + 1)..(pos + Len(bs)) THEN bs[k - pos] ELSE @[k]]]
         /\ out' = AtBuffer(i, pos + Len(bs))
  /\ UNCHANGED <<m_length, closed, input>>

\* Mutant: the length is not set before the stream goes back.
Seek_NoLength(p) ==
  /\ ~closed
  /\ IF p < out.start \/ p >= out.start + out.len
     THEN /\ m_buffers' = WithBuffer(p \div BUFFER_SIZE)
          /\ out' = AtBuffer(p \div BUFFER_SIZE, p % BUFFER_SIZE)
     ELSE /\ out' = [out EXCEPT !.pos = p % BUFFER_SIZE]
          /\ UNCHANGED m_buffers
  /\ UNCHANGED <<m_length, closed, input>>

\* At the end of the file and of its last buffer, a buffer is added.
Seek(p) ==
  /\ ~closed
  /\ m_length' = DataLength
  /\ IF p < out.start \/ p >= out.start + out.len
     THEN /\ m_buffers' = WithBuffer(p \div BUFFER_SIZE)
          /\ out' = AtBuffer(p \div BUFFER_SIZE, p % BUFFER_SIZE)
     ELSE /\ out' = [out EXCEPT !.pos = p % BUFFER_SIZE]
          /\ UNCHANGED m_buffers
  /\ UNCHANGED <<closed, input>>

\* flush() and length(): set_file_length().
Flush ==
  /\ ~closed
  /\ m_length' = DataLength
  /\ UNCHANGED <<m_buffers, out, closed, input>>

Close ==
  /\ ~closed
  /\ m_length' = DataLength
  /\ closed' = TRUE
  /\ UNCHANGED <<m_buffers, out, input>>

\* The buffers stay, to be written again.
Reset ==
  /\ ~closed
  /\ out' = Fresh
  /\ m_length' = 0
  /\ UNCHANGED <<m_buffers, closed, input>>

-----------------------------------------------------------------------------
(* RAMInputStream *)

TooLarge == m_length \div BUFFER_SIZE >= IntMax

\* open_input(), on a file that its output stream has closed; one that is too
\* large is an exception.
Open(r) ==
  /\ closed /\ in[r] = None
  /\ ~TooLarge
  /\ in' = [in EXCEPT ![r] = [FreshIn EXCEPT !.length = m_length]]
  /\ astray' = (astray \/ Len(m_buffers) * BUFFER_SIZE >= m_length + BUFFER_SIZE)
  /\ UNCHANGED <<file, out, closed, got>>

Clone(r, s) ==
  /\ in[r] # None /\ in[s] = None
  /\ in' = [in EXCEPT ![s] = in[r]]
  /\ UNCHANGED <<file, out, closed, got, astray>>

Smaller(a, b) == IF a < b THEN a ELSE b

\* switch_current_buffer(), when there is buffer i.
SwitchedTo(i, s) ==
  [index |-> i, pos |-> 0, start |-> BUFFER_SIZE * i, length |-> s.length, current |-> i,
   len |-> Smaller(s.length - BUFFER_SIZE * i, BUFFER_SIZE)]

Returned(r, n, bytes) == got' = [got EXCEPT ![r] = [asked |-> n, bytes |-> bytes]]

\* read_byte() takes its byte whatever the length left in the buffer.
Read(r, n) ==
  /\ in[r] # None
  /\ LET turn == in[r].pos >= in[r].len
         i == in[r].index + 1
         s == IF turn THEN SwitchedTo(i, in[r]) ELSE in[r]
     IN  /\ turn => i < Len(m_buffers)
         /\ n = 1 \/ n <= s.len - s.pos
         /\ Returned(r, n, SubSeq(m_buffers[s.current + 1], s.pos + 1, s.pos + n))
         /\ in' = [in EXCEPT ![r] = [s EXCEPT !.pos = @ + n]]
  /\ UNCHANGED <<file, out, closed, astray>>

\* switch_current_buffer(true) throws, and leaves the index where it is.
ReadPastEnd(r) ==
  /\ in[r] # None
  /\ in[r].pos >= in[r].len /\ in[r].index + 1 >= Len(m_buffers)
  /\ in[r].index <= Len(m_buffers)
  /\ Returned(r, 1, EOF)
  /\ in' = [in EXCEPT ![r].index = @ + 1]
  /\ UNCHANGED <<file, out, closed, astray>>

\* With no buffer i, switch_current_buffer(false) steps back and sets the
\* position to the end of the buffer, and seek() sets it to p % BUFFER_SIZE.
SeekInput(r, p) ==
  /\ in[r] # None
  /\ LET s == in[r]
         i == p \div BUFFER_SIZE
         out_of == s.current = None \/ p < s.start \/ p >= s.start + BUFFER_SIZE
         t == IF ~out_of THEN s
              ELSE IF i >= Len(m_buffers) THEN [s EXCEPT !.index = i - 1]
              ELSE SwitchedTo(i, s)
     IN  in' = [in EXCEPT ![r] = [t EXCEPT !.pos = p % BUFFER_SIZE]]
  /\ astray' = (astray \/ p \div BUFFER_SIZE >= Len(m_buffers))
  /\ Returned(r, 0, <<>>)
  /\ UNCHANGED <<file, out, closed>>

-----------------------------------------------------------------------------

Output ==
  \/ \E bs \in BoundedSeq(Byte, BUFFER_SIZE) : bs # <<>> /\ Write(bs)
  \/ \E p \in 0..DataLength : Seek(p)
  \/ Flush \/ Close \/ Reset

Input ==
  \E r \in Readers :
    \/ Open(r) \/ ReadPastEnd(r)
    \/ \E s \in Readers : Clone(r, s)
    \/ \E n \in 1..BUFFER_SIZE : Read(r, n)
    \/ \E p \in 0..MaxLength : SeekInput(r, p)

Next == Output \/ Input

Spec == Init /\ [][Next]_vars

-----------------------------------------------------------------------------
(* Properties *)

\* Whatever the boundaries of the buffers, and however the output stream went
\* back and forth before, the streams see one flat file.  That ends when whole
\* buffers are left behind the length by reset() or a seek() to it, which are
\* read as well, or when an input stream seeks to the end of its last buffer,
\* which the next read starts again.
get_file_pointer(r) == IF in[r].index < 0 THEN 0 ELSE in[r].start + in[r].pos
Flat == INSTANCE FlatFile WITH
  data <- [i \in 1..DataLength |-> ByteAt(i - 1)],
  wpos <- IF out.index < 0 THEN 0 ELSE pointer,
  rpos <- [r \in Readers |-> IF in[r] = None THEN None ELSE get_file_pointer(r)]
FlatSpec == Flat!Init /\ [][~astray' => Flat!Next]_(Flat!vars)
=============================================================================
