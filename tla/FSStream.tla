-------------------------------- MODULE FSStream --------------------------------
(***************************************************************************)
(* The streams of SimpleFSDirectory on one file: SimpleFSIndexOutput over  *)
(* BufferedIndexOutput, and SimpleFSIndexInput over BufferedIndexInput     *)
(* (src/store/simple_fs_directory.cpp, buffered_index_output.cpp and       *)
(* buffered_index_input.cpp).  Each has a buffer of its own in front of an *)
(* OutputFile or InputFile, which has the position in the file; the clones *)
(* of an input stream have one InputFile together.  As                     *)
(* src/store/directory.h has it, a file is written once, and read after    *)
(* that.                                                                   *)
(***************************************************************************)
EXTENDS Integers, Sequences, SequencesExt

CONSTANTS
  Byte, Readers, EOF, None,     \* see FlatFile
  BUFFER_SIZE,          \* BufferedIndexOutput::BUFFER_SIZE
  Setups                \* bound: the bytes, the readers, the sizes of their
                        \* buffers and the length of the file, in a behaviour;
                        \* whether it has faults: writes that fail, clones that
                        \* share an InputFile, buffers that are cut short; and
                        \* the directory that opens the input streams

ASSUME ByteAssumption == EOF \notin Seq(Byte) /\ None \notin Nat
ASSUME SizeAssumption == BUFFER_SIZE \in Nat \ {0}
ASSUME SetupsAssumption ==
  \A s \in Setups :
    /\ s.bytes \subseteq Byte /\ s.readers \subseteq Readers
    /\ s.sizes \subseteq Nat \ {0} /\ s.maxLength \in Nat
    /\ s.faults \in BOOLEAN

VARIABLES
  setup,                \* which of them this behaviour has
  disk,                 \* the bytes of the file
  good,                 \* OutputFile: the ofstream is good()
  putAt,                \* OutputFile: where the ofstream writes
  m_buffer,             \* BufferedIndexOutput: the bytes before m_bufferPosition
  m_bufferStart,        \* BufferedIndexOutput: m_bufferStart
  closed,               \* whether the output stream is closed
  in,                   \* the input streams, None before they are opened
  getAt,                \* InputFile: m_position, of each that was opened
  getState,             \* InputFile: the ifstream: good, closed, at eof, or only failed
  asserted,             \* ghost: the assertion of read_internal() held every time
  got                   \* what it asked for and got in a read after its last seek

output == <<setup, disk, good, putAt, m_buffer, m_bufferStart, closed>>
medium == <<setup, closed>>
input == <<in, getAt, getState, asserted, got>>
vars == <<output, input>>

\* A SimpleFSIndexInput: of which InputFile, m_bufferSize, whether there is an
\* m_buffer, the bytes before m_bufferLength in it, m_bufferStart, m_bufferPosition,
\* and whether it is closed, or a read of it does not return.
Stream(f, size, start) ==
  [file |-> f, size |-> size, hasBuffer |-> FALSE, buffer |-> <<>>, start |-> start, pos |-> 0,
   done |-> FALSE]

Streams ==
  [file : Readers, size : Nat \ {0}, hasBuffer : BOOLEAN, buffer : Seq(Byte), start : Nat,
   pos : Nat, done : BOOLEAN]
ASSUME NoneAssumption == None \notin Streams

TypeOK ==
  /\ setup \in Setups
  /\ disk \in Seq(Byte) /\ good \in BOOLEAN /\ putAt \in Nat
  /\ m_buffer \in Seq(Byte) /\ Len(m_buffer) <= BUFFER_SIZE /\ m_bufferStart \in Nat
  /\ closed \in BOOLEAN
  /\ \A r \in Readers : in[r] # None /\ setup.directory = "simple" =>
       /\ in[r] \in Streams
       /\ in[r].pos \in 0..Len(in[r].buffer)
       /\ Len(in[r].buffer) <= in[r].size
  /\ getAt \in [Readers -> Nat]
  /\ getState \in [Readers -> {"good", "closed", "eof", "fail"}]

Init ==
  /\ setup \in Setups
  /\ disk = <<>> /\ good = TRUE /\ putAt = 0
  /\ m_buffer = <<>> /\ m_bufferStart = 0 /\ closed = FALSE
  /\ in = [r \in Readers |-> None]
  /\ getAt = [r \in Readers |-> 0]
  /\ getState = [r \in Readers |-> "good"]
  /\ asserted = TRUE
  /\ got = [r \in Readers |-> [asked |-> 0, bytes |-> <<>>]]

-----------------------------------------------------------------------------
(* BufferedIndexOutput and OutputFile *)

Overwrite(d, p, bs) ==
  [i \in 1..(IF p + Len(bs) > Len(d) THEN p + Len(bs) ELSE Len(d)) |->
     IF i \in (p + 1)..(p + Len(bs)) THEN bs[i - p] ELSE d[i]]

get_file_pointer == m_bufferStart + Len(m_buffer)
DataLength == IF get_file_pointer > Len(disk) THEN get_file_pointer ELSE Len(disk)

\* flush_buffer(bs): the stream writes and flushes; the result of write() is not
\* looked at.  A write that fails may have written some, and is the last one.
FlushBuffer(bs) ==
  \/ /\ good
     /\ disk' = Overwrite(disk, putAt, bs)
     /\ putAt' = putAt + Len(bs)
     /\ UNCHANGED good
  \/ /\ setup.faults /\ good
     /\ \E n \in 0..(Len(bs) - 1) : disk' = Overwrite(disk, putAt, SubSeq(bs, 1, n))
     /\ good' = FALSE
     /\ UNCHANGED putAt
  \/ /\ ~good
     /\ UNCHANGED <<disk, good, putAt>>

\* The bytes bs come to those in the buffer, the last keep of all stay in it.
WriteKeeping(bs, keep) ==
  LET all == m_buffer \o bs
      n == Len(all) - keep
  IN  /\ IF n > 0 THEN FlushBuffer(SubSeq(all, 1, n)) ELSE UNCHANGED <<disk, good, putAt>>
      /\ m_bufferStart' = m_bufferStart + n
      /\ m_buffer' = SubSeq(all, n + 1, Len(all))

\* A full buffer is flushed by the next byte.
write_byte(b) ==
  /\ ~closed /\ get_file_pointer < setup.maxLength
  /\ WriteKeeping(<<b>>, IF Len(m_buffer) = BUFFER_SIZE THEN 1 ELSE Len(m_buffer) + 1)
  /\ UNCHANGED <<medium, input>>

\* Mutant: what is longer than the buffer does not flush the buffer first.
write_bytes_NoFlush(bs) ==
  /\ ~closed /\ get_file_pointer + Len(bs) <= setup.maxLength
  /\ LET all == Len(m_buffer) + Len(bs)
     IN  IF Len(bs) > BUFFER_SIZE
         THEN /\ FlushBuffer(bs)
              /\ m_bufferStart' = m_bufferStart + Len(bs)
              /\ UNCHANGED m_buffer
         ELSE WriteKeeping(bs, IF all < BUFFER_SIZE THEN all ELSE (all - BUFFER_SIZE) % BUFFER_SIZE)
  /\ UNCHANGED <<medium, input>>

\* A buffer that is full is flushed at once; what is longer than the buffer is
\* written without it, after what was there.
write_bytes(bs) ==
  /\ ~closed /\ get_file_pointer + Len(bs) <= setup.maxLength
  /\ LET all == Len(m_buffer) + Len(bs)
     IN  WriteKeeping(bs, IF all < BUFFER_SIZE THEN all
                          ELSE IF all > BUFFER_SIZE /\ Len(bs) > BUFFER_SIZE THEN 0
                          ELSE (all - BUFFER_SIZE) % BUFFER_SIZE)
  /\ UNCHANGED <<medium, input>>

flush ==
  /\ ~closed
  /\ WriteKeeping(<<>>, 0)
  /\ UNCHANGED <<medium, input>>

\* Mutant: only the buffer's position is set.
seek_NoSetPosition(p) ==
  /\ ~closed
  /\ m_buffer' = <<>> /\ m_bufferStart' = p
  /\ FlushBuffer(m_buffer)
  /\ UNCHANGED <<medium, input>>

\* seek(): flush(), and set_position(), which throws if the stream is not good.
seek(p) ==
  /\ ~closed
  /\ m_buffer' = <<>> /\ m_bufferStart' = p
  /\ \/ /\ FlushBuffer(m_buffer) /\ ~good'
     \/ /\ good /\ good' = TRUE
        /\ disk' = Overwrite(disk, putAt, m_buffer)
        /\ putAt' = p
  /\ UNCHANGED <<medium, input>>

\* close(): flush(), and the ofstream is destroyed.
close ==
  /\ ~closed
  /\ WriteKeeping(<<>>, 0)
  /\ closed' = TRUE
  /\ UNCHANGED <<setup, input>>

-----------------------------------------------------------------------------
(* BufferedIndexInput and InputFile *)

\* open_input(), on a file that its output stream has closed.
Open(r) ==
  /\ closed /\ in[r] = None
  /\ \E n \in setup.sizes : in' = [in EXCEPT ![r] = Stream(r, n, 0)]
  /\ UNCHANGED <<output, getAt, getState, asserted, got>>

pointerOf(s) == s.start + s.pos
Usable(r) == in[r] # None /\ ~in[r].done

\* The clone has no buffer, and the InputFile of the original.
Clone(r, s) ==
  /\ setup.faults /\ Usable(r) /\ in[s] = None
  /\ in' = [in EXCEPT ![s] = Stream(in[r].file, in[r].size, pointerOf(in[r]))]
  /\ UNCHANGED <<output, getAt, getState, asserted, got>>

\* set_position() throws if the ifstream is not good; eofbit, which a read that
\* comes short sets with failbit, seekg() clears all the same.
SetPosition(f, p) ==
  /\ getAt' = [getAt EXCEPT ![f] = p]
  /\ getState' = [getState EXCEPT ![f] = IF @ = "good" THEN "good" ELSE "fail"]

Returned(r, n, bytes) == got' = [got EXCEPT ![r] = [asked |-> n, bytes |-> bytes]]

Available(s) == Len(s.buffer) - s.pos

\* read_byte() and read_bytes(), when the buffer has enough.
ReadBuffer(r, n) ==
  /\ Usable(r) /\ n <= Available(in[r])
  /\ Returned(r, n, SubSeq(in[r].buffer, in[r].pos + 1, in[r].pos + n))
  /\ in' = [in EXCEPT ![r].pos = @ + n]
  /\ UNCHANGED <<output, getAt, getState, asserted>>

\* Otherwise what is in the buffer is used up, and the rest is read after
\* refill(), or without the buffer if it is not shorter than the buffer.
Reads(r, n, refill) ==
  /\ Usable(r) /\ n > Available(in[r])
  /\ LET rest == n - Available(in[r])
     IN  IF refill THEN rest < in[r].size \/ n = 1 ELSE rest >= in[r].size

Drained(s) == [s EXCEPT !.pos = Len(s.buffer)]
Had(s) == SubSeq(s.buffer, s.pos + 1, Len(s.buffer))

\* How many bytes of the file the stream then asks for, from its position on.
Asked(s, n, refill) ==
  LET p == pointerOf(Drained(s))
      end == p + s.size
  IN  IF refill THEN (IF end > Len(disk) THEN Len(disk) ELSE end) - p ELSE n - Available(s)

\* The end of the file, as the stream sees it, comes before it asks.
PastEnd(s, n, refill) ==
  IF refill THEN Asked(s, n, refill) <= 0
            ELSE pointerOf(Drained(s)) + Asked(s, n, refill) > Len(disk)

\* Where read_internal() reads: refill() sets the position of a stream that has
\* no buffer first.
From(s, refill) ==
  IF refill /\ ~s.hasBuffer THEN pointerOf(Drained(s)) ELSE getAt[s.file]

\* read_internal() reads where the InputFile is, and moves it on; the comparison
\* with the stream's own position is an assertion only.
ReadInternal(s, n, refill) ==
  /\ ~PastEnd(s, n, refill)
  /\ asserted' = (asserted /\ From(s, refill) = pointerOf(Drained(s)))

\* Mutant: what the refilled buffer has is returned, were it too short.
Answer_Short(had, rest, bytes) ==
  had \o SubSeq(bytes, 1, IF Len(bytes) < rest THEN Len(bytes) ELSE rest)

\* What is not enough is thrown away.
Answer(had, rest, bytes) ==
  IF Len(bytes) < rest THEN EOF ELSE had \o SubSeq(bytes, 1, rest)

Refill(r, n) ==
  /\ Reads(r, n, TRUE)
  /\ LET s == in[r]
         rest == n - Available(s)
         to == From(s, TRUE) + Asked(s, n, TRUE)
         bytes == SubSeq(disk, From(s, TRUE) + 1, to)
     IN  /\ ReadInternal(s, n, TRUE) /\ getState[s.file] = "good"
         /\ to <= Len(disk)
         /\ getAt' = [getAt EXCEPT ![s.file] = to]
         /\ in' = [in EXCEPT ![r] =
              [s EXCEPT !.hasBuffer = TRUE, !.buffer = bytes, !.start = pointerOf(Drained(s)),
                        !.pos = IF Len(bytes) < rest THEN 0 ELSE rest]]
         /\ Returned(r, n, Answer(Had(s), rest, bytes))
  /\ UNCHANGED <<output, getState>>

ReadDirect(r, n) ==
  /\ Reads(r, n, FALSE)
  /\ LET s == in[r]
         to == From(s, FALSE) + Asked(s, n, FALSE)
     IN  /\ ReadInternal(s, n, FALSE) /\ getState[s.file] = "good"
         /\ to <= Len(disk)
         /\ getAt' = [getAt EXCEPT ![s.file] = to]
         /\ in' = [in EXCEPT ![r] =
              [s EXCEPT !.start = pointerOf(s) + n, !.pos = 0, !.buffer = <<>>]]
         /\ Returned(r, n, Had(s) \o SubSeq(disk, From(s, FALSE) + 1, to))
  /\ UNCHANGED <<output, getState>>

ReadPastEnd(r, n, refill) ==
  /\ Reads(r, n, refill) /\ PastEnd(in[r], n, refill)
  /\ in' = [in EXCEPT ![r] = Drained(@)]
  /\ Returned(r, n, EOF)
  /\ UNCHANGED <<output, getAt, getState, asserted>>

\* The InputFile, moved or closed by another stream, ends too early: what it has
\* left goes into the buffer, whose bookkeeping stays, and an exception is thrown.
ReadShort(r, n, refill) ==
  /\ Reads(r, n, refill)
  /\ LET s == Drained(in[r])
         from == From(in[r], refill)
         isOpen == getState[s.file] = "good"
         left == IF isOpen THEN SubSeq(disk, from + 1, Len(disk)) ELSE <<>>
     IN  /\ ReadInternal(in[r], n, refill)
         /\ IF isOpen THEN from + Asked(in[r], n, refill) > Len(disk)
            ELSE getState[s.file] = "closed" /\ (refill => s.hasBuffer)
         /\ in' = [in EXCEPT ![r] =
              IF refill
              THEN [s EXCEPT !.hasBuffer = TRUE,
                             !.buffer = [i \in DOMAIN s.buffer |->
                                IF i \in DOMAIN left THEN left[i] ELSE s.buffer[i]]]
              ELSE s]
         /\ getAt' = [getAt EXCEPT ![s.file] = from + Len(left)]
         /\ getState' = [getState EXCEPT ![s.file] = "eof"]
  /\ Returned(r, n, EOF)
  /\ UNCHANGED output

\* After that, the InputFile throws at its eof, or in set_position() before a new
\* buffer is filled ...
ReadFails(r, n, refill) ==
  /\ Reads(r, n, refill) /\ ~PastEnd(in[r], n, refill)
  /\ LET s == Drained(in[r])
     IN  \/ /\ refill /\ ~s.hasBuffer
            /\ getState[s.file] # "good"
            /\ SetPosition(s.file, pointerOf(s))
            /\ in' = [in EXCEPT ![r] = [s EXCEPT !.hasBuffer = TRUE]]
            /\ UNCHANGED asserted
         \/ /\ ~refill \/ s.hasBuffer
            /\ getState[s.file] = "eof"
            /\ in' = [in EXCEPT ![r] = s]
            /\ asserted' = (asserted /\ getAt[s.file] = pointerOf(s))
            /\ UNCHANGED <<getAt, getState>>
  /\ Returned(r, n, EOF)
  /\ UNCHANGED output

\* ... and with the eof cleared, but not the failure, it reads no byte for ever.
ReadHangs(r, n, refill) ==
  /\ Reads(r, n, refill) /\ ~PastEnd(in[r], n, refill)
  /\ LET s == Drained(in[r])
     IN  /\ ~refill \/ s.hasBuffer
         /\ getState[s.file] = "fail"
         /\ in' = [in EXCEPT ![r] = [s EXCEPT !.done = TRUE]]
         /\ asserted' = (asserted /\ getAt[s.file] = pointerOf(s))
  /\ UNCHANGED <<output, getAt, getState, got>>

InBuffer(s, p) == p >= s.start /\ p < s.start + Len(s.buffer)

\* Mutant: a position in the buffer is taken for one in the file.
SeekInput_NoMove(r, p) ==
  /\ Usable(r)
  /\ LET s == in[r]
     IN  in' = [in EXCEPT ![r] =
           IF InBuffer(s, p) THEN [s EXCEPT !.pos = p - s.start]
           ELSE [s EXCEPT !.start = p, !.pos = 0, !.buffer = <<>>]]
  /\ Returned(r, 0, <<>>)
  /\ UNCHANGED <<output, getAt, getState, asserted>>

\* Inside of the buffer, the InputFile stays where it is.
SeekInput(r, p) ==
  /\ Usable(r)
  /\ LET s == in[r]
     IN  IF InBuffer(s, p)
         THEN /\ in' = [in EXCEPT ![r].pos = p - s.start]
              /\ Returned(r, 0, <<>>)
              /\ UNCHANGED <<getAt, getState>>
         ELSE /\ in' = [in EXCEPT ![r] = [s EXCEPT !.start = p, !.pos = 0, !.buffer = <<>>]]
              /\ Returned(r, 0, IF getState[s.file] = "good" THEN <<>> ELSE EOF)
              /\ SetPosition(s.file, p)
  /\ UNCHANGED <<output, asserted>>

\* Mutant: all of the bytes are kept.
set_buffer_size_KeepsAll(r, n) ==
  /\ Usable(r) /\ n # in[r].size
  /\ setup.faults \/ Available(in[r]) <= n
  /\ LET s == in[r]
     IN  in' = [in EXCEPT ![r] =
           IF s.hasBuffer
           THEN [s EXCEPT !.size = n, !.start = pointerOf(s), !.pos = 0, !.buffer = Had(s)]
           ELSE [s EXCEPT !.size = n]]
  /\ UNCHANGED <<output, getAt, getState, asserted, got>>

\* The bytes behind the position that fit are kept; the InputFile stays.
set_buffer_size(r, n) ==
  /\ Usable(r) /\ n # in[r].size
  /\ setup.faults \/ Available(in[r]) <= n
  /\ LET s == in[r]
         keep == IF Available(s) > n THEN n ELSE Available(s)
     IN  in' = [in EXCEPT ![r] =
           IF s.hasBuffer
           THEN [s EXCEPT !.size = n, !.start = pointerOf(s), !.pos = 0,
                          !.buffer = SubSeq(Had(s), 1, keep)]
           ELSE [s EXCEPT !.size = n]]
  /\ UNCHANGED <<output, getAt, getState, asserted, got>>

\* A clone leaves the InputFile open.
CloseInput(r) ==
  /\ Usable(r)
  /\ in' = [in EXCEPT ![r].done = TRUE]
  /\ getState' = [getState EXCEPT ![r] =
       IF in[r].file = r /\ @ = "good" THEN "closed" ELSE @]
  /\ UNCHANGED <<output, getAt, asserted, got>>

-----------------------------------------------------------------------------

Output ==
  \/ \E b \in setup.bytes : write_byte(b)
  \/ \E bs \in BoundedSeq(setup.bytes, BUFFER_SIZE + 1) : bs # <<>> /\ write_bytes(bs)
  \/ \E p \in 0..DataLength : seek(p)
  \/ flush \/ close

Input ==
  \E r \in setup.readers :
    \/ Open(r) \/ CloseInput(r)
    \/ \E s \in setup.readers : Clone(r, s)
    \/ \E n \in 1..setup.maxLength : ReadBuffer(r, n) \/ Refill(r, n) \/ ReadDirect(r, n)
    \/ \E n \in 1..setup.maxLength, refill \in BOOLEAN :
         \/ ReadPastEnd(r, n, refill) \/ ReadShort(r, n, refill)
         \/ ReadFails(r, n, refill) \/ ReadHangs(r, n, refill)
    \/ \E p \in 0..setup.maxLength : SeekInput(r, p)
    \/ \E n \in setup.sizes : set_buffer_size(r, n)

Next ==
  \/ Output
  \/ setup.directory = "simple" /\ Input

Spec == Init /\ [][Next]_vars

-----------------------------------------------------------------------------
(* Properties *)

\* The streams see one flat file, whatever the sizes of reads, writes and
\* buffers, if no write fails, no buffer is cut short, and no stream is cloned
\* that shares its position with the clone.
Flat == INSTANCE FlatFile WITH
  data <- Overwrite(disk, m_bufferStart, m_buffer),
  wpos <- get_file_pointer,
  rpos <- [r \in Readers |-> IF in[r] = None THEN None ELSE pointerOf(in[r])]
FlatSpec == Flat!Init /\ [][setup.faults \/ Flat!Next]_(Flat!vars)

\* BOOST_ASSERT(position == m_file->get_position()) in read_internal(), the only
\* thing that looks after the position now that the lines below it, which would
\* set it, are comments.  A clone, or a smaller buffer, moves one of the two.
PositionAsserted == setup.faults \/ asserted

\* A read that does not throw returns as many bytes as it was asked for, also
\* where clones have moved the InputFile or the buffer was cut short.
AnswersInFull ==
  \A r \in Readers : got[r].bytes # EOF => Len(got[r].bytes) = got[r].asked

\* The ofstream writes where the buffer begins, as long as no write has failed:
\* neither seeks nor writes past the buffer make the two positions differ.
GoodIsInStep == good => putAt = m_bufferStart
=============================================================================
