------------------------------ MODULE Streams_proofs ------------------------------
(***************************************************************************)
(* What holds of the streams of the three directories for any bytes,       *)
(* readers and sizes of buffers and files.                                 *)
(*                                                                         *)
(* SimpleFSDirectory and MMapDirectory.  The output stream adds bytes      *)
(* behind those it has, or goes to a position; the bytes in its buffer and *)
(* those in the file are one overwriting of the file (OverwriteTwice), so  *)
(* neither when the buffer is flushed nor how much of it shows.  Written   *)
(* and Reading hold with faults and without; InStep, which is about        *)
(* streams that were not cloned, only without, and it is what the          *)
(* refinement of FlatFile rests on.                                        *)
(*                                                                         *)
(* RAMDirectory.  A position is one place of one buffer (DivIs).           *)
(* RamWritten says that no byte of the file is junk, RamReading and        *)
(* RamFollowing where the input streams are in the buffers, the latter     *)
(* until one of them goes astray.                                          *)
(***************************************************************************)
EXTENDS Streams, SequenceTheorems, TLAPS

-----------------------------------------------------------------------------
(* Writing over what a file has *)

\* What a write makes of a file that it leaves no gap in.
LEMMA OverwriteIs ==
  ASSUME NEW d \in Seq(Byte), NEW p \in Nat, p <= Len(d), NEW bs \in Seq(Byte)
  PROVE  /\ Overwrite(d, p, bs) \in Seq(Byte)
         /\ Len(Overwrite(d, p, bs)) = IF p + Len(bs) > Len(d) THEN p + Len(bs) ELSE Len(d)
         /\ \A i \in 1..Len(Overwrite(d, p, bs)) :
              Overwrite(d, p, bs)[i] = IF i \in (p + 1)..(p + Len(bs)) THEN bs[i - p] ELSE d[i]
<1> DEFINE n == IF p + Len(bs) > Len(d) THEN p + Len(bs) ELSE Len(d)
           At(i) == IF i \in (p + 1)..(p + Len(bs)) THEN bs[i - p] ELSE d[i]
           o == [i \in 1..n |-> At(i)]
<1>1. n \in Nat
  OBVIOUS
<1>2. ASSUME NEW i \in 1..n PROVE At(i) \in Byte
  <2>1. CASE i \in (p + 1)..(p + Len(bs))
    <3>1. i - p \in 1..Len(bs)
      BY <2>1
    <3> QED
      BY <2>1, <3>1
  <2>2. CASE i \notin (p + 1)..(p + Len(bs))
    <3>1. i \in 1..Len(d)
      BY <2>2
    <3> QED
      BY <2>2, <3>1
  <2> QED
    BY <2>1, <2>2
<1>3. Overwrite(d, p, bs) = o
  BY DEF Overwrite
<1> HIDE DEF n, At
<1>4. o \in Seq(Byte) /\ Len(o) = n /\ \A i \in 1..n : o[i] = At(i)
  <2>1. o \in [1..n -> Byte]
    BY <1>2
  <2> QED
    BY <1>1, <2>1, SeqDef
<1> QED
  BY <1>3, <1>4 DEF n, At

LEMMA OverwriteNothing ==
  ASSUME NEW d \in Seq(Byte), NEW p \in Nat, p <= Len(d) PROVE Overwrite(d, p, <<>>) = d
<1> DEFINE e == <<>>
           o == Overwrite(d, p, e)
<1>1. e \in Seq(Byte) /\ Len(e) = 0 /\ Len(d) \in Nat
  OBVIOUS
<1> HIDE DEF e
<1>2. /\ o \in Seq(Byte) /\ Len(o) = IF p + Len(e) > Len(d) THEN p + Len(e) ELSE Len(d)
      /\ \A i \in 1..Len(o) : o[i] = IF i \in (p + 1)..(p + Len(e)) THEN e[i - p] ELSE d[i]
  BY <1>1, OverwriteIs
<1> HIDE DEF o
<1>3. Len(o) = Len(d)
  BY <1>1, <1>2
<1>4. ASSUME NEW i \in 1..Len(o) PROVE o[i] = d[i]
  <2>1. i \notin (p + 1)..(p + Len(e))
    BY <1>1
  <2> QED
    BY <1>2, <2>1
<1>5. o = d
  BY <1>2, <1>3, <1>4, SeqEqual
<1> QED
  BY <1>5 DEF o, e

\* A part of a sequence, and when a sequence is one.
LEMMA SliceIs ==
  ASSUME NEW d \in Seq(Byte), NEW p \in Nat, NEW n \in Nat, p + n <= Len(d)
  PROVE  /\ SubSeq(d, p + 1, p + n) \in Seq(Byte) /\ Len(SubSeq(d, p + 1, p + n)) = n
         /\ \A i \in 1..n : SubSeq(d, p + 1, p + n)[i] = d[p + i]
OBVIOUS

LEMMA TwoLengths ==
  ASSUME NEW a \in Nat, NEW b \in Nat, NEW d \in Nat, NEW e \in Nat, NEW p \in Nat,
         e = IF p + a > d THEN p + a ELSE d
  PROVE  (IF p + a + b > e THEN p + a + b ELSE e) = (IF p + (a + b) > d THEN p + (a + b) ELSE d)
OBVIOUS

\* One write goes on where the other ended.
LEMMA OverwriteTwice ==
  ASSUME NEW d \in Seq(Byte), NEW p \in Nat, p <= Len(d), NEW x \in Seq(Byte), NEW y \in Seq(Byte)
  PROVE  Overwrite(Overwrite(d, p, x), p + Len(x), y) = Overwrite(d, p, x \o y)
<1> DEFINE e == Overwrite(d, p, x)
           f == Overwrite(e, p + Len(x), y)
           z == x \o y
           g == Overwrite(d, p, z)
<1>1. Len(x) \in Nat /\ Len(y) \in Nat /\ Len(d) \in Nat
  OBVIOUS
<1>2. /\ e \in Seq(Byte) /\ Len(e) = IF p + Len(x) > Len(d) THEN p + Len(x) ELSE Len(d)
      /\ \A i \in 1..Len(e) : e[i] = IF i \in (p + 1)..(p + Len(x)) THEN x[i - p] ELSE d[i]
  BY OverwriteIs
<1> HIDE DEF e
<1>3. /\ f \in Seq(Byte) /\ Len(f) = IF p + Len(x) + Len(y) > Len(e) THEN p + Len(x) + Len(y) ELSE Len(e)
      /\ \A i \in 1..Len(f) :
           f[i] = IF i \in (p + Len(x) + 1)..(p + Len(x) + Len(y)) THEN y[i - (p + Len(x))] ELSE e[i]
  <2>1. p + Len(x) \in Nat /\ p + Len(x) <= Len(e)
    BY <1>1, <1>2
  <2> QED
    BY <1>2, <2>1, OverwriteIs
<1>4. /\ z \in Seq(Byte) /\ Len(z) = Len(x) + Len(y)
      /\ \A i \in 1..Len(z) : z[i] = IF i <= Len(x) THEN x[i] ELSE y[i - Len(x)]
  BY <1>1
<1>z. z \in Seq(Byte)
  BY <1>4
<1> HIDE DEF z
<1>5. /\ g \in Seq(Byte) /\ Len(g) = IF p + Len(z) > Len(d) THEN p + Len(z) ELSE Len(d)
      /\ \A i \in 1..Len(g) : g[i] = IF i \in (p + 1)..(p + Len(z)) THEN z[i - p] ELSE d[i]
  BY <1>z, OverwriteIs
<1> HIDE DEF f, g
<1>6. Len(f) = Len(g)
  <2>1. Len(f) = IF p + Len(x) + Len(y) > Len(e) THEN p + Len(x) + Len(y) ELSE Len(e)
    BY <1>3
  <2>2. Len(g) = IF p + Len(z) > Len(d) THEN p + Len(z) ELSE Len(d)
    BY <1>5
  <2>3. Len(e) = IF p + Len(x) > Len(d) THEN p + Len(x) ELSE Len(d)
    BY <1>2
  <2>4. Len(z) = Len(x) + Len(y)
    BY <1>4
  <2>5. Len(e) \in Nat
    BY <1>2
  <2>6. (IF p + Len(x) + Len(y) > Len(e) THEN p + Len(x) + Len(y) ELSE Len(e)) =
          (IF p + (Len(x) + Len(y)) > Len(d) THEN p + (Len(x) + Len(y)) ELSE Len(d))
    BY <1>1, <2>3, <2>5, TwoLengths
  <2> QED
    BY <2>1, <2>2, <2>4, <2>6
<1>7. ASSUME NEW i \in 1..Len(f) PROVE f[i] = g[i]
  <2>1. CASE i \in (p + Len(x) + 1)..(p + Len(x) + Len(y))
    <3>1. f[i] = y[i - (p + Len(x))]
      BY <1>3, <2>1
    <3>2. i - p \in 1..Len(z) /\ ~(i - p <= Len(x)) /\ i \in (p + 1)..(p + Len(z))
          /\ i - p - Len(x) = i - (p + Len(x))
      BY <1>1, <1>4, <2>1
    <3> QED
      BY <1>4, <1>5, <1>6, <3>1, <3>2
  <2>2. CASE i \in (p + 1)..(p + Len(x))
    <3>1. i \in 1..Len(e) /\ i \notin (p + Len(x) + 1)..(p + Len(x) + Len(y))
          /\ i - p \in 1..Len(z) /\ i - p <= Len(x)
          /\ i \in (p + 1)..(p + Len(z))
      BY <1>1, <1>2, <1>4, <2>2
    <3>2. f[i] = x[i - p]
      BY <1>2, <1>3, <2>2, <3>1
    <3>3. g[i] = x[i - p]
      BY <1>4, <1>5, <1>6, <3>1
    <3> QED
      BY <3>2, <3>3
  <2>3. CASE i \notin (p + 1)..(p + Len(x) + Len(y))
    <3>1. i \in 1..Len(e) /\ i \notin (p + Len(x) + 1)..(p + Len(x) + Len(y)) /\ i \notin (p + 1)..(p + Len(x))
          /\ i \notin (p + 1)..(p + Len(z))
      BY <1>1, <1>2, <1>3, <1>4, <2>3
    <3>2. f[i] = d[i]
      BY <1>2, <1>3, <3>1
    <3>3. g[i] = d[i]
      BY <1>5, <1>6, <3>1
    <3> QED
      BY <3>2, <3>3
  <2> QED
    BY <1>1, <2>1, <2>2, <2>3
<1>8. f = g
  BY <1>3, <1>5, <1>6, <1>7, SeqEqual
<1> QED
  BY <1>8 DEF e, f, g, z

-----------------------------------------------------------------------------
(* The output stream *)

\* What an output stream and its file are, between two steps.
Written ==
  /\ setup \in Setups /\ closed \in BOOLEAN
  /\ disk \in Seq(Byte) /\ good \in BOOLEAN /\ putAt \in Nat /\ putAt <= Len(disk)
  /\ m_buffer \in Seq(Byte) /\ Len(m_buffer) <= BUFFER_SIZE /\ m_bufferStart \in Nat
  /\ closed => m_buffer = <<>>
  /\ good => putAt = m_bufferStart
  /\ ~setup.faults => good

\* The ofstream takes bytes, takes some and fails, or takes none.
LEMMA FlushBufferOnly ==
  ASSUME Written, NEW bs \in Seq(Byte), FlushBuffer(bs)
  PROVE  /\ disk' \in Seq(Byte) /\ good' \in BOOLEAN /\ putAt' \in Nat /\ putAt' <= Len(disk')
         /\ good' => good /\ putAt' = putAt + Len(bs) /\ disk' = Overwrite(disk, putAt, bs)
         /\ ~setup.faults => good'
<1>0. Len(disk) \in Nat /\ Len(bs) \in Nat /\ disk \in Seq(Byte) /\ putAt \in Nat /\ putAt <= Len(disk)
  BY DEF Written
<1>1. CASE good /\ disk' = Overwrite(disk, putAt, bs) /\ putAt' = putAt + Len(bs) /\ UNCHANGED good
  <2>1. disk' \in Seq(Byte) /\ Len(disk') = IF putAt + Len(bs) > Len(disk) THEN putAt + Len(bs) ELSE Len(disk)
    BY <1>0, <1>1, OverwriteIs
  <2> QED
    BY <1>0, <1>1, <2>1
<1>2. CASE /\ setup.faults /\ good /\ good' = FALSE /\ UNCHANGED putAt
           /\ \E n \in 0..(Len(bs) - 1) : disk' = Overwrite(disk, putAt, SubSeq(bs, 1, n))
  <2>1. PICK n \in 0..(Len(bs) - 1) : disk' = Overwrite(disk, putAt, SubSeq(bs, 1, n))
    BY <1>2
  <2> DEFINE part == SubSeq(bs, 1, n)
  <2>2. part \in Seq(Byte) /\ Len(part) \in Nat
    BY <1>0
  <2> HIDE DEF part
  <2>3. /\ disk' \in Seq(Byte)
        /\ Len(disk') = IF putAt + Len(part) > Len(disk) THEN putAt + Len(part) ELSE Len(disk)
    BY <1>0, <2>1, <2>2, OverwriteIs DEF part
  <2>4. putAt <= Len(disk')
    BY <1>0, <2>2, <2>3
  <2> QED
    BY <1>0, <1>2, <2>3, <2>4
<1>3. CASE ~good /\ UNCHANGED <<disk, good, putAt>>
  BY <1>0, <1>3 DEF Written
<1> QED
  BY <1>1, <1>2, <1>3 DEF FlushBuffer

\* A write puts its bytes behind those before it, in the file or in the buffer.
LEMMA KeepingWrites ==
  ASSUME Written, NEW bs \in Seq(Byte), NEW keep \in Nat, keep <= Len(m_buffer) + Len(bs),
         keep <= BUFFER_SIZE, WriteKeeping(bs, keep), UNCHANGED setup, closed' \in BOOLEAN,
         closed' => keep = 0
  PROVE  /\ Written'
         /\ get_file_pointer' = get_file_pointer + Len(bs)
         /\ good' => Overwrite(disk, m_bufferStart, m_buffer \o bs) = Overwrite(disk', m_bufferStart', m_buffer')
<1> DEFINE all == m_buffer \o bs
           n == Len(all) - keep
           put == SubSeq(all, 1, n)
           rest == SubSeq(all, n + 1, Len(all))
<1>0. Len(m_buffer) \in Nat /\ Len(bs) \in Nat /\ all \in Seq(Byte) /\ Len(all) = Len(m_buffer) + Len(bs)
  BY DEF Written
<1>1. /\ IF n > 0 THEN FlushBuffer(put) ELSE UNCHANGED <<disk, good, putAt>>
      /\ m_bufferStart' = m_bufferStart + n /\ m_buffer' = rest
  BY DEF WriteKeeping
<1> HIDE DEF all
<1>2. n \in Nat /\ n <= Len(all) /\ Len(all) \in Nat
  BY <1>0
<1>3. put \in Seq(Byte) /\ Len(put) = n /\ rest \in Seq(Byte) /\ Len(rest) = keep
  BY <1>0, <1>2
<1>4. all = put \o rest
  <2> HIDE DEF n
  <2>a. 1 \in 1..(Len(all) + 1) /\ n \in (1 - 1)..Len(all) /\ Len(all) \in n..Len(all)
    BY <1>2
  <2>1. SubSeq(all, 1, n) \o SubSeq(all, n + 1, Len(all)) = SubSeq(all, 1, Len(all))
    BY <1>0, <2>a, ConcatAdjacentSubSeq
  <2> QED
    BY <1>0, <2>1, SubSeqFull
<1>5. n = 0 => put = <<>> /\ all = rest
  <2> HIDE DEF n, put, rest
  <2>1. n = 0 => put = <<>>
    BY <1>3
  <2>2. <<>> \o rest = rest
    BY <1>3, ConcatEmptySeq
  <2> QED
    BY <1>4, <2>1, <2>2
<1> HIDE DEF put, rest
<1>6. disk' \in Seq(Byte) /\ good' \in BOOLEAN /\ putAt' \in Nat /\ putAt' <= Len(disk') /\ (~setup.faults => good')
      /\ (good' => good /\ putAt' = putAt + n /\ disk' = Overwrite(disk, putAt, put))
  <2>1. CASE n > 0
    BY <1>1, <1>3, <2>1, FlushBufferOnly
  <2>2. CASE ~(n > 0)
    <3>1. n = 0 /\ putAt = putAt + n
      BY <1>2, <2>2 DEF Written
    <3> QED
      BY <1>1, <1>5, <2>2, <3>1, OverwriteNothing DEF Written
  <2> QED
    BY <2>1, <2>2
<1>7. m_bufferStart' \in Nat /\ (good' => putAt' = m_bufferStart')
  BY <1>1, <1>2, <1>6 DEF Written
<1>8. m_buffer' \in Seq(Byte) /\ Len(m_buffer') = keep /\ (closed' => m_buffer' = <<>>)
  BY <1>1, <1>3
<1>9. Written'
  BY <1>6, <1>7, <1>8 DEF Written
<1>10. get_file_pointer' = get_file_pointer + Len(bs)
  BY <1>0, <1>1, <1>8 DEF get_file_pointer, Written
<1>11. ASSUME good' PROVE Overwrite(disk, m_bufferStart, all) = Overwrite(disk', m_bufferStart', m_buffer')
  <2>a. disk \in Seq(Byte) /\ putAt \in Nat /\ putAt <= Len(disk)
    BY DEF Written
  <2>b. put \in Seq(Byte) /\ rest \in Seq(Byte)
    BY <1>3
  <2>1. Overwrite(Overwrite(disk, putAt, put), putAt + Len(put), rest) = Overwrite(disk, putAt, put \o rest)
    BY <2>a, <2>b, OverwriteTwice, Zenon
  <2>2. putAt = m_bufferStart /\ disk' = Overwrite(disk, putAt, put) /\ m_bufferStart' = putAt + Len(put)
    BY <1>1, <1>3, <1>6, <1>11 DEF Written
  <2> QED
    <3>1. Overwrite(disk', m_bufferStart', m_buffer') =
            Overwrite(Overwrite(disk, putAt, put), putAt + Len(put), rest)
      BY <1>1, <2>2
    <3>2. Overwrite(disk, m_bufferStart, all) = Overwrite(disk, putAt, put \o rest)
      BY <1>4, <2>2
    <3> QED
      BY <2>1, <3>1, <3>2
<1> QED
  BY <1>9, <1>10, <1>11 DEF all

\* Each write that there is, with what it keeps in the buffer.
LEMMA WriteKeeps ==
  ASSUME NEW size \in Nat \ {0}, NEW all \in Nat, all >= size
  PROVE  (all - size) % size \in 0..size /\ (all - size) % size <= all
<1>1. all - size \in Int /\ size \in Int /\ size > 0
  OBVIOUS
<1> DEFINE m == (all - size) % size
<1>2. m \in 0..(size - 1)
  BY <1>1
<1> HIDE DEF m
<1>3. m \in 0..size /\ m <= all
  BY <1>2
<1> QED
  BY <1>3 DEF m

\* What the bytes and the buffer sizes of a behaviour are.
LEMMA SetupIs ==
  ASSUME setup \in Setups
  PROVE  /\ setup.bytes \subseteq Byte /\ setup.readers \subseteq Readers
         /\ setup.sizes \subseteq Nat \ {0} /\ setup.maxLength \in Nat
         /\ BUFFER_SIZE \in Nat /\ BUFFER_SIZE > 0
BY SetupsAssumption, SizeAssumption

\* What the file has, once the buffer is in it.
Data == Overwrite(disk, m_bufferStart, m_buffer)

LEMMA DataIs ==
  ASSUME Written, good PROVE Data \in Seq(Byte) /\ Len(Data) = DataLength
<1>1. disk \in Seq(Byte) /\ m_bufferStart \in Nat /\ m_bufferStart <= Len(disk) /\ m_buffer \in Seq(Byte)
  BY DEF Written
<1> QED
  BY <1>1, OverwriteIs DEF Data, DataLength, get_file_pointer

\* A step of the output stream that adds the bytes bs behind all that came before.
Adds(bs) ==
  /\ get_file_pointer' = get_file_pointer + Len(bs)
  /\ good' => good /\ Data' = Overwrite(disk, m_bufferStart, m_buffer \o bs)
  /\ bs = <<>> \/ UNCHANGED closed

\* One that goes to a position in the file.
Goes ==
  /\ get_file_pointer' \in 0..DataLength
  /\ good' => good /\ Data' = Data
  /\ UNCHANGED closed

LEMMA WritesAdd ==
  ASSUME Written, ~closed, NEW bs \in Seq(Byte), NEW keep \in Nat, keep <= Len(m_buffer) + Len(bs),
         keep <= BUFFER_SIZE, WriteKeeping(bs, keep), UNCHANGED setup, closed' \in BOOLEAN,
         closed' => keep = 0, bs = <<>> \/ UNCHANGED closed
  PROVE  Written' /\ Adds(bs)
<1>1. /\ Written'
      /\ get_file_pointer' = get_file_pointer + Len(bs)
      /\ good' => Overwrite(disk, m_bufferStart, m_buffer \o bs) = Overwrite(disk', m_bufferStart', m_buffer')
  BY KeepingWrites
<1>2. good' => good
  <2> DEFINE all == m_buffer \o bs
             put == SubSeq(all, 1, Len(all) - keep)
  <2>1. all \in Seq(Byte) /\ Len(all) \in Nat /\ Len(all) = Len(m_buffer) + Len(bs)
    BY DEF Written
  <2>2. IF Len(all) - keep > 0 THEN FlushBuffer(put) ELSE UNCHANGED <<disk, good, putAt>>
    BY DEF WriteKeeping
  <2> HIDE DEF all
  <2>3. put \in Seq(Byte)
    BY <2>1
  <2> HIDE DEF put
  <2> QED
    BY <2>2, <2>3, FlushBufferOnly
<1> QED
  BY <1>1, <1>2 DEF Adds, Data

LEMMA write_byteAdds ==
  ASSUME Written, NEW b \in setup.bytes, write_byte(b)
  PROVE  Written' /\ \E bs \in Seq(Byte) : Adds(bs)
<1> DEFINE bs == <<b>>
           keep == IF Len(m_buffer) = BUFFER_SIZE THEN 1 ELSE Len(m_buffer) + 1
<1>1. b \in Byte /\ Len(m_buffer) \in Nat /\ Len(m_buffer) <= BUFFER_SIZE /\ BUFFER_SIZE \in Nat /\ BUFFER_SIZE > 0
  BY SetupIs DEF Written
<1>2. bs \in Seq(Byte) /\ Len(bs) = 1
  BY <1>1
<1>3. keep \in Nat /\ keep <= Len(m_buffer) + Len(bs) /\ keep <= BUFFER_SIZE
  BY <1>1, <1>2
<1>4. WriteKeeping(bs, keep) /\ UNCHANGED <<setup, closed>> /\ ~closed
  BY DEF write_byte, medium
<1> HIDE DEF bs, keep
<1>c. closed' \in BOOLEAN /\ ~closed'
  BY <1>4 DEF Written
<1>5. Written' /\ Adds(bs)
  BY <1>2, <1>3, <1>4, <1>c, WritesAdd
<1> QED
  BY <1>2, <1>5

LEMMA write_bytesAdds ==
  ASSUME Written, NEW bs \in BoundedSeq(setup.bytes, BUFFER_SIZE + 1), write_bytes(bs)
  PROVE  Written' /\ \E cs \in Seq(Byte) : Adds(cs)
<1> DEFINE all == Len(m_buffer) + Len(bs)
           rem == (all - BUFFER_SIZE) % BUFFER_SIZE
           keep == IF all < BUFFER_SIZE THEN all
                   ELSE IF all > BUFFER_SIZE /\ Len(bs) > BUFFER_SIZE THEN 0
                   ELSE rem
<1>1. setup.bytes \subseteq Byte /\ Len(m_buffer) \in Nat /\ BUFFER_SIZE \in Nat \ {0}
  BY SetupIs DEF Written
<1>2. bs \in Seq(Byte)
  <2>1. PICK m \in 0..(BUFFER_SIZE + 1) : bs \in [1..m -> setup.bytes]
    BY DEF BoundedSeq, SeqOf
  <2>2. bs \in [1..m -> Byte] /\ m \in Nat
    BY <1>1, <2>1
  <2> QED
    BY <2>2, SeqDef
<1>3. Len(bs) \in Nat /\ all \in Nat
  BY <1>1, <1>2
<1>4. WriteKeeping(bs, keep) /\ UNCHANGED <<setup, closed>> /\ ~closed
  BY DEF write_bytes, medium
<1>5. all >= BUFFER_SIZE => rem \in 0..BUFFER_SIZE /\ rem <= all
  <2> HIDE DEF all
  <2> QED
    BY <1>1, <1>3, WriteKeeps
<1>6. keep \in Nat /\ keep <= all /\ keep <= BUFFER_SIZE
  <2> HIDE DEF all, rem
  <2> QED
    BY <1>1, <1>3, <1>5
<1> HIDE DEF keep, rem
<1>7. Written' /\ Adds(bs)
  BY <1>2, <1>4, <1>6, WritesAdd DEF Written
<1> QED
  BY <1>2, <1>7

LEMMA FlushAdds ==
  ASSUME Written, ~closed, WriteKeeping(<<>>, 0), UNCHANGED setup, closed' \in BOOLEAN
  PROVE  Written' /\ \E bs \in Seq(Byte) : Adds(bs)
<1> DEFINE bs == <<>>
           keep == 0
<1>1. bs \in Seq(Byte) /\ Len(bs) = 0 /\ BUFFER_SIZE \in Nat /\ Len(m_buffer) \in Nat
  BY SetupIs DEF Written
<1>2. WriteKeeping(bs, keep) /\ bs = <<>>
  OBVIOUS
<1>k. keep \in Nat /\ keep <= Len(m_buffer) + Len(bs) /\ keep <= BUFFER_SIZE /\ (closed' => keep = 0)
  BY <1>1
<1> HIDE DEF bs, keep
<1>3. Written' /\ Adds(bs)
  BY <1>1, <1>2, <1>k, WritesAdd
<1> QED
  BY <1>1, <1>3

LEMMA seekGoes ==
  ASSUME Written, NEW p \in 0..DataLength, seek(p)
  PROVE  Written' /\ Goes
<1>1. /\ disk \in Seq(Byte) /\ Len(disk) \in Nat /\ putAt \in Nat /\ m_buffer \in Seq(Byte) /\ Len(m_buffer) \in Nat
      /\ BUFFER_SIZE \in Nat /\ m_bufferStart \in Nat
  BY SetupIs DEF Written
<1>2. DataLength \in Nat /\ p \in Nat /\ p <= DataLength
  BY <1>1 DEF DataLength, get_file_pointer
<1>3. ~closed /\ UNCHANGED <<setup, closed>> /\ m_bufferStart' = p /\ m_buffer' = <<>>
  BY DEF seek, medium
<1>4. m_buffer' \in Seq(Byte) /\ Len(m_buffer') = 0 /\ get_file_pointer' = p
  BY <1>2, <1>3 DEF get_file_pointer
<1>5. CASE FlushBuffer(m_buffer) /\ ~good'
  <2>1. disk' \in Seq(Byte) /\ good' \in BOOLEAN /\ putAt' \in Nat /\ putAt' <= Len(disk') /\ (~setup.faults => good')
    BY <1>1, <1>5, FlushBufferOnly
  <2> QED
    BY <1>1, <1>2, <1>3, <1>4, <1>5, <2>1 DEF Written, Goes
<1>6. CASE good /\ good' = TRUE /\ disk' = Overwrite(disk, putAt, m_buffer) /\ putAt' = p
  <2>1. putAt = m_bufferStart /\ putAt <= Len(disk)
    BY <1>6 DEF Written
  <2>2. disk' \in Seq(Byte) /\ Len(disk') = DataLength
    BY <1>1, <1>6, <2>1, OverwriteIs DEF DataLength, get_file_pointer
  <2>3. Data' = disk'
    BY <1>2, <1>3, <2>2, OverwriteNothing DEF Data
  <2>4. disk' = Data
    BY <1>6, <2>1 DEF Data
  <2> QED
    BY <1>1, <1>2, <1>3, <1>4, <1>6, <2>2, <2>3, <2>4 DEF Written, Goes
<1> QED
  BY <1>5, <1>6 DEF seek

\* Every step of the output stream adds bytes or goes to a position.
LEMMA OutputSteps ==
  ASSUME Written, Output
  PROVE  /\ Written' /\ ~closed /\ UNCHANGED <<setup, in, getAt, getState, asserted, got>>
         /\ Goes \/ \E bs \in Seq(Byte) : Adds(bs)
<1>1. ASSUME NEW b \in setup.bytes, write_byte(b)
      PROVE  /\ Written' /\ \E bs \in Seq(Byte) : Adds(bs)
             /\ ~closed /\ UNCHANGED <<setup, input>>
  BY <1>1, write_byteAdds DEF write_byte, medium
<1>2. ASSUME NEW bs \in BoundedSeq(setup.bytes, BUFFER_SIZE + 1), write_bytes(bs)
      PROVE  /\ Written' /\ \E cs \in Seq(Byte) : Adds(cs)
             /\ ~closed /\ UNCHANGED <<setup, input>>
  BY <1>2, write_bytesAdds DEF write_bytes, medium
<1>3. ASSUME NEW p \in 0..DataLength, seek(p)
      PROVE  Written' /\ Goes /\ ~closed /\ UNCHANGED <<setup, input>>
  BY <1>3, seekGoes DEF seek, medium
<1>4. ASSUME flush
      PROVE  /\ Written' /\ \E bs \in Seq(Byte) : Adds(bs)
             /\ ~closed /\ UNCHANGED <<setup, input>>
  <2>1. ~closed /\ WriteKeeping(<<>>, 0) /\ UNCHANGED <<setup, closed, input>>
    BY <1>4 DEF flush, medium
  <2> QED
    BY <2>1, FlushAdds DEF Written
<1>5. ASSUME close
      PROVE  /\ Written' /\ \E bs \in Seq(Byte) : Adds(bs)
             /\ ~closed /\ UNCHANGED <<setup, input>>
  <2>1. ~closed /\ WriteKeeping(<<>>, 0) /\ closed' = TRUE /\ UNCHANGED <<setup, input>>
    BY <1>5 DEF close
  <2> QED
    BY <2>1, FlushAdds
<1> QED
  BY <1>1, <1>2, <1>3, <1>4, <1>5 DEF Output, input

-----------------------------------------------------------------------------
(* The input streams *)

\* The buffer of a stream, and the position in it.
Buffered(s) ==
  /\ s \in Streams
  /\ s.pos <= Len(s.buffer) /\ Len(s.buffer) <= s.size
  /\ s.hasBuffer \/ s.buffer = <<>>

LEMMA BufferedIsSome == ASSUME NEW s, Buffered(s) PROVE s # None
BY NoneAssumption DEF Buffered

\* What the updates of a stream make of it.
LEMMA FieldsAre ==
  ASSUME NEW s, Buffered(s)
  PROVE  /\ s.file \in Readers /\ s.size \in Nat \ {0} /\ s.hasBuffer \in BOOLEAN /\ s.buffer \in Seq(Byte)
         /\ s.start \in Nat /\ s.pos \in Nat /\ s.done \in BOOLEAN /\ Len(s.buffer) \in Nat
         /\ s.pos <= Len(s.buffer) /\ Len(s.buffer) <= s.size
         /\ s.hasBuffer \/ Len(s.buffer) = 0
<1>1. s \in Streams /\ s.pos <= Len(s.buffer) /\ Len(s.buffer) <= s.size /\ (s.hasBuffer \/ s.buffer = <<>>)
  BY DEF Buffered
<1>2. /\ s.file \in Readers /\ s.size \in Nat \ {0} /\ s.hasBuffer \in BOOLEAN /\ s.buffer \in Seq(Byte)
      /\ s.start \in Nat /\ s.pos \in Nat /\ s.done \in BOOLEAN
  BY <1>1 DEF Streams
<1>3. Len(s.buffer) \in Nat /\ (s.buffer = <<>> => Len(s.buffer) = 0)
  BY <1>2
<1> QED
  BY <1>1, <1>2, <1>3

LEMMA StreamIsNew ==
  ASSUME NEW f \in Readers, NEW size \in Nat \ {0}, NEW start \in Nat
  PROVE  /\ Buffered(Stream(f, size, start))
         /\ Stream(f, size, start).file = f /\ Stream(f, size, start).start = start
         /\ Stream(f, size, start).pos = 0 /\ Stream(f, size, start).buffer = <<>>
         /\ Stream(f, size, start).done = FALSE
<1> DEFINE t == Stream(f, size, start)
<1>1. /\ t.file = f /\ t.start = start /\ t.pos = 0 /\ t.buffer = <<>> /\ t.size = size /\ t.done = FALSE
  BY DEF Stream
<1>2. t \in Streams
  <2>1. <<>> \in Seq(Byte)
    OBVIOUS
  <2> QED
    BY <2>1 DEF Stream, Streams
<1>3. Len(t.buffer) = 0
  BY <1>1
<1> HIDE DEF t
<1>4. Buffered(t)
  BY <1>1, <1>2, <1>3 DEF Buffered
<1> QED
  BY <1>1, <1>4 DEF t

LEMMA MovedIs ==
  ASSUME NEW s, Buffered(s), NEW p \in 0..Len(s.buffer)
  PROVE  /\ Buffered([s EXCEPT !.pos = p])
         /\ [s EXCEPT !.pos = p].file = s.file /\ [s EXCEPT !.pos = p].start = s.start
         /\ [s EXCEPT !.pos = p].pos = p /\ [s EXCEPT !.pos = p].buffer = s.buffer
         /\ [s EXCEPT !.pos = p].hasBuffer = s.hasBuffer
         /\ [s EXCEPT !.pos = p].size = s.size /\ [s EXCEPT !.pos = p].done = s.done
<1>1. s \in Streams /\ Len(s.buffer) \in Nat
  BY DEF Buffered, Streams
<1> QED
  BY <1>1 DEF Buffered, Streams

LEMMA EmptiedIs ==
  ASSUME NEW s, Buffered(s), NEW p \in Nat
  PROVE  LET t == [s EXCEPT !.start = p, !.pos = 0, !.buffer = <<>>]
         IN  Buffered(t) /\ t.file = s.file /\ t.start = p /\ t.pos = 0 /\ t.buffer = <<>> /\ t.done = s.done
<1> DEFINE t == [s EXCEPT !.start = p, !.pos = 0, !.buffer = <<>>]
<1>1. s \in Streams /\ <<>> \in Seq(Byte)
  BY DEF Buffered
<1>2. t \in Streams /\ t.file = s.file /\ t.start = p /\ t.pos = 0 /\ t.buffer = <<>> /\ t.done = s.done
  BY <1>1 DEF Streams
<1>3. Len(t.buffer) = 0
  BY <1>2
<1> HIDE DEF t
<1>4. Buffered(t)
  BY <1>2, <1>3 DEF Buffered, Streams
<1> QED
  BY <1>2, <1>4 DEF t

Fill(s, b, p, i) == [s EXCEPT !.hasBuffer = TRUE, !.buffer = b, !.start = p, !.pos = i]

LEMMA FilledIs ==
  ASSUME NEW s, Buffered(s), NEW b \in Seq(Byte), NEW p \in Nat, NEW i \in 0..Len(b), Len(b) <= s.size
  PROVE  /\ Buffered(Fill(s, b, p, i)) /\ Fill(s, b, p, i).file = s.file /\ Fill(s, b, p, i).start = p
         /\ Fill(s, b, p, i).pos = i /\ Fill(s, b, p, i).buffer = b /\ Fill(s, b, p, i).done = s.done
<1> DEFINE t == Fill(s, b, p, i)
<1>1. s \in Streams /\ i \in Nat /\ i <= Len(b)
  BY DEF Buffered
<1>2. t \in Streams /\ t.file = s.file /\ t.start = p /\ t.pos = i /\ t.buffer = b
      /\ t.done = s.done /\ t.size = s.size
      /\ t.hasBuffer
  BY <1>1 DEF Streams, Fill
<1> HIDE DEF t
<1>3. Buffered(t)
  BY <1>1, <1>2 DEF Buffered
<1> QED
  BY <1>2, <1>3 DEF t

Cut(s, n, p, b) == [s EXCEPT !.size = n, !.start = p, !.pos = 0, !.buffer = b]

LEMMA CutIs ==
  ASSUME NEW s, Buffered(s), NEW n \in Nat \ {0}, NEW p \in Nat, NEW b \in Seq(Byte), Len(b) <= n, s.hasBuffer
  PROVE  /\ Buffered(Cut(s, n, p, b)) /\ Cut(s, n, p, b).file = s.file /\ Cut(s, n, p, b).start = p
         /\ Cut(s, n, p, b).pos = 0 /\ Cut(s, n, p, b).buffer = b /\ Cut(s, n, p, b).done = s.done
<1> DEFINE t == Cut(s, n, p, b)
<1>1. s \in Streams /\ Len(b) \in Nat
  BY DEF Buffered
<1>2. t \in Streams /\ t.file = s.file /\ t.start = p /\ t.pos = 0 /\ t.buffer = b /\ t.done = s.done /\ t.size = n
      /\ t.hasBuffer
  BY <1>1 DEF Streams, Cut
<1> HIDE DEF t
<1>3. Buffered(t)
  BY <1>1, <1>2 DEF Buffered
<1> QED
  BY <1>2, <1>3 DEF t

LEMMA SizedIs ==
  ASSUME NEW s, Buffered(s), NEW n \in Nat \ {0}, Len(s.buffer) <= n
  PROVE  LET t == [s EXCEPT !.size = n]
         IN  Buffered(t) /\ t.file = s.file /\ t.start = s.start /\ t.pos = s.pos /\ t.buffer = s.buffer
             /\ t.done = s.done
BY DEF Buffered, Streams

LEMMA DoneIs ==
  ASSUME NEW s, Buffered(s)
  PROVE  LET t == [s EXCEPT !.done = TRUE]
         IN  Buffered(t) /\ t.file = s.file /\ t.start = s.start /\ t.pos = s.pos /\ t.buffer = s.buffer
             /\ t.done = TRUE
BY DEF Buffered, Streams

LEMMA ShortIs ==
  ASSUME NEW s, Buffered(s), NEW b \in Seq(Byte), Len(b) = Len(s.buffer)
  PROVE  /\ Buffered([s EXCEPT !.hasBuffer = TRUE, !.buffer = b])
         /\ Buffered([s EXCEPT !.hasBuffer = TRUE])
BY DEF Buffered, Streams

\* The positions of a stream, and what is left in its buffer.
LEMMA PositionsAre ==
  ASSUME NEW s, Buffered(s)
  PROVE  /\ Available(s) \in Nat /\ Available(s) = Len(s.buffer) - s.pos
         /\ pointerOf(s) \in Nat /\ pointerOf(s) = s.start + s.pos
         /\ pointerOf(Drained(s)) \in Nat /\ pointerOf(Drained(s)) = s.start + Len(s.buffer)
         /\ pointerOf(Drained(s)) = pointerOf(s) + Available(s)
         /\ Had(s) \in Seq(Byte) /\ Len(Had(s)) = Available(s)
         /\ \A i \in 1..Available(s) : Had(s)[i] = s.buffer[s.pos + i]
<1>1. s.buffer \in Seq(Byte) /\ s.start \in Nat /\ s.pos \in Nat /\ Len(s.buffer) \in Nat /\ s.pos <= Len(s.buffer)
  BY FieldsAre
<1>2. Available(s) \in Nat /\ Available(s) = Len(s.buffer) - s.pos
  BY <1>1 DEF Available
<1>3. pointerOf(s) \in Nat /\ pointerOf(s) = s.start + s.pos
  BY <1>1 DEF pointerOf
<1>4. Drained(s).start = s.start /\ Drained(s).pos = Len(s.buffer)
  BY MovedIs, <1>1 DEF Drained
<1>5. pointerOf(Drained(s)) \in Nat /\ pointerOf(Drained(s)) = s.start + Len(s.buffer)
  BY <1>1, <1>4 DEF pointerOf
<1>6. Had(s) \in Seq(Byte) /\ Len(Had(s)) = Available(s) /\ \A i \in 1..Available(s) : Had(s)[i] = s.buffer[s.pos + i]
  <2> DEFINE b == s.buffer
             k == s.pos
  <2>1. b \in Seq(Byte) /\ k \in Nat /\ Len(b) \in Nat /\ k <= Len(b)
    BY <1>1
  <2>2. Had(s) = SubSeq(b, k + 1, Len(b)) /\ Available(s) = Len(b) - k
    BY DEF Had, Available
  <2> HIDE DEF b, k
  <2>3. Had(s) \in Seq(Byte) /\ Len(Had(s)) = Len(b) - k /\ \A i \in 1..(Len(b) - k) : Had(s)[i] = b[k + i]
    BY <2>1, <2>2
  <2> QED
    BY <2>2, <2>3 DEF b, k
<1> QED
  BY <1>1, <1>2, <1>3, <1>5, <1>6

LEMMA DrainedIs ==
  ASSUME NEW s, Buffered(s)
  PROVE  /\ Buffered(Drained(s)) /\ Drained(s).file = s.file /\ Drained(s).start = s.start
         /\ Drained(s).pos = Len(s.buffer) /\ Drained(s).buffer = s.buffer /\ Drained(s).done = s.done
         /\ Drained(s).hasBuffer = s.hasBuffer
BY FieldsAre, MovedIs DEF Drained

\* How many bytes a stream asks the file for.
LEMMA AskedIs ==
  ASSUME NEW s, Buffered(s), disk \in Seq(Byte), NEW n \in Nat, n > Available(s), NEW refill \in BOOLEAN
  PROVE  LET p == pointerOf(Drained(s))
             k == Asked(s, n, refill)
         IN  /\ k \in Int
             /\ refill => k <= s.size /\ p + k <= Len(disk) /\ (k = s.size \/ p + k = Len(disk))
             /\ ~refill => k = n - Available(s) /\ k > 0
             /\ ~PastEnd(s, n, refill) => k > 0 /\ p + k <= Len(disk)
             /\ PastEnd(s, n, refill) => p + (n - Available(s)) > Len(disk)
<1> DEFINE p == pointerOf(Drained(s))
           k == Asked(s, n, refill)
           a == Available(s)
<1>1. p \in Nat /\ a \in Nat /\ s.size \in Nat /\ s.size > 0 /\ Len(disk) \in Nat /\ n > a
  BY PositionsAre, FieldsAre
<1>2. k = IF refill THEN (IF p + s.size > Len(disk) THEN Len(disk) ELSE p + s.size) - p ELSE n - a
  BY DEF Asked
<1>3. PastEnd(s, n, refill) = IF refill THEN k <= 0 ELSE p + k > Len(disk)
  BY DEF PastEnd
<1> DEFINE past == PastEnd(s, n, refill)
           size == s.size
<1> HIDE DEF p, k, a, past, size
<1>4. /\ k \in Int
      /\ refill => k <= size /\ p + k <= Len(disk) /\ (k = size \/ p + k = Len(disk))
      /\ ~refill => k = n - a /\ k > 0
      /\ ~past => k > 0 /\ p + k <= Len(disk)
      /\ past => p + (n - a) > Len(disk)
  <2>1. CASE refill
    <3>1. k = (IF p + size > Len(disk) THEN Len(disk) ELSE p + size) - p
      BY <1>2, <2>1 DEF size
    <3>2. past <=> k <= 0
      BY <1>3, <2>1 DEF past
    <3>3. size \in Nat /\ size > 0
      BY <1>1 DEF size
    <3> QED
      BY <1>1, <2>1, <3>1, <3>2, <3>3
  <2>2. CASE ~refill
    <3>1. k = n - a
      BY <1>2, <2>2
    <3>2. past <=> p + k > Len(disk)
      BY <1>3, <2>2 DEF past
    <3> QED
      BY <1>1, <2>2, <3>1, <3>2
  <2> QED
    BY <2>1, <2>2
<1> QED
  BY <1>4 DEF p, k, a, past, size

\* What the input streams are, between two steps.
Opened(r) ==
  /\ closed
  /\ setup.directory = "simple" => Buffered(in[r])
  /\ setup.directory = "mmap" => in[r] \in MapStreams /\ in[r].length <= Len(disk)
Answers == [asked : Nat, bytes : Seq(Byte) \cup {EOF}]
Reading ==
  /\ DOMAIN in = Readers
  /\ \A r \in Readers : in[r] # None => Opened(r)
  /\ getAt \in [Readers -> Nat]
  /\ getState \in [Readers -> {"good", "closed", "eof", "fail"}]
  /\ asserted \in BOOLEAN
  /\ got \in [Readers -> Answers]
  /\ AnswersInFull

\* A step that gives one answer, of a length it was asked for.
LEMMA OneAnswer ==
  ASSUME Reading, NEW r \in Readers, NEW n \in Nat, NEW bytes \in Seq(Byte) \cup {EOF},
         bytes # EOF => Len(bytes) = n, Returned(r, n, bytes)
  PROVE  got' \in [Readers -> Answers] /\ AnswersInFull'
<1>1. got \in [Readers -> Answers] /\ got' = [got EXCEPT ![r] = [asked |-> n, bytes |-> bytes]]
  BY DEF Reading, Returned
<1>2. [asked |-> n, bytes |-> bytes] \in Answers
  BY DEF Answers
<1>3. got' \in [Readers -> Answers]
  BY <1>1, <1>2
<1>4. ASSUME NEW q \in Readers, got'[q].bytes # EOF PROVE Len(got'[q].bytes) = got'[q].asked
  <2>1. CASE q = r
    <3>1. got'[q] = [asked |-> n, bytes |-> bytes]
      BY <1>1, <2>1
    <3>2. got'[q].asked = n /\ got'[q].bytes = bytes
      BY <3>1
    <3> QED
      BY <1>4, <3>2
  <2>2. CASE q # r
    <3>1. got'[q] = got[q]
      BY <1>1, <2>2
    <3> QED
      BY <1>4, <3>1 DEF Reading, AnswersInFull
  <2> QED
    BY <2>1, <2>2
<1> QED
  BY <1>3, <1>4 DEF AnswersInFull

\* A step of one stream.
LEMMA OneStream ==
  ASSUME Reading, setup.directory = "simple", closed, UNCHANGED <<setup, closed>>,
         NEW r \in Readers, NEW s, Buffered(s), in' = [in EXCEPT ![r] = s],
         getAt' \in [Readers -> Nat], getState' \in [Readers -> {"good", "closed", "eof", "fail"}],
         asserted' \in BOOLEAN, got' \in [Readers -> Answers], AnswersInFull'
  PROVE  Reading'
<1>1. DOMAIN in = Readers /\ DOMAIN in' = Readers
  BY DEF Reading
<1>2. ASSUME NEW q \in Readers, in'[q] # None PROVE Opened(q)'
  <2>1. Buffered(in'[q])
    <3>1. CASE q = r
      <4>1. in'[q] = s
        BY <1>1, <3>1
      <4> QED
        BY <4>1
    <3>2. CASE q # r
      <4>1. in'[q] = in[q]
        BY <1>1, <3>2
      <4> QED
        BY <1>2, <4>1 DEF Reading, Opened
    <3> QED
      BY <3>1, <3>2
  <2>2. closed' /\ setup'.directory = "simple"
    OBVIOUS
  <2> QED
    BY <2>1, <2>2 DEF Opened, Buffered
<1> QED
  BY <1>1, <1>2 DEF Reading

\* What every step of a stream of SimpleFSDirectory starts from.
LEMMA UsableIs ==
  ASSUME Written, Reading, setup.directory = "simple", NEW r \in setup.readers, Usable(r)
  PROVE  r \in Readers /\ closed /\ Buffered(in[r]) /\ in[r].file \in Readers /\ disk \in Seq(Byte)
<1>1. r \in Readers /\ in[r] # None
  BY SetupIs DEF Written, Usable
<1>2. closed /\ Buffered(in[r])
  BY <1>1 DEF Reading, Opened
<1> QED
  BY <1>1, <1>2, FieldsAre DEF Written

LEMMA OpenReads ==
  ASSUME Written, Reading, setup.directory = "simple", NEW r \in setup.readers, Open(r) PROVE Reading'
<1>1. PICK n \in setup.sizes : in' = [in EXCEPT ![r] = Stream(r, n, 0)]
  BY DEF Open
<1>2. r \in Readers /\ n \in Nat \ {0} /\ closed
  BY SetupIs DEF Written, Open
<1>3. Buffered(Stream(r, n, 0))
  BY <1>2, StreamIsNew
<1>4. UNCHANGED <<setup, closed, getAt, getState, asserted, got>>
  BY DEF Open, output
<1>5. AnswersInFull'
  BY <1>4 DEF Reading, AnswersInFull
<1> DEFINE s == Stream(r, n, 0)
<1> HIDE DEF s
<1> QED
  BY <1>1, <1>2, <1>3, <1>4, <1>5, OneStream DEF Reading, s

LEMMA CloneReads ==
  ASSUME Written, Reading, setup.directory = "simple", NEW r \in setup.readers, NEW q \in setup.readers, Clone(r, q)
  PROVE  Reading'
<1> DEFINE s == Stream(in[r].file, in[r].size, pointerOf(in[r]))
<1>1. in' = [in EXCEPT ![q] = s] /\ UNCHANGED <<setup, closed, getAt, getState, asserted, got>>
  BY DEF Clone, output
<1>2. q \in Readers /\ closed /\ Buffered(in[r])
  BY SetupIs, UsableIs DEF Clone, Written
<1>3. Buffered(s)
  BY <1>2, FieldsAre, PositionsAre, StreamIsNew
<1>4. AnswersInFull'
  BY <1>1 DEF Reading, AnswersInFull
<1> HIDE DEF s
<1> QED
  BY <1>1, <1>2, <1>3, <1>4, OneStream DEF Reading

LEMMA ReadBufferReads ==
  ASSUME Written, Reading, setup.directory = "simple", NEW r \in setup.readers, NEW n \in Nat, ReadBuffer(r, n)
  PROVE  Reading'
<1> DEFINE i == in[r].pos + n
           s == [in[r] EXCEPT !.pos = i]
           b == in[r].buffer
           k == in[r].pos
           bytes == SubSeq(b, k + 1, k + n)
<1>1. r \in Readers /\ closed /\ Buffered(in[r])
  BY UsableIs DEF ReadBuffer
<1>2. b \in Seq(Byte) /\ Len(b) \in Nat /\ k \in Nat /\ n <= Len(b) - k
  BY <1>1, FieldsAre, PositionsAre DEF ReadBuffer
<1>3. Buffered(s)
  <2>1. i \in 0..Len(in[r].buffer)
    BY <1>2
  <2> HIDE DEF i
  <2> QED
    BY <1>1, <2>1, MovedIs
<1>4. /\ in' = [in EXCEPT ![r] = s] /\ UNCHANGED <<setup, closed, getAt, getState, asserted>>
      /\ Returned(r, n, bytes)
  BY DEF ReadBuffer, output
<1> HIDE DEF s, b, k
<1>5. bytes \in Seq(Byte) /\ Len(bytes) = n
  BY <1>2
<1> HIDE DEF bytes
<1>6. got' \in [Readers -> Answers] /\ AnswersInFull'
  BY <1>1, <1>4, <1>5, OneAnswer
<1> QED
  BY <1>1, <1>3, <1>4, <1>6, OneStream DEF Reading

\* Where a read that is not past the end goes on in the file.
LEMMA FromIs ==
  ASSUME Reading, NEW s, Buffered(s), NEW refill \in BOOLEAN
  PROVE  From(s, refill) \in Nat
<1>1. s.file \in Readers /\ pointerOf(Drained(s)) \in Nat
  BY FieldsAre, PositionsAre
<1>2. getAt[s.file] \in Nat
  BY <1>1 DEF Reading
<1> QED
  BY <1>1, <1>2 DEF From

LEMMA RefillReads ==
  ASSUME Written, Reading, setup.directory = "simple", NEW r \in setup.readers, NEW n \in Nat, Refill(r, n)
  PROVE  Reading'
<1> DEFINE s == in[r]
           rest == n - Available(s)
           from == From(s, TRUE)
           k == Asked(s, n, TRUE)
           to == from + k
           bytes == SubSeq(disk, from + 1, to)
           p == pointerOf(Drained(s))
           i == IF Len(bytes) < rest THEN 0 ELSE rest
           t == Fill(s, bytes, p, i)
           had == Had(s)
           answer == Answer(had, rest, bytes)
<1>1. r \in Readers /\ closed /\ Buffered(s) /\ s.file \in Readers /\ disk \in Seq(Byte) /\ n > Available(s)
  BY UsableIs DEF Refill, Reads
<1>2. /\ ReadInternal(s, n, TRUE) /\ to <= Len(disk) /\ getAt' = [getAt EXCEPT ![s.file] = to]
      /\ in' = [in EXCEPT ![r] = t] /\ Returned(r, n, answer) /\ UNCHANGED <<setup, closed, getState>>
  BY DEF Refill, Fill, output
<1>3. Available(s) \in Nat /\ p \in Nat /\ had \in Seq(Byte) /\ Len(had) = Available(s)
  BY <1>1, PositionsAre
<1>4. from \in Nat /\ k \in Int /\ k > 0 /\ k <= s.size
  BY <1>1, <1>2, AskedIs, FromIs DEF ReadInternal
<1>5. asserted' \in BOOLEAN
  BY <1>2 DEF ReadInternal, Reading
<1> HIDE DEF s, from, k, p
<1>6. rest \in Nat /\ to \in Nat /\ Len(disk) \in Nat /\ rest > 0
  BY <1>1, <1>3, <1>4
<1>7. bytes \in Seq(Byte) /\ Len(bytes) = k
  BY <1>1, <1>2, <1>4, <1>6
<1> HIDE DEF bytes, rest, had
<1>8. i \in 0..Len(bytes) /\ Len(bytes) <= s.size
  BY <1>4, <1>6, <1>7
<1> HIDE DEF i
<1>9. Buffered(t)
  BY <1>1, <1>3, <1>7, <1>8, FilledIs
<1>10. answer \in Seq(Byte) \cup {EOF} /\ (answer # EOF => Len(answer) = n)
  <2>1. CASE Len(bytes) < rest
    BY <2>1 DEF answer, Answer
  <2>2. CASE ~(Len(bytes) < rest)
    <3> DEFINE part == SubSeq(bytes, 1, rest)
    <3>1. part \in Seq(Byte) /\ Len(part) = rest
      BY <1>4, <1>6, <1>7, <2>2
    <3>2. answer = had \o part
      BY <2>2 DEF answer, Answer
    <3> HIDE DEF part
    <3>3. answer \in Seq(Byte) /\ Len(answer) = Available(s) + rest
      BY <1>3, <3>1, <3>2, ConcatProperties
    <3>4. Available(s) + rest = n
      BY <1>3 DEF rest
    <3> QED
      BY <3>3, <3>4
  <2> QED
    BY <2>1, <2>2
<1> HIDE DEF answer, t, to
<1>11. got' \in [Readers -> Answers] /\ AnswersInFull'
  BY <1>1, <1>2, <1>10, OneAnswer
<1>12. getAt' \in [Readers -> Nat]
  BY <1>1, <1>2, <1>6 DEF Reading
<1> QED
  BY <1>1, <1>2, <1>5, <1>9, <1>11, <1>12, OneStream DEF Reading

LEMMA ReadDirectReads ==
  ASSUME Written, Reading, setup.directory = "simple", NEW r \in setup.readers, NEW n \in Nat, ReadDirect(r, n)
  PROVE  Reading'
<1> DEFINE s == in[r]
           from == From(s, FALSE)
           k == Asked(s, n, FALSE)
           to == from + k
           part == SubSeq(disk, from + 1, to)
           had == Had(s)
           p == pointerOf(s) + n
           t == [s EXCEPT !.start = p, !.pos = 0, !.buffer = <<>>]
           answer == had \o part
<1>1. r \in Readers /\ closed /\ Buffered(s) /\ s.file \in Readers /\ disk \in Seq(Byte) /\ n > Available(s)
  BY UsableIs DEF ReadDirect, Reads
<1>2. /\ ReadInternal(s, n, FALSE) /\ to <= Len(disk) /\ getAt' = [getAt EXCEPT ![s.file] = to]
      /\ in' = [in EXCEPT ![r] = t] /\ Returned(r, n, answer) /\ UNCHANGED <<setup, closed, getState>>
  BY DEF ReadDirect, output
<1>3. Available(s) \in Nat /\ p \in Nat /\ had \in Seq(Byte) /\ Len(had) = Available(s)
  BY <1>1, PositionsAre
<1>4. from \in Nat /\ k \in Int /\ k > 0 /\ k = n - Available(s)
  BY <1>1, <1>2, AskedIs, FromIs DEF ReadInternal
<1>5. asserted' \in BOOLEAN
  BY <1>2 DEF ReadInternal, Reading
<1>6. Buffered(t)
  BY <1>1, <1>3, EmptiedIs
<1> HIDE DEF s, from, k, p, t
<1>7. to \in Nat /\ Len(disk) \in Nat
  BY <1>1, <1>4
<1>8. part \in Seq(Byte) /\ Len(part) = k
  <2>1. disk \in Seq(Byte) /\ k \in Nat /\ from + k <= Len(disk)
    BY <1>1, <1>2, <1>4
  <2> QED
    BY <1>4, <2>1, SliceIs
<1> HIDE DEF part, had
<1>9. answer \in Seq(Byte) \cup {EOF} /\ Len(answer) = n
  <2>1. answer \in Seq(Byte) /\ Len(answer) = Len(had) + Len(part)
    BY <1>3, <1>8, ConcatProperties
  <2> QED
    BY <1>3, <1>4, <1>8, <2>1
<1> HIDE DEF answer, to
<1>10. got' \in [Readers -> Answers] /\ AnswersInFull'
  BY <1>1, <1>2, <1>9, OneAnswer
<1>11. getAt' \in [Readers -> Nat]
  BY <1>1, <1>2, <1>7 DEF Reading
<1> QED
  BY <1>1, <1>2, <1>5, <1>6, <1>10, <1>11, OneStream DEF Reading

LEMMA ReadPastEndReads ==
  ASSUME Written, Reading, setup.directory = "simple", NEW r \in setup.readers, NEW n \in Nat, NEW refill \in BOOLEAN,
         ReadPastEnd(r, n, refill)
  PROVE  Reading'
<1>1. r \in Readers /\ closed /\ Buffered(in[r])
  BY UsableIs DEF ReadPastEnd, Reads
<1>2. /\ in' = [in EXCEPT ![r] = Drained(in[r])] /\ Returned(r, n, EOF)
      /\ UNCHANGED <<setup, closed, getAt, getState, asserted>>
  BY DEF ReadPastEnd, output
<1>3. Buffered(Drained(in[r]))
  BY <1>1, DrainedIs
<1>4. got' \in [Readers -> Answers] /\ AnswersInFull'
  BY <1>1, <1>2, OneAnswer
<1> QED
  BY <1>1, <1>2, <1>3, <1>4, OneStream DEF Reading

LEMMA ReadShortReads ==
  ASSUME Written, Reading, setup.directory = "simple", NEW r \in setup.readers, NEW n \in Nat, NEW refill \in BOOLEAN,
         ReadShort(r, n, refill)
  PROVE  Reading'
<1> DEFINE s == Drained(in[r])
           from == From(in[r], refill)
           left == IF getState[s.file] = "good" THEN SubSeq(disk, from + 1, Len(disk)) ELSE <<>>
           b == [i \in DOMAIN s.buffer |-> IF i \in DOMAIN left THEN left[i] ELSE s.buffer[i]]
           u == [s EXCEPT !.hasBuffer = TRUE, !.buffer = b]
           t == IF refill THEN u ELSE s
<1>1. r \in Readers /\ closed /\ Buffered(in[r]) /\ disk \in Seq(Byte)
  BY UsableIs DEF ReadShort, Reads
<1>2. /\ ReadInternal(in[r], n, refill) /\ getAt' = [getAt EXCEPT ![s.file] = from + Len(left)]
      /\ getState' = [getState EXCEPT ![s.file] = "eof"]
      /\ in' = [in EXCEPT ![r] = t] /\ Returned(r, n, EOF) /\ UNCHANGED <<setup, closed>>
  BY DEF ReadShort, output
<1>3. Buffered(s) /\ s.buffer \in Seq(Byte) /\ s.file \in Readers
  BY <1>1, DrainedIs, FieldsAre
<1>4. from \in Nat /\ Len(disk) \in Nat
  BY <1>1, FromIs
<1>5. asserted' \in BOOLEAN
  BY <1>2 DEF ReadInternal, Reading
<1> HIDE DEF s, from
<1>6. left \in Seq(Byte) /\ Len(left) \in Nat
  <2>1. CASE getState[s.file] = "good"
    <3>1. left = SubSeq(disk, from + 1, Len(disk))
      BY <2>1
    <3> QED
      BY <1>1, <1>4, <3>1
  <2>2. CASE getState[s.file] # "good"
    BY <2>2
  <2> QED
    BY <2>1, <2>2
<1> HIDE DEF left
<1>7. b \in Seq(Byte) /\ Len(b) = Len(s.buffer)
  <2> DEFINE c == s.buffer
             m == Len(c)
  <2>1. c \in Seq(Byte) /\ DOMAIN c = 1..m /\ m \in Nat /\ DOMAIN left = 1..Len(left)
    BY <1>3, <1>6, LenProperties
  <2>2. ASSUME NEW i \in 1..m PROVE (IF i \in DOMAIN left THEN left[i] ELSE c[i]) \in Byte
    <3>1. c[i] \in Byte
      BY <2>1
    <3>2. i \in DOMAIN left => left[i] \in Byte
      BY <1>6, <2>1
    <3> QED
      BY <3>1, <3>2
  <2>3. b = [i \in 1..m |-> IF i \in DOMAIN left THEN left[i] ELSE c[i]]
    BY <2>1
  <2> HIDE DEF b, c, m
  <2>4. b \in [1..m -> Byte]
    BY <2>2, <2>3
  <2>5. b \in Seq(Byte) /\ Len(b) = m
    BY <2>1, <2>4, SeqDef
  <2> QED
    BY <2>5 DEF c, m
<1> HIDE DEF b
<1>8. Buffered(u)
  BY <1>3, <1>7, ShortIs
<1> HIDE DEF u
<1>9. Buffered(t)
  BY <1>3, <1>8
<1> HIDE DEF t
<1>10. got' \in [Readers -> Answers] /\ AnswersInFull'
  BY <1>1, <1>2, OneAnswer
<1>11. getAt' \in [Readers -> Nat] /\ getState' \in [Readers -> {"good", "closed", "eof", "fail"}]
  BY <1>1, <1>2, <1>3, <1>4, <1>6 DEF Reading
<1> QED
  BY <1>1, <1>2, <1>5, <1>9, <1>10, <1>11, OneStream DEF Reading

LEMMA SetPositionIs ==
  ASSUME Reading, NEW f \in Readers, NEW p \in Nat, SetPosition(f, p)
  PROVE  getAt' \in [Readers -> Nat] /\ getState' \in [Readers -> {"good", "closed", "eof", "fail"}]
<1>1. getAt \in [Readers -> Nat] /\ getState \in [Readers -> {"good", "closed", "eof", "fail"}]
  BY DEF Reading
<1>2. getAt' = [getAt EXCEPT ![f] = p]
  BY DEF SetPosition
<1>3. getState' = [getState EXCEPT ![f] = IF getState[f] = "good" THEN "good" ELSE "fail"]
  BY DEF SetPosition
<1>4. (IF getState[f] = "good" THEN "good" ELSE "fail") \in {"good", "closed", "eof", "fail"}
  OBVIOUS
<1>5. getState' \in [Readers -> {"good", "closed", "eof", "fail"}]
  BY <1>1, <1>3, <1>4
<1> QED
  BY <1>1, <1>2, <1>5

LEMMA ReadFailsReads ==
  ASSUME Written, Reading, setup.directory = "simple", NEW r \in setup.readers, NEW n \in Nat, NEW refill \in BOOLEAN,
         ReadFails(r, n, refill)
  PROVE  Reading'
<1> DEFINE s == Drained(in[r])
<1>1. r \in Readers /\ closed /\ Buffered(in[r])
  BY UsableIs DEF ReadFails, Reads
<1>2. Returned(r, n, EOF) /\ UNCHANGED <<setup, closed>>
  BY DEF ReadFails, output
<1>3. Buffered(s) /\ s.file \in Readers /\ pointerOf(s) \in Nat /\ s.buffer \in Seq(Byte)
  BY <1>1, DrainedIs, FieldsAre, PositionsAre
<1>4. got' \in [Readers -> Answers] /\ AnswersInFull'
  BY <1>1, <1>2, OneAnswer
<1>5. CASE /\ SetPosition(s.file, pointerOf(s)) /\ UNCHANGED asserted
           /\ in' = [in EXCEPT ![r] = [s EXCEPT !.hasBuffer = TRUE]]
  <2> HIDE DEF s
  <2>1. Buffered([s EXCEPT !.hasBuffer = TRUE])
    BY <1>3, ShortIs
  <2>2. getAt' \in [Readers -> Nat] /\ getState' \in [Readers -> {"good", "closed", "eof", "fail"}]
    BY <1>3, <1>5, SetPositionIs
  <2> QED
    BY <1>1, <1>2, <1>4, <1>5, <2>1, <2>2, OneStream DEF Reading
<1>6. CASE /\ in' = [in EXCEPT ![r] = s] /\ asserted' = (asserted /\ getAt[s.file] = pointerOf(s))
           /\ UNCHANGED <<getAt, getState>>
  <2> HIDE DEF s
  <2>1. asserted' \in BOOLEAN
    BY <1>6 DEF Reading
  <2> QED
    BY <1>1, <1>2, <1>3, <1>4, <1>6, <2>1, OneStream DEF Reading
<1> QED
  BY <1>5, <1>6 DEF ReadFails

LEMMA ReadHangsReads ==
  ASSUME Written, Reading, setup.directory = "simple", NEW r \in setup.readers, NEW n \in Nat, NEW refill \in BOOLEAN,
         ReadHangs(r, n, refill)
  PROVE  Reading'
<1> DEFINE s == Drained(in[r])
           t == [s EXCEPT !.done = TRUE]
<1>1. r \in Readers /\ closed /\ Buffered(in[r])
  BY UsableIs DEF ReadHangs, Reads
<1>2. /\ in' = [in EXCEPT ![r] = t] /\ asserted' = (asserted /\ getAt[s.file] = pointerOf(s))
      /\ UNCHANGED <<setup, closed, getAt, getState, got>>
  BY DEF ReadHangs, output
<1>3. asserted' \in BOOLEAN
  BY <1>2 DEF Reading
<1>4. Buffered(s)
  BY <1>1, DrainedIs
<1> HIDE DEF s
<1>5. Buffered(t)
  BY <1>4, DoneIs
<1>6. AnswersInFull'
  BY <1>2 DEF Reading, AnswersInFull
<1> HIDE DEF t
<1> QED
  BY <1>1, <1>2, <1>3, <1>5, <1>6, OneStream DEF Reading

LEMMA SeekInputReads ==
  ASSUME Written, Reading, setup.directory = "simple", NEW r \in setup.readers, NEW p \in Nat, SeekInput(r, p)
  PROVE  Reading'
<1> DEFINE s == in[r]
<1>1. r \in Readers /\ closed /\ Buffered(s) /\ s.file \in Readers
  BY UsableIs DEF SeekInput
<1>2. UNCHANGED <<setup, closed, asserted>>
  BY DEF SeekInput, output
<1>z. <<>> \in Seq(Byte) /\ Len(<<>>) = 0 /\ 0 \in Nat
  OBVIOUS
<1>3. CASE InBuffer(s, p)
  <2> DEFINE t == [s EXCEPT !.pos = p - s.start]
  <2>1. in' = [in EXCEPT ![r] = t] /\ Returned(r, 0, <<>>) /\ UNCHANGED <<getAt, getState>>
    BY <1>3 DEF SeekInput
  <2>2. p - s.start \in 0..Len(s.buffer)
    <3>1. s.start \in Nat /\ Len(s.buffer) \in Nat /\ p >= s.start /\ p < s.start + Len(s.buffer)
      BY <1>1, <1>3, FieldsAre DEF InBuffer
    <3> HIDE DEF s
    <3> QED
      BY <3>1
  <2> HIDE DEF s
  <2>3. Buffered(t)
    BY <1>1, <2>2, MovedIs
  <2>4. got' \in [Readers -> Answers] /\ AnswersInFull'
    BY <1>1, <1>z, <2>1, OneAnswer
  <2> HIDE DEF t
  <2> QED
    BY <1>1, <1>2, <2>1, <2>3, <2>4, OneStream DEF Reading, s
<1>4. CASE ~InBuffer(s, p)
  <2> DEFINE t == [s EXCEPT !.start = p, !.pos = 0, !.buffer = <<>>]
             answer == IF getState[s.file] = "good" THEN <<>> ELSE EOF
  <2>1. in' = [in EXCEPT ![r] = t] /\ Returned(r, 0, answer) /\ SetPosition(s.file, p)
    BY <1>4 DEF SeekInput
  <2> HIDE DEF s
  <2>2. Buffered(t)
    BY <1>1, EmptiedIs
  <2>3. answer \in Seq(Byte) \cup {EOF} /\ (answer # EOF => Len(answer) = 0)
    BY <1>z
  <2> HIDE DEF answer, t
  <2>4. got' \in [Readers -> Answers] /\ AnswersInFull'
    BY <1>1, <1>z, <2>1, <2>3, OneAnswer
  <2>5. getAt' \in [Readers -> Nat] /\ getState' \in [Readers -> {"good", "closed", "eof", "fail"}]
    BY <1>1, <2>1, SetPositionIs
  <2> QED
    BY <1>1, <1>2, <2>1, <2>2, <2>4, <2>5, OneStream DEF Reading, s
<1> QED
  BY <1>3, <1>4

\* What a smaller or larger buffer makes of a stream that loses no bytes of it.
LEMMA ResizedIs ==
  ASSUME NEW s, Buffered(s), NEW n \in Nat \ {0}, s.hasBuffer
  PROVE  LET keep == IF Available(s) > n THEN n ELSE Available(s)
             t == [s EXCEPT !.size = n, !.start = pointerOf(s), !.pos = 0, !.buffer = SubSeq(Had(s), 1, keep)]
         IN  /\ Buffered(t) /\ t.file = s.file /\ t.start = pointerOf(s) /\ t.pos = 0 /\ t.done = s.done
             /\ t.buffer \in Seq(Byte) /\ Len(t.buffer) = keep
             /\ \A i \in 1..keep : t.buffer[i] = Had(s)[i]
<1> DEFINE a == Available(s)
           p == pointerOf(s)
           had == Had(s)
           keep == IF a > n THEN n ELSE a
           b == SubSeq(had, 1, keep)
           t == [s EXCEPT !.size = n, !.start = p, !.pos = 0, !.buffer = b]
<1>1. a \in Nat /\ p \in Nat /\ had \in Seq(Byte) /\ Len(had) = a
  BY PositionsAre
<1> HIDE DEF a, p, had
<1>2. keep \in Nat /\ keep <= n /\ keep <= Len(had)
  BY <1>1
<1> HIDE DEF keep
<1>3. b \in Seq(Byte) /\ Len(b) = keep /\ \A i \in 1..keep : b[i] = had[i]
  BY <1>1, <1>2
<1> HIDE DEF b
<1>t. t = Cut(s, n, p, b)
  BY DEF Cut
<1> HIDE DEF t
<1>4. Buffered(t) /\ t.file = s.file /\ t.start = p /\ t.pos = 0 /\ t.buffer = b /\ t.done = s.done
  <2>1. Len(b) <= n
    BY <1>2, <1>3
  <2> QED
    BY <1>1, <1>3, <1>t, <2>1, CutIs
<1>5. /\ Buffered(t) /\ t.file = s.file /\ t.start = p /\ t.pos = 0 /\ t.done = s.done
      /\ t.buffer \in Seq(Byte) /\ Len(t.buffer) = keep /\ \A i \in 1..keep : t.buffer[i] = had[i]
  BY <1>3, <1>4
<1> QED
  BY <1>5 DEF t, b, keep, a, p, had

LEMMA set_buffer_sizeReads ==
  ASSUME Written, Reading, setup.directory = "simple", NEW r \in setup.readers, NEW n \in setup.sizes,
         set_buffer_size(r, n)
  PROVE  Reading'
<1> DEFINE s == in[r]
           keep == IF Available(s) > n THEN n ELSE Available(s)
           t == [s EXCEPT !.size = n, !.start = pointerOf(s), !.pos = 0, !.buffer = SubSeq(Had(s), 1, keep)]
           u == [s EXCEPT !.size = n]
<1>1. r \in Readers /\ closed /\ Buffered(s) /\ n \in Nat \ {0}
  BY UsableIs, SetupIs DEF set_buffer_size, Written
<1>2. UNCHANGED <<setup, closed, getAt, getState, asserted, got>> /\ in' = [in EXCEPT ![r] = IF s.hasBuffer THEN t ELSE u]
  BY DEF set_buffer_size, output
<1> HIDE DEF s
<1>3. s.hasBuffer \/ Len(s.buffer) = 0
  BY <1>1, FieldsAre
<1>4. CASE s.hasBuffer
  <2>1. Buffered(t)
    BY <1>1, <1>4, ResizedIs
  <2> QED
    BY <1>1, <1>2, <1>4, <2>1, OneStream DEF Reading, AnswersInFull
<1>5. CASE ~s.hasBuffer
  <2>1. Buffered(u)
    BY <1>1, <1>3, <1>5, SizedIs
  <2> QED
    BY <1>1, <1>2, <1>5, <2>1, OneStream DEF Reading, AnswersInFull
<1> QED
  BY <1>4, <1>5

LEMMA CloseInputReads ==
  ASSUME Written, Reading, setup.directory = "simple", NEW r \in setup.readers, CloseInput(r)
  PROVE  Reading'
<1> DEFINE s == in[r]
           t == [s EXCEPT !.done = TRUE]
           c == IF s.file = r /\ getState[r] = "good" THEN "closed" ELSE getState[r]
<1>1. r \in Readers /\ closed /\ Buffered(s)
  BY UsableIs DEF CloseInput
<1>2. /\ in' = [in EXCEPT ![r] = t] /\ getState' = [getState EXCEPT ![r] = c]
      /\ UNCHANGED <<setup, closed, getAt, asserted, got>>
  BY DEF CloseInput, output
<1> HIDE DEF s
<1>3. Buffered(t)
  BY <1>1, DoneIs
<1>4. c \in {"good", "closed", "eof", "fail"}
  BY <1>1 DEF Reading
<1> HIDE DEF c, t
<1>5. getState' \in [Readers -> {"good", "closed", "eof", "fail"}]
  BY <1>1, <1>2, <1>4 DEF Reading
<1>6. AnswersInFull'
  BY <1>2 DEF Reading, AnswersInFull
<1> QED
  BY <1>1, <1>2, <1>3, <1>5, <1>6, OneStream DEF Reading

\* A step of one stream of MMapDirectory.
LEMMA OneMapStream ==
  ASSUME Reading, setup.directory = "mmap", closed, UNCHANGED <<setup, disk, closed, getAt, getState, asserted>>,
         NEW r \in Readers, NEW s \in MapStreams, s.length <= Len(disk), in' = [in EXCEPT ![r] = s],
         got' \in [Readers -> Answers], AnswersInFull'
  PROVE  Reading'
<1>1. DOMAIN in = Readers /\ DOMAIN in' = Readers
  BY DEF Reading
<1>2. ASSUME NEW q \in Readers, in'[q] # None PROVE Opened(q)'
  <2>1. in'[q] \in MapStreams /\ in'[q].length <= Len(disk)
    <3>1. CASE q = r
      <4>1. in'[q] = s
        BY <1>1, <3>1
      <4> QED
        BY <4>1
    <3>2. CASE q # r
      <4>1. in'[q] = in[q]
        BY <1>1, <3>2
      <4> QED
        BY <1>2, <4>1 DEF Reading, Opened
    <3> QED
      BY <3>1, <3>2
  <2>2. closed' /\ setup'.directory = "mmap" /\ disk' = disk
    OBVIOUS
  <2> QED
    BY <2>1, <2>2 DEF Opened
<1> QED
  BY <1>1, <1>2 DEF Reading

LEMMA MapStreamIs ==
  ASSUME NEW f \in Readers, NEW n \in Nat, NEW p \in Nat
  PROVE  /\ MapStream(f, n, p) \in MapStreams /\ MapStream(f, n, p).length = n
         /\ MapStream(f, n, p).start = 0 /\ MapStream(f, n, p).pos = p
BY DEF MapStream, MapStreams

LEMMA MappedIs ==
  ASSUME Written, Reading, setup.directory = "mmap", NEW r \in setup.readers, Usable(r)
  PROVE  /\ r \in Readers /\ closed /\ in[r] \in MapStreams /\ in[r].length <= Len(disk)
         /\ in[r].file \in Readers /\ in[r].pos \in Nat /\ in[r].length \in Nat /\ in[r].start = 0
         /\ disk \in Seq(Byte) /\ Len(disk) \in Nat
<1>1. r \in Readers /\ in[r] # None
  BY SetupIs DEF Written, Usable
<1>2. closed /\ in[r] \in MapStreams /\ in[r].length <= Len(disk)
  BY <1>1 DEF Reading, Opened
<1>3. disk \in Seq(Byte) /\ Len(disk) \in Nat
  BY DEF Written
<1> QED
  BY <1>1, <1>2, <1>3 DEF MapStreams

LEMMA OpenMapReads ==
  ASSUME Written, Reading, setup.directory = "mmap", NEW r \in setup.readers, OpenMap(r) PROVE Reading'
<1> DEFINE s == MapStream(r, Len(disk), 0)
<1>1. r \in Readers /\ Len(disk) \in Nat /\ closed
  BY SetupIs DEF Written, OpenMap
<1>2. in' = [in EXCEPT ![r] = s] /\ UNCHANGED <<setup, disk, closed, getAt, getState, asserted, got>>
  BY DEF OpenMap, output
<1>3. s \in MapStreams /\ s.length <= Len(disk)
  BY <1>1, MapStreamIs
<1>4. AnswersInFull'
  BY <1>2 DEF Reading, AnswersInFull
<1> HIDE DEF s
<1> QED
  BY <1>1, <1>2, <1>3, <1>4, OneMapStream DEF Reading

LEMMA CloneMapReads ==
  ASSUME Written, Reading, setup.directory = "mmap", NEW r \in setup.readers, NEW q \in setup.readers, CloneMap(r, q)
  PROVE  Reading'
<1> DEFINE s == MapStream(in[r].file, in[r].length, in[r].pos)
<1>1. q \in Readers /\ closed
  BY SetupIs, MappedIs DEF Written, CloneMap, IsMapped
<1>2. in' = [in EXCEPT ![q] = s] /\ UNCHANGED <<setup, disk, closed, getAt, getState, asserted, got>>
  BY DEF CloneMap, output
<1>3. s \in MapStreams /\ s.length <= Len(disk)
  BY MappedIs, MapStreamIs DEF CloneMap, IsMapped
<1>4. AnswersInFull'
  BY <1>2 DEF Reading, AnswersInFull
<1> HIDE DEF s
<1> QED
  BY <1>1, <1>2, <1>3, <1>4, OneMapStream DEF Reading

\* What the updates of a mapped stream make of it.
LEMMA MapMovedIs ==
  ASSUME NEW s \in MapStreams, NEW p \in Nat
  PROVE  /\ [s EXCEPT !.pos = p] \in MapStreams /\ [s EXCEPT !.pos = p].length = s.length
         /\ [s EXCEPT !.pos = p].start = 0 /\ [s EXCEPT !.pos = p].pos = p
BY DEF MapStreams

LEMMA MapClosedIs ==
  ASSUME NEW s \in MapStreams
  PROVE  LET t == [s EXCEPT !.done = TRUE, !.length = 0, !.pos = 0]
         IN  t \in MapStreams /\ t.length = 0 /\ t.start = 0 /\ t.pos = 0
BY DEF MapStreams

LEMMA ReadMapReads ==
  ASSUME Written, Reading, setup.directory = "mmap", NEW r \in setup.readers, NEW n \in Nat, ReadMap(r, n)
  PROVE  Reading'
<1> DEFINE k == in[r].pos
           i == k + n
           s == [in[r] EXCEPT !.pos = i]
           bytes == SubSeq(disk, k + 1, i)
<1>1. /\ r \in Readers /\ closed /\ in[r] \in MapStreams /\ in[r].length <= Len(disk)
      /\ k \in Nat /\ in[r].length \in Nat /\ disk \in Seq(Byte) /\ Len(disk) \in Nat /\ i <= in[r].length
  BY MappedIs DEF ReadMap, IsMapped
<1>2. /\ in' = [in EXCEPT ![r] = s] /\ Returned(r, n, bytes)
      /\ UNCHANGED <<setup, disk, closed, getAt, getState, asserted>>
  BY DEF ReadMap, output
<1> HIDE DEF k
<1>3. bytes \in Seq(Byte) /\ Len(bytes) = n
  <2>1. disk \in Seq(Byte) /\ k + n <= Len(disk) /\ n \in Nat
    BY <1>1
  <2> QED
    BY <1>1, <2>1, SliceIs
<1>4. i \in Nat
  BY <1>1
<1> HIDE DEF i, bytes
<1>5. s \in MapStreams /\ s.length <= Len(disk)
  BY <1>1, <1>4, MapMovedIs
<1>6. got' \in [Readers -> Answers] /\ AnswersInFull'
  BY <1>1, <1>2, <1>3, OneAnswer
<1> HIDE DEF s
<1> QED
  BY <1>1, <1>2, <1>5, <1>6, OneMapStream

LEMMA SeekMapReads ==
  ASSUME Written, Reading, setup.directory = "mmap", NEW r \in setup.readers, NEW p \in Nat, SeekMap(r, p)
  PROVE  Reading'
<1> DEFINE s == [in[r] EXCEPT !.pos = p]
<1>1. r \in Readers /\ closed /\ in[r] \in MapStreams /\ in[r].length <= Len(disk)
  BY MappedIs DEF SeekMap
<1>2. in' = [in EXCEPT ![r] = s] /\ Returned(r, 0, <<>>)
      /\ UNCHANGED <<setup, disk, closed, getAt, getState, asserted>>
  BY DEF SeekMap, output
<1>3. <<>> \in Seq(Byte) /\ Len(<<>>) = 0 /\ 0 \in Nat
  OBVIOUS
<1>4. s \in MapStreams /\ s.length <= Len(disk)
  BY <1>1, MapMovedIs
<1>5. got' \in [Readers -> Answers] /\ AnswersInFull'
  BY <1>1, <1>2, <1>3, OneAnswer
<1> HIDE DEF s
<1> QED
  BY <1>1, <1>2, <1>4, <1>5, OneMapStream

LEMMA CloseMapReads ==
  ASSUME Written, Reading, setup.directory = "mmap", NEW r \in setup.readers, CloseMap(r)
  PROVE  Reading'
<1> DEFINE s == [in[r] EXCEPT !.done = TRUE, !.length = 0, !.pos = 0]
<1>1. r \in Readers /\ closed /\ in[r] \in MapStreams /\ Len(disk) \in Nat
  BY MappedIs DEF CloseMap
<1>2. DOMAIN in = Readers
  BY DEF Reading
<1>3. in' = [in EXCEPT ![r] = s] /\ Returned(r, 0, <<>>)
      /\ UNCHANGED <<setup, disk, closed, getAt, getState, asserted>>
  BY <1>1, <1>2 DEF CloseMap, output
<1>4. <<>> \in Seq(Byte) /\ Len(<<>>) = 0 /\ 0 \in Nat
  OBVIOUS
<1>5. s \in MapStreams /\ s.length = 0
  BY <1>1, MapClosedIs
<1>6. got' \in [Readers -> Answers] /\ AnswersInFull'
  BY <1>1, <1>3, <1>4, OneAnswer
<1> HIDE DEF s
<1>7. s.length <= Len(disk)
  BY <1>1, <1>5
<1> QED
  BY <1>1, <1>3, <1>5, <1>6, <1>7, OneMapStream

\* Every step of an input stream.
LEMMA InputReads ==
  ASSUME Written, Reading, setup.directory = "simple", Input PROVE Reading'
<1>1. PICK r \in setup.readers :
        \/ Open(r) \/ CloseInput(r)
        \/ \E s \in setup.readers : Clone(r, s)
        \/ \E n \in 1..setup.maxLength : ReadBuffer(r, n) \/ Refill(r, n) \/ ReadDirect(r, n)
        \/ \E n \in 1..setup.maxLength, refill \in BOOLEAN :
             \/ ReadPastEnd(r, n, refill) \/ ReadShort(r, n, refill)
             \/ ReadFails(r, n, refill) \/ ReadHangs(r, n, refill)
        \/ \E p \in 0..setup.maxLength : SeekInput(r, p)
        \/ \E n \in setup.sizes : set_buffer_size(r, n)
  BY DEF Input
<1>2. (1..setup.maxLength) \subseteq Nat /\ (0..setup.maxLength) \subseteq Nat
  BY SetupIs DEF Written
<1>3. CASE Open(r) \/ CloseInput(r)
  BY <1>3, OpenReads, CloseInputReads
<1>4. ASSUME NEW s \in setup.readers, Clone(r, s) PROVE Reading'
  BY <1>4, CloneReads
<1>5. ASSUME NEW n \in 1..setup.maxLength, ReadBuffer(r, n) \/ Refill(r, n) \/ ReadDirect(r, n) PROVE Reading'
  BY <1>2, <1>5, ReadBufferReads, RefillReads, ReadDirectReads
<1>6. ASSUME NEW n \in 1..setup.maxLength, NEW refill \in BOOLEAN,
             \/ ReadPastEnd(r, n, refill) \/ ReadShort(r, n, refill)
             \/ ReadFails(r, n, refill) \/ ReadHangs(r, n, refill)
      PROVE  Reading'
  BY <1>2, <1>6, ReadPastEndReads, ReadShortReads, ReadFailsReads, ReadHangsReads
<1>7. ASSUME NEW p \in 0..setup.maxLength, SeekInput(r, p) PROVE Reading'
  BY <1>2, <1>7, SeekInputReads
<1>8. ASSUME NEW n \in setup.sizes, set_buffer_size(r, n) PROVE Reading'
  BY <1>8, set_buffer_sizeReads
<1> QED
  BY <1>1, <1>3, <1>4, <1>5, <1>6, <1>7, <1>8

LEMMA MapInputReads ==
  ASSUME Written, Reading, setup.directory = "mmap", MapInput PROVE Reading'
<1>1. (1..setup.maxLength) \subseteq Nat /\ (0..setup.maxLength) \subseteq Nat
  BY SetupIs DEF Written
<1> QED
  BY <1>1, OpenMapReads, CloneMapReads, ReadMapReads, SeekMapReads, CloseMapReads DEF MapInput

\* The input streams leave the file and its output stream alone.
LEMMA InputLeaves ==
  ASSUME Input \/ MapInput PROVE UNCHANGED output
<1>1. ASSUME Input PROVE UNCHANGED output
  <2>1. ASSUME NEW r, Open(r) \/ CloseInput(r) PROVE UNCHANGED output
    BY <2>1 DEF Open, CloseInput
  <2>2. ASSUME NEW r, NEW s, Clone(r, s) PROVE UNCHANGED output
    BY <2>2 DEF Clone
  <2>3. ASSUME NEW r, NEW n, ReadBuffer(r, n) \/ Refill(r, n) \/ ReadDirect(r, n) PROVE UNCHANGED output
    BY <2>3 DEF ReadBuffer, Refill, ReadDirect
  <2>4. ASSUME NEW r, NEW n, NEW refill,
               \/ ReadPastEnd(r, n, refill) \/ ReadShort(r, n, refill)
               \/ ReadFails(r, n, refill) \/ ReadHangs(r, n, refill)
        PROVE  UNCHANGED output
    BY <2>4 DEF ReadPastEnd, ReadShort, ReadFails, ReadHangs
  <2>5. ASSUME NEW r, NEW p, SeekInput(r, p) PROVE UNCHANGED output
    BY <2>5 DEF SeekInput
  <2>6. ASSUME NEW r, NEW n, set_buffer_size(r, n) PROVE UNCHANGED output
    BY <2>6 DEF set_buffer_size
  <2> QED
    BY <1>1, <2>1, <2>2, <2>3, <2>4, <2>5, <2>6 DEF Input
<1>2. ASSUME MapInput PROVE UNCHANGED output
  BY <1>2 DEF MapInput, OpenMap, CloneMap, ReadMap, SeekMap, CloseMap
<1> QED
  BY <1>1, <1>2

-----------------------------------------------------------------------------
(* The invariants *)

LEMMA StreamsStart == ASSUME Init PROVE Written /\ Reading
<1>1. <<>> \in Seq(Byte) /\ Len(<<>>) = 0 /\ 0 \in Nat /\ 0 <= 0
  OBVIOUS
<1>2. Written
  <2>1. Len(disk) = 0 /\ Len(m_buffer) = 0 /\ 0 <= BUFFER_SIZE
    BY SizeAssumption, <1>1 DEF Init
  <2> QED
    BY <1>1, <2>1 DEF Init, Written
<1>3. Reading
  <2>1. \A r \in Readers : in[r] = None
    BY DEF Init
  <2>2. [asked |-> 0, bytes |-> <<>>] \in Answers
    BY <1>1 DEF Answers
  <2>3. got \in [Readers -> Answers]
    BY <2>2 DEF Init
  <2>4. AnswersInFull
    BY <1>1 DEF Init, AnswersInFull
  <2> QED
    BY <1>1, <2>1, <2>3, <2>4 DEF Init, Reading
<1> QED
  BY <1>2, <1>3

LEMMA StreamsStay ==
  ASSUME Written, Reading, [StreamNext]_vars PROVE Written' /\ Reading'
<1>1. CASE Output
  <2>1. Written' /\ ~closed /\ UNCHANGED <<setup, in, getAt, getState, asserted, got>>
    BY <1>1, OutputSteps
  <2>2. \A r \in Readers : in[r] = None
    BY <2>1 DEF Reading, Opened
  <2> QED
    BY <2>1, <2>2 DEF Reading, AnswersInFull
<1>2. CASE setup.directory = "simple" /\ Input
  BY <1>2, InputReads, InputLeaves DEF output, Written
<1>3. CASE setup.directory = "mmap" /\ MapInput
  BY <1>3, MapInputReads, InputLeaves DEF output, Written
<1>4. CASE UNCHANGED vars
  <2>1. UNCHANGED <<setup, disk, good, putAt, m_buffer, m_bufferStart, closed, in, getAt, getState, asserted, got>>
    BY <1>4 DEF vars, output, input
  <2> QED
    BY <2>1 DEF Written, Reading, Opened, Buffered, AnswersInFull
<1> QED
  BY <1>1, <1>2, <1>3, <1>4 DEF StreamNext, Next

THEOREM StreamsInvariant == StreamSpec => [](Written /\ Reading)
<1>1. Init => Written /\ Reading
  BY StreamsStart
<1>2. Written /\ Reading /\ [StreamNext]_vars => (Written /\ Reading)'
  BY StreamsStay
<1> QED
  BY <1>1, <1>2, PTL DEF StreamSpec

\* What the variables of the streams are, between two steps.
THEOREM TypeCorrect == StreamSpec => []TypeOK
<1>1. Written /\ Reading => TypeOK
  <2> SUFFICES ASSUME Written, Reading PROVE TypeOK
    OBVIOUS
  <2>1. ASSUME NEW r \in Readers, in[r] # None /\ setup.directory = "simple"
        PROVE  /\ in[r] \in Streams
               /\ in[r].pos \in 0..Len(in[r].buffer)
               /\ Len(in[r].buffer) <= in[r].size
    <3>1. Buffered(in[r])
      BY <2>1 DEF Reading, Opened
    <3> QED
      BY <3>1, FieldsAre DEF Buffered
  <2> QED
    BY <2>1 DEF TypeOK, Written, Reading
<1> QED
  BY <1>1, StreamsInvariant, PTL

\* The ofstream writes where the buffer begins, as long as no write has failed,
\* whatever was written, flushed and sought.
THEOREM StaysInStep == StreamSpec => []GoodIsInStep
<1>1. Written /\ Reading => GoodIsInStep
  BY DEF Written, GoodIsInStep
<1> QED
  BY <1>1, StreamsInvariant, PTL

\* No read returns less than it was asked for, whatever moved or cut short its
\* stream before.
THEOREM AnswersAreFull == StreamSpec => []AnswersInFull
<1>1. Written /\ Reading => AnswersInFull
  BY DEF Reading
<1> QED
  BY <1>1, StreamsInvariant, PTL

-----------------------------------------------------------------------------
(* The streams see one flat file *)

LEMMA IsASlice ==
  ASSUME NEW d \in Seq(Byte), NEW p \in Nat, NEW n \in Nat, p + n <= Len(d),
         NEW a \in Seq(Byte), Len(a) = n, \A i \in 1..n : a[i] = d[p + i]
  PROVE  a = SubSeq(d, p + 1, p + n)
<1> DEFINE b == SubSeq(d, p + 1, p + n)
<1>1. b \in Seq(Byte) /\ Len(b) = n /\ \A i \in 1..n : b[i] = d[p + i]
  BY SliceIs
<1> HIDE DEF b
<1>2. a = b
  BY <1>1, SeqEqual
<1> QED
  BY <1>2 DEF b

\* What is written can be found where it was written.
LEMMA OverwriteGives ==
  ASSUME NEW d \in Seq(Byte), NEW p \in Nat, p <= Len(d), NEW bs \in Seq(Byte)
  PROVE  bs = SubSeq(Overwrite(d, p, bs), p + 1, p + Len(bs))
<1> DEFINE o == Overwrite(d, p, bs)
           n == Len(bs)
<1>1. n \in Nat /\ Len(d) \in Nat
  OBVIOUS
<1>2. /\ o \in Seq(Byte) /\ Len(o) = IF p + n > Len(d) THEN p + n ELSE Len(d)
      /\ \A i \in 1..Len(o) : o[i] = IF i \in (p + 1)..(p + n) THEN bs[i - p] ELSE d[i]
  BY OverwriteIs
<1> HIDE DEF o
<1>3. p + n <= Len(o)
  BY <1>1, <1>2
<1>4. ASSUME NEW i \in 1..n PROVE bs[i] = o[p + i]
  <2>1. p + i \in 1..Len(o) /\ p + i \in (p + 1)..(p + n) /\ (p + i) - p = i
    BY <1>1, <1>3
  <2> QED
    BY <1>2, <2>1
<1> HIDE DEF n
<1>5. bs = SubSeq(o, p + 1, p + n)
  <2>1. Len(bs) = n
    BY DEF n
  <2> QED
    BY <1>1, <1>2, <1>3, <1>4, <2>1, IsASlice
<1> QED
  BY <1>5 DEF o, n

\* Where the input streams are.
Positions == [r \in Readers |-> IF in[r] = None THEN None ELSE pointerOf(in[r])]

\* What a step of the output stream is to the flat file.
LEMMA FlatOverwrites ==
  ASSUME NEW d, NEW p, NEW bs PROVE Flat!Overwrite(d, p, bs) = Overwrite(d, p, bs)
BY DEF Overwrite, Flat!Overwrite

LEMMA FlatAdds ==
  ASSUME Written, Written', ~closed, good, good', NEW bs \in Seq(Byte), Adds(bs), UNCHANGED <<in, got>>
  PROVE  [Flat!Next]_(Flat!vars)
<1> DEFINE p == get_file_pointer
           n == Len(bs)
<1>1. /\ disk \in Seq(Byte) /\ m_bufferStart \in Nat /\ m_bufferStart <= Len(disk)
      /\ m_buffer \in Seq(Byte) /\ Len(m_buffer) \in Nat /\ n \in Nat
  BY DEF Written
<1>2. p' = p + n /\ Data' = Overwrite(disk, m_bufferStart, m_buffer \o bs) /\ (bs = <<>> \/ UNCHANGED closed)
  BY DEF Adds
<1>3. p \in Nat /\ p = m_bufferStart + Len(m_buffer)
  BY <1>1 DEF get_file_pointer
<1>4. Data' = Overwrite(Data, p, bs)
  BY <1>1, <1>2, <1>3, OverwriteTwice DEF Data
<1>5. Data \in Seq(Byte) /\ p <= Len(Data) /\ Len(Data) \in Nat
  <2>1. Data \in Seq(Byte) /\ Len(Data) = IF p > Len(disk) THEN p ELSE Len(disk)
    BY <1>1, <1>3, OverwriteIs DEF Data
  <2> QED
    BY <1>1, <1>3, <2>1
<1>6. /\ Data' \in Seq(Byte) /\ Len(Data') \in Nat /\ p + n <= Len(Data')
      /\ bs = SubSeq(Data', p + 1, p + n)
  <2>1. /\ Overwrite(Data, p, bs) \in Seq(Byte)
        /\ Len(Overwrite(Data, p, bs)) = IF p + n > Len(Data) THEN p + n ELSE Len(Data)
    BY <1>3, <1>5, OverwriteIs
  <2>2. bs = SubSeq(Overwrite(Data, p, bs), p + 1, p + n)
    BY <1>3, <1>5, OverwriteGives
  <2> QED
    BY <1>1, <1>3, <1>4, <1>5, <2>1, <2>2
<1>7. CASE bs = <<>>
  <2>1. n = 0
    BY <1>7
  <2>2. Data' = Data /\ p' = p
    BY <1>2, <1>3, <1>4, <1>5, <1>7, <2>1, OverwriteNothing
  <2>3. closed' \in BOOLEAN /\ closed \in BOOLEAN
    BY DEF Written
  <2>4. CASE closed'
    BY <2>2, <2>3, <2>4 DEF Flat!Next, Flat!Close, Data
  <2>5. CASE ~closed'
    BY <2>2, <2>3, <2>5 DEF Flat!vars, Data
  <2> QED
    BY <2>4, <2>5
<1>8. CASE bs # <<>>
  <2>1. n > 0
    BY <1>8
  <2>2. n \in 1..(Len(Data') - p)
    BY <1>1, <1>3, <1>6, <2>1
  <2>3. Data' = Flat!Overwrite(Data, p, SubSeq(Data', p + 1, p + n))
    BY <1>4, <1>6, FlatOverwrites
  <2>4. Flat!Write
    BY <1>2, <1>6, <1>8, <2>2, <2>3 DEF Flat!Write, Data
  <2> QED
    BY <2>4 DEF Flat!Next
<1> QED
  BY <1>7, <1>8

LEMMA FlatGoes ==
  ASSUME Written, ~closed, good, good', Goes, UNCHANGED <<in, got>> PROVE Flat!Seek
<1>1. Len(Data) = DataLength
  BY DataIs
<1>2. get_file_pointer' \in 0..Len(Data) /\ Data' = Data /\ UNCHANGED closed
  BY <1>1 DEF Goes
<1> QED
  BY <1>2 DEF Flat!Seek, Data

\* A step of one input stream moves its position, and no other.
LEMMA OnePosition ==
  ASSUME DOMAIN in = Readers, NEW r \in Readers, NEW s, s # None, in' = [in EXCEPT ![r] = s]
  PROVE  /\ Positions' = [Positions EXCEPT ![r] = pointerOf(s)]
<1> DEFINE t(q) == IF in'[q] = None THEN None ELSE pointerOf(in'[q])
           u(q) == IF q = r THEN pointerOf(s) ELSE Positions[q]
<1>1. ASSUME NEW q \in Readers PROVE t(q) = u(q)
  <2>1. CASE q = r
    <3>1. in'[q] = s
      BY <2>1
    <3> QED
      BY <2>1, <3>1
  <2>2. CASE q # r
    <3>1. in'[q] = in[q]
      BY <2>2
    <3> QED
      BY <2>2, <3>1 DEF Positions
  <2> QED
    BY <2>1, <2>2
<1>2. Positions' = [q \in Readers |-> t(q)]
  BY DEF Positions, pointerOf
<1>3. [Positions EXCEPT ![r] = pointerOf(s)] = [q \in Readers |-> u(q)]
  BY DEF Positions
<1> HIDE DEF t, u
<1> QED
  BY <1>1, <1>2, <1>3

LEMMA ClosedData ==
  ASSUME Written, closed, ~setup.faults PROVE Data = disk /\ disk \in Seq(Byte)
BY OverwriteNothing DEF Written, Data

\* What the steps of an input stream are to the flat file, whose bytes are those
\* on the disk once the output stream is closed.
Moves(r, s) ==
  /\ r \in Readers /\ s # None
  /\ in' = [in EXCEPT ![r] = s]
  /\ UNCHANGED output

LEMMA MovesPosition ==
  ASSUME Written, Reading, closed, ~setup.faults, NEW r, NEW s, Moves(r, s)
  PROVE  /\ Positions' = [Positions EXCEPT ![r] = pointerOf(s)]
         /\ Positions[r] = IF in[r] = None THEN None ELSE pointerOf(in[r])
         /\ Data = disk /\ UNCHANGED <<Data, get_file_pointer, closed>>
<1>1. DOMAIN in = Readers /\ r \in Readers /\ s # None /\ in' = [in EXCEPT ![r] = s]
  BY DEF Reading, Moves
<1>2. UNCHANGED <<disk, m_buffer, m_bufferStart, closed>>
  BY DEF Moves, output
<1>3. Positions' = [Positions EXCEPT ![r] = pointerOf(s)]
  BY <1>1, OnePosition
<1>4. Positions[r] = IF in[r] = None THEN None ELSE pointerOf(in[r])
  BY <1>1 DEF Positions
<1> QED
  BY <1>2, <1>3, <1>4, ClosedData DEF Data, get_file_pointer

LEMMA FlatOpens ==
  ASSUME Written, Reading, closed, ~setup.faults, NEW r, NEW s, Moves(r, s), in[r] = None, pointerOf(s) = 0,
         UNCHANGED got
  PROVE  Flat!Open(r)
<1>1. /\ Positions' = [Positions EXCEPT ![r] = 0] /\ Positions[r] = None
      /\ UNCHANGED <<Data, get_file_pointer, closed>>
  BY MovesPosition
<1> QED
  BY <1>1 DEF Flat!Open, Positions, Data

LEMMA FlatClones ==
  ASSUME Written, Reading, closed, ~setup.faults, NEW r \in Readers, NEW q, NEW s, Moves(q, s), in[r] # None,
         in[q] = None, pointerOf(s) = pointerOf(in[r]), pointerOf(s) \in Nat, UNCHANGED got
  PROVE  Flat!Clone(r, q)
<1>1. /\ Positions' = [Positions EXCEPT ![q] = pointerOf(s)] /\ Positions[q] = None
      /\ UNCHANGED <<Data, get_file_pointer, closed>>
  BY MovesPosition
<1>2. Positions[r] = pointerOf(s) /\ Positions[r] # None
  BY ByteAssumption DEF Positions
<1>3. Positions' = [Positions EXCEPT ![q] = Positions[r]]
  BY <1>1, <1>2
<1> QED
  BY <1>1, <1>2, <1>3 DEF Flat!Clone, Positions, Data

LEMMA FlatReads ==
  ASSUME Written, Reading, closed, ~setup.faults, NEW r, NEW s, Moves(r, s), in[r] # None,
         NEW p \in Nat, p = pointerOf(in[r]), NEW n \in Nat \ {0}, p + n <= Len(disk), pointerOf(s) = p + n,
         NEW bytes, bytes = SubSeq(disk, p + 1, p + n), Returned(r, n, bytes)
  PROVE  Flat!Read(r)
<1>1. /\ Positions' = [Positions EXCEPT ![r] = p + n] /\ Positions[r] = p
      /\ Data = disk /\ UNCHANGED <<Data, get_file_pointer, closed>>
  BY MovesPosition
<1>2. p # None /\ Len(disk) \in Nat
  BY ByteAssumption, ClosedData
<1>3. n \in 1..(Len(Data) - Positions[r])
  BY <1>1, <1>2
<1>4. got' = [got EXCEPT ![r] = [asked |-> n, bytes |-> SubSeq(Data, Positions[r] + 1, Positions[r] + n)]]
  BY <1>1 DEF Returned
<1>5. Positions' = [Positions EXCEPT ![r] = Positions[r] + n]
  BY <1>1
<1> QED
  BY <1>1, <1>2, <1>3, <1>4, <1>5 DEF Flat!Read, Positions, Data

LEMMA FlatPasses ==
  ASSUME Written, Reading, closed, ~setup.faults, NEW r, NEW s, Moves(r, s), in[r] # None,
         NEW p \in Nat, p = pointerOf(in[r]), NEW n \in Nat, p + n > Len(disk), NEW q, q = pointerOf(s),
         q \in {p} \cup p..Len(disk), Returned(r, n, EOF)
  PROVE  Flat!ReadPastEnd(r)
<1>1. /\ Positions' = [Positions EXCEPT ![r] = q] /\ Positions[r] = p
      /\ Data = disk /\ UNCHANGED <<Data, get_file_pointer, closed>>
  BY MovesPosition
<1>2. p # None /\ Len(disk) \in Nat /\ r \in Readers
  BY ByteAssumption, ClosedData DEF Moves
<1>3. got'[r] = [asked |-> n, bytes |-> EOF] /\ got' = [got EXCEPT ![r] = [asked |-> n, bytes |-> EOF]]
  BY <1>2 DEF Returned, Reading
<1>4. got'[r].asked = n
  BY <1>3
<1>5. got'[r].asked > Len(Data) - Positions[r]
  <2>1. n > Len(disk) - p
    BY <1>2
  <2> QED
    BY <1>1, <1>4, <2>1
<1>6. got' = [got EXCEPT ![r] = [asked |-> got'[r].asked, bytes |-> EOF]]
  BY <1>3, <1>4
<1>7. q \in {Positions[r]} \cup Positions[r]..Len(Data)
  BY <1>1
<1> QED
  BY <1>1, <1>2, <1>5, <1>6, <1>7 DEF Flat!ReadPastEnd, Positions, Data

LEMMA FlatSeeks ==
  ASSUME Written, Reading, closed, ~setup.faults, NEW r, NEW s, Moves(r, s), in[r] # None,
         pointerOf(in[r]) \in Nat, NEW p \in Nat, p = pointerOf(s), Returned(r, 0, <<>>)
  PROVE  Flat!SeekInput(r)
<1>1. /\ Positions' = [Positions EXCEPT ![r] = p] /\ Positions[r] \in Nat
      /\ UNCHANGED <<Data, get_file_pointer, closed>>
  BY MovesPosition
<1>2. Positions[r] # None /\ Positions'[r] = p
  <2>1. r \in Readers /\ DOMAIN Positions = Readers
    BY DEF Moves, Positions
  <2> QED
    BY <1>1, <2>1, ByteAssumption
<1>3. Positions' = [Positions EXCEPT ![r] = Positions'[r]]
  BY <1>1, <1>2
<1>4. got' = [got EXCEPT ![r] = [asked |-> 0, bytes |-> <<>>]]
  BY DEF Returned
<1> QED
  BY <1>1, <1>2, <1>3, <1>4 DEF Flat!SeekInput, Positions, Data

LEMMA FlatStays ==
  ASSUME Written, Reading, closed, ~setup.faults, NEW r, NEW s, Moves(r, s), in[r] # None,
         pointerOf(s) = pointerOf(in[r]), UNCHANGED got
  PROVE  UNCHANGED Flat!vars
<1>1. /\ Positions' = [Positions EXCEPT ![r] = pointerOf(in[r])] /\ Positions[r] = pointerOf(in[r])
      /\ UNCHANGED <<Data, get_file_pointer, closed>>
  BY MovesPosition
<1>2. Positions' = Positions
  BY <1>1 DEF Positions
<1> QED
  BY <1>1, <1>2 DEF Flat!vars, Positions, Data

-----------------------------------------------------------------------------
(* A stream and its InputFile *)

\* The buffer of a stream has the bytes of the file that it says it has.
Holds(s) ==
  \A i \in 1..Len(s.buffer) : s.start + i <= Len(disk) /\ s.buffer[i] = disk[s.start + i]

\* A stream that was not cloned has an InputFile of its own, which is behind what
\* was read into the buffer.
Aligned(r) ==
  IF in[r] = None THEN getAt[r] = 0 /\ getState[r] = "good"
  ELSE /\ in[r].file = r
       /\ getAt[r] = in[r].start + Len(in[r].buffer)
       /\ in[r].done \/ getState[r] = "good"
       /\ Holds(in[r])

AllAligned == \A r \in Readers : Aligned(r)
InStep ==
  ~setup.faults => asserted /\ (setup.directory = "simple" => AllAligned)

\* A step of one stream that leaves it so.
LEMMA OneAligned ==
  ASSUME Reading, AllAligned, NEW r, NEW s, Moves(r, s), s.file = r,
         NEW p, p = s.start + Len(s.buffer), getAt' = [getAt EXCEPT ![r] = p],
         NEW c, getState' = [getState EXCEPT ![r] = c], s.done \/ c = "good", Holds(s)
  PROVE  AllAligned'
<1>1. /\ DOMAIN in = Readers /\ DOMAIN getAt = Readers /\ DOMAIN getState = Readers /\ r \in Readers /\ s # None
      /\ in' = [in EXCEPT ![r] = s] /\ disk' = disk
  BY DEF Reading, Moves, output
<1>2. ASSUME NEW q \in Readers PROVE Aligned(q)'
  <2>1. CASE q = r
    <3>1. in'[q] = s /\ getAt'[q] = p /\ getState'[q] = c
      BY <1>1, <2>1
    <3>2. Holds(s)'
      BY <1>1 DEF Holds
    <3>3. Holds(in[q])'
      BY <1>1, <3>1 DEF Holds
    <3> QED
      BY <1>1, <2>1, <3>1, <3>3 DEF Aligned
  <2>2. CASE q # r
    <3>1. in'[q] = in[q] /\ getAt'[q] = getAt[q] /\ getState'[q] = getState[q]
      BY <1>1, <2>2
    <3> QED
      BY <1>1, <3>1 DEF Aligned, AllAligned, Holds
  <2> QED
    BY <2>1, <2>2
<1> QED
  BY <1>2 DEF AllAligned

\* What holds of a stream that is used, when nothing has faults.
LEMMA AlignedIs ==
  ASSUME Written, Reading, AllAligned, NEW r \in Readers, Usable(r), Buffered(in[r])
  PROVE  /\ in[r] # None /\ in[r].file = r /\ in[r].done = FALSE
         /\ getAt[r] = in[r].start + Len(in[r].buffer) /\ getState[r] = "good" /\ Holds(in[r])
         /\ pointerOf(in[r]) \in Nat /\ pointerOf(in[r]) + Available(in[r]) = getAt[r]
         /\ \A refill \in BOOLEAN : From(in[r], refill) = getAt[r]
         /\ getAt = [getAt EXCEPT ![r] = getAt[r]]
         /\ getState = [getState EXCEPT ![r] = "good"]
<1>1. in[r] # None /\ ~in[r].done
  BY DEF Usable
<1>2. in[r].file = r /\ getAt[r] = in[r].start + Len(in[r].buffer) /\ getState[r] = "good" /\ Holds(in[r])
  BY <1>1 DEF AllAligned, Aligned
<1>3. pointerOf(in[r]) \in Nat /\ pointerOf(in[r]) + Available(in[r]) = getAt[r]
      /\ pointerOf(Drained(in[r])) = getAt[r]
  BY <1>2, PositionsAre
<1>4. \A refill \in BOOLEAN : From(in[r], refill) = getAt[r]
  BY <1>2, <1>3 DEF From
<1>5. in[r].done \in BOOLEAN
  BY FieldsAre
<1>6. getAt \in [Readers -> Nat] /\ getState \in [Readers -> {"good", "closed", "eof", "fail"}]
  BY DEF Reading
<1>7. getAt = [getAt EXCEPT ![r] = getAt[r]] /\ getState = [getState EXCEPT ![r] = "good"]
  BY <1>2, <1>6
<1> QED
  BY <1>1, <1>2, <1>3, <1>4, <1>5, <1>7

\* The bytes from the position of a stream on, in its buffer.
LEMMA HadIs ==
  ASSUME NEW s, Buffered(s), Holds(s), disk \in Seq(Byte), NEW i \in 1..Available(s)
  PROVE  pointerOf(s) + i <= Len(disk) /\ Had(s)[i] = disk[pointerOf(s) + i]
<1>1. /\ Available(s) \in Nat /\ Available(s) = Len(s.buffer) - s.pos /\ pointerOf(s) = s.start + s.pos
      /\ Had(s)[i] = s.buffer[s.pos + i] /\ s.pos \in Nat /\ s.start \in Nat /\ Len(s.buffer) \in Nat
  BY PositionsAre, FieldsAre
<1> DEFINE k == s.pos + i
<1>2. k \in 1..Len(s.buffer)
  BY <1>1
<1>3. s.start + k = pointerOf(s) + i
  BY <1>1
<1> HIDE DEF k
<1>4. s.start + k <= Len(disk) /\ s.buffer[k] = disk[s.start + k]
  BY <1>2 DEF Holds
<1> QED
  BY <1>1, <1>3, <1>4 DEF k

LEMMA FlatNexts ==
  ASSUME NEW r \in Readers,
         \/ Flat!Open(r) \/ Flat!Read(r) \/ Flat!ReadPastEnd(r) \/ Flat!SeekInput(r)
         \/ \E s \in Readers : Flat!Clone(r, s)
  PROVE  Flat!Next
BY DEF Flat!Next

-----------------------------------------------------------------------------
(* Each step of an input stream of SimpleFSDirectory that has no faults *)

LEMMA OpenFlat ==
  ASSUME Written, Reading, setup.directory = "simple", ~setup.faults, AllAligned, NEW r \in setup.readers, Open(r)
  PROVE  AllAligned' /\ asserted' = asserted /\ Flat!Next
<1>1. PICK n \in setup.sizes : in' = [in EXCEPT ![r] = Stream(r, n, 0)]
  BY DEF Open
<1> DEFINE s == Stream(r, n, 0)
<1>2. r \in Readers /\ n \in Nat \ {0} /\ closed /\ in[r] = None
  BY SetupIs DEF Written, Open
<1>3. UNCHANGED output /\ UNCHANGED <<getAt, getState, asserted, got>>
  BY DEF Open
<1>4. Buffered(s) /\ s.file = r /\ s.start = 0 /\ s.pos = 0 /\ s.buffer = <<>> /\ s.done = FALSE
  <2> DEFINE z == 0
  <2>1. z \in Nat
    OBVIOUS
  <2>a. r \in Readers /\ n \in Nat \ {0}
    BY <1>2
  <2>2. s = Stream(r, n, z) /\ z = 0
    OBVIOUS
  <2> HIDE DEF s, z
  <2>3. /\ Buffered(Stream(r, n, z)) /\ Stream(r, n, z).file = r /\ Stream(r, n, z).start = z
        /\ Stream(r, n, z).pos = 0 /\ Stream(r, n, z).buffer = <<>> /\ Stream(r, n, z).done = FALSE
    <3>1. /\ Stream(r, n, z).file = r /\ Stream(r, n, z).start = z
          /\ Stream(r, n, z).pos = 0 /\ Stream(r, n, z).buffer = <<>> /\ Stream(r, n, z).done = FALSE
      BY DEF Stream
    <3>2. Buffered(Stream(r, n, z))
      BY <2>a, <2>1, StreamIsNew
    <3> QED
      BY <3>1, <3>2
  <2>4. Buffered(s) /\ s.file = r /\ s.start = z /\ s.pos = 0 /\ s.buffer = <<>> /\ s.done = FALSE
    <3>1. s = Stream(r, n, z)
      BY <2>2
    <3> QED
      BY <2>3, <3>1
  <2> QED
    BY <2>2, <2>4
<1> HIDE DEF s
<1>5. Moves(r, s)
  BY <1>1, <1>2, <1>3, <1>4, BufferedIsSome DEF Moves, s
<1>6. pointerOf(s) = 0 /\ s.start + Len(s.buffer) = 0 /\ Holds(s)
  BY <1>4 DEF pointerOf, Holds
<1>7. getAt' = [getAt EXCEPT ![r] = 0] /\ getState' = [getState EXCEPT ![r] = "good"]
  BY <1>2, <1>3 DEF AllAligned, Aligned, Reading
<1>8. AllAligned'
  BY <1>4, <1>5, <1>6, <1>7, OneAligned
<1>9. Flat!Open(r)
  BY <1>2, <1>3, <1>5, <1>6, FlatOpens
<1> QED
  BY <1>2, <1>3, <1>8, <1>9, FlatNexts

LEMMA ReadBufferFlat ==
  ASSUME Written, Reading, setup.directory = "simple", ~setup.faults, AllAligned, NEW r \in setup.readers,
         NEW n \in Nat \ {0}, ReadBuffer(r, n)
  PROVE  AllAligned' /\ asserted' = asserted /\ Flat!Next
<1> DEFINE u == in[r]
           b == u.buffer
           k == u.pos
           i == k + n
           s == [u EXCEPT !.pos = i]
           bytes == SubSeq(b, k + 1, k + n)
           p == pointerOf(u)
<1>1. r \in Readers /\ closed /\ Buffered(u) /\ disk \in Seq(Byte) /\ Usable(r)
  BY UsableIs DEF ReadBuffer
<1>2. /\ u # None /\ u.file = r /\ u.done = FALSE /\ getAt[r] = u.start + Len(u.buffer) /\ Holds(u)
      /\ getAt = [getAt EXCEPT ![r] = getAt[r]] /\ getState = [getState EXCEPT ![r] = "good"]
  BY <1>1, AlignedIs
<1>3. /\ UNCHANGED output /\ UNCHANGED <<getAt, getState, asserted>> /\ in' = [in EXCEPT ![r] = s]
      /\ n <= Available(u) /\ Returned(r, n, bytes)
  BY DEF ReadBuffer
<1>4. b \in Seq(Byte) /\ k \in Nat /\ Len(b) \in Nat /\ u.start \in Nat /\ p = u.start + k /\ i <= Len(b) /\ i \in Nat
  <2>1. b \in Seq(Byte) /\ k \in Nat /\ Len(b) \in Nat /\ u.start \in Nat /\ p = u.start + k
    BY <1>1, FieldsAre, PositionsAre
  <2>2. Available(u) = Len(b) - k
    BY DEF Available
  <2> HIDE DEF b, k, u
  <2> QED
    BY <1>3, <2>1, <2>2
<1>5. Buffered(s) /\ s.file = u.file /\ s.start = u.start /\ s.pos = i /\ s.buffer = u.buffer /\ s.done = u.done
  <2>1. i \in 0..Len(u.buffer)
    BY <1>4
  <2> HIDE DEF u, i
  <2> QED
    BY <1>1, <2>1, MovedIs
<1> HIDE DEF s
<1>6. Moves(r, s)
  BY <1>1, <1>3, <1>5, BufferedIsSome DEF Moves
<1>7. Holds(s)
  BY <1>2, <1>5 DEF Holds
<1>8. AllAligned'
  BY <1>1, <1>2, <1>3, <1>5, <1>6, <1>7, OneAligned
<1>9. p \in Nat /\ pointerOf(s) = p + n
  BY <1>4, <1>5 DEF pointerOf
<1>10. p + n <= Len(disk) /\ bytes = SubSeq(disk, p + 1, p + n)
  <2>1. \A j \in 1..Len(b) : u.start + j <= Len(disk) /\ b[j] = disk[u.start + j]
    BY <1>2 DEF Holds
  <2> HIDE DEF u, p, b, k
  <2>2. p + n <= Len(disk)
    <3>1. i \in 1..Len(b) /\ u.start + i = p + n
      BY <1>4
    <3> QED
      BY <2>1, <3>1
  <2>3. bytes \in Seq(Byte) /\ Len(bytes) = n /\ \A j \in 1..n : bytes[j] = b[k + j]
    BY <1>4, SliceIs
  <2>4. ASSUME NEW j \in 1..n PROVE bytes[j] = disk[p + j]
    <3>1. k + j \in 1..Len(b) /\ u.start + (k + j) = p + j
      BY <1>4
    <3> QED
      BY <2>1, <2>3, <3>1
  <2> HIDE DEF bytes
  <2> QED
    BY <1>1, <1>9, <2>2, <2>3, <2>4, IsASlice
<1> HIDE DEF bytes
<1>11. Flat!Read(r)
  BY <1>1, <1>2, <1>3, <1>6, <1>9, <1>10, FlatReads
<1> QED
  BY <1>1, <1>3, <1>8, <1>11, FlatNexts

LEMMA SetPositionStays ==
  ASSUME NEW f, getState[f] = "good", NEW p, SetPosition(f, p)
  PROVE  getAt' = [getAt EXCEPT ![f] = p] /\ getState' = [getState EXCEPT ![f] = "good"]
BY DEF SetPosition

LEMMA SeekInputFlat ==
  ASSUME Written, Reading, setup.directory = "simple", ~setup.faults, AllAligned, NEW r \in setup.readers,
         NEW p \in Nat, SeekInput(r, p)
  PROVE  AllAligned' /\ asserted' = asserted /\ Flat!Next
<1> DEFINE u == in[r]
<1>1. r \in Readers /\ closed /\ Buffered(u) /\ disk \in Seq(Byte) /\ Usable(r)
  BY UsableIs DEF SeekInput
<1>2. /\ u # None /\ u.file = r /\ u.done = FALSE /\ getAt[r] = u.start + Len(u.buffer) /\ Holds(u)
      /\ getState[r] = "good" /\ pointerOf(u) \in Nat
      /\ getAt = [getAt EXCEPT ![r] = getAt[r]] /\ getState = [getState EXCEPT ![r] = "good"]
  BY <1>1, AlignedIs
<1>3. UNCHANGED output /\ UNCHANGED asserted
  BY DEF SeekInput
<1>4. CASE InBuffer(u, p)
  <2> DEFINE i == p - u.start
             s == [u EXCEPT !.pos = i]
  <2>1. in' = [in EXCEPT ![r] = s] /\ Returned(r, 0, <<>>) /\ UNCHANGED <<getAt, getState>>
    BY <1>4 DEF SeekInput
  <2>2. i \in 0..Len(u.buffer) /\ u.start \in Nat /\ u.start + i = p
    <3>1. u.start \in Nat /\ Len(u.buffer) \in Nat /\ p >= u.start /\ p < u.start + Len(u.buffer)
      BY <1>1, <1>4, FieldsAre DEF InBuffer
    <3> HIDE DEF u
    <3> QED
      BY <3>1
  <2> HIDE DEF u, i
  <2>3. Buffered(s) /\ s.file = u.file /\ s.start = u.start /\ s.pos = i /\ s.buffer = u.buffer /\ s.done = u.done
    BY <1>1, <2>2, MovedIs
  <2> HIDE DEF s
  <2>4. Moves(r, s)
    <3>1. r \in Readers /\ s # None
      BY <1>1, <2>3, BufferedIsSome
    <3> QED
      BY <1>3, <2>1, <3>1 DEF Moves
  <2>5. Holds(s)
    BY <1>2, <2>3 DEF Holds
  <2>6. AllAligned'
    <3>1. s.file = r /\ getAt[r] = s.start + Len(s.buffer)
      BY <1>2, <2>3
    <3>2. getAt' = [getAt EXCEPT ![r] = getAt[r]] /\ getState' = [getState EXCEPT ![r] = "good"]
      BY <1>2, <2>1
    <3> QED
      BY <2>4, <2>5, <3>1, <3>2, OneAligned
  <2>7. pointerOf(s) = p
    BY <2>2, <2>3 DEF pointerOf
  <2>8. Flat!SeekInput(r)
    BY <1>1, <1>2, <2>1, <2>4, <2>7, FlatSeeks DEF u
  <2> QED
    BY <1>1, <1>3, <2>6, <2>8, FlatNexts
<1>5. CASE ~InBuffer(u, p)
  <2> DEFINE s == [u EXCEPT !.start = p, !.pos = 0, !.buffer = <<>>]
  <2>1. /\ in' = [in EXCEPT ![r] = s] /\ SetPosition(u.file, p)
        /\ Returned(r, 0, IF getState[u.file] = "good" THEN <<>> ELSE EOF)
    BY <1>5 DEF SeekInput
  <2> HIDE DEF u
  <2>2. Returned(r, 0, <<>>)
    BY <1>2, <2>1
  <2>3. getAt' = [getAt EXCEPT ![r] = p] /\ getState' = [getState EXCEPT ![r] = "good"]
    BY <1>2, <2>1, SetPositionStays
  <2>4. Buffered(s) /\ s.file = u.file /\ s.start = p /\ s.pos = 0 /\ s.buffer = <<>> /\ s.done = u.done
    BY <1>1, EmptiedIs
  <2> HIDE DEF s
  <2>5. Moves(r, s)
    BY <1>1, <1>3, <2>1, <2>4, BufferedIsSome DEF Moves
  <2>6. Holds(s) /\ s.start + Len(s.buffer) = p /\ pointerOf(s) = p
    BY <2>4 DEF Holds, pointerOf
  <2>7. AllAligned'
    BY <1>1, <1>2, <2>3, <2>4, <2>5, <2>6, OneAligned
  <2>8. Flat!SeekInput(r)
    BY <1>1, <1>2, <2>2, <2>5, <2>6, FlatSeeks DEF u
  <2> QED
    BY <1>1, <1>3, <2>7, <2>8, FlatNexts
<1> QED
  BY <1>4, <1>5

LEMMA CloseInputFlat ==
  ASSUME Written, Reading, setup.directory = "simple", ~setup.faults, AllAligned, NEW r \in setup.readers,
         CloseInput(r)
  PROVE  AllAligned' /\ asserted' = asserted /\ UNCHANGED Flat!vars
<1> DEFINE u == in[r]
           s == [u EXCEPT !.done = TRUE]
           c == IF u.file = r /\ getState[r] = "good" THEN "closed" ELSE getState[r]
<1>1. r \in Readers /\ closed /\ Buffered(u) /\ Usable(r)
  BY UsableIs DEF CloseInput
<1>2. /\ u # None /\ u.file = r /\ getAt[r] = u.start + Len(u.buffer) /\ Holds(u)
      /\ getAt = [getAt EXCEPT ![r] = getAt[r]]
  BY <1>1, AlignedIs
<1>3. /\ UNCHANGED output /\ UNCHANGED <<getAt, asserted, got>> /\ in' = [in EXCEPT ![r] = s]
      /\ getState' = [getState EXCEPT ![r] = c]
  BY DEF CloseInput
<1> HIDE DEF u, c
<1>4. Buffered(s) /\ s.file = u.file /\ s.start = u.start /\ s.pos = u.pos /\ s.buffer = u.buffer /\ s.done = TRUE
  BY <1>1, DoneIs
<1> HIDE DEF s
<1>5. Moves(r, s)
  BY <1>1, <1>3, <1>4, BufferedIsSome DEF Moves
<1>6. Holds(s) /\ pointerOf(s) = pointerOf(u)
  BY <1>2, <1>4 DEF Holds, pointerOf
<1>7. AllAligned'
  BY <1>1, <1>2, <1>3, <1>4, <1>5, <1>6, OneAligned
<1>8. UNCHANGED Flat!vars
  BY <1>1, <1>2, <1>3, <1>5, <1>6, FlatStays DEF u
<1> QED
  BY <1>3, <1>7, <1>8

LEMMA set_buffer_sizeFlat ==
  ASSUME Written, Reading, setup.directory = "simple", ~setup.faults, AllAligned, NEW r \in setup.readers,
         NEW n \in setup.sizes, set_buffer_size(r, n)
  PROVE  AllAligned' /\ asserted' = asserted /\ UNCHANGED Flat!vars
<1> DEFINE u == in[r]
           keep == IF Available(u) > n THEN n ELSE Available(u)
           t == [u EXCEPT !.size = n, !.start = pointerOf(u), !.pos = 0, !.buffer = SubSeq(Had(u), 1, keep)]
           s == IF u.hasBuffer THEN t ELSE [u EXCEPT !.size = n]
<1>1. r \in Readers /\ closed /\ Buffered(u) /\ Usable(r) /\ disk \in Seq(Byte) /\ n \in Nat \ {0}
  BY UsableIs, SetupIs DEF set_buffer_size, Written
<1>2. /\ u # None /\ u.file = r /\ u.done = FALSE /\ getAt[r] = u.start + Len(u.buffer) /\ Holds(u)
      /\ pointerOf(u) \in Nat /\ pointerOf(u) + Available(u) = getAt[r]
      /\ getAt = [getAt EXCEPT ![r] = getAt[r]] /\ getState = [getState EXCEPT ![r] = "good"]
  BY <1>1, AlignedIs
<1>3. /\ UNCHANGED output /\ UNCHANGED <<getAt, getState, asserted, got>> /\ in' = [in EXCEPT ![r] = s]
      /\ Available(u) <= n
  BY DEF set_buffer_size
<1> HIDE DEF u
<1>4. /\ Buffered(s) /\ s.file = u.file /\ s.done = u.done /\ pointerOf(s) = pointerOf(u)
      /\ s.start + Len(s.buffer) = getAt[r] /\ Holds(s)
  <2>1. CASE u.hasBuffer
    <3>1. s = t
      BY <2>1
    <3> DEFINE a == Available(u)
    <3>2. keep = a /\ a \in Nat
      BY <1>1, <1>3, PositionsAre
    <3>3. /\ Buffered(t) /\ t.file = u.file /\ t.start = pointerOf(u) /\ t.pos = 0 /\ t.done = u.done
          /\ Len(t.buffer) = keep /\ \A i \in 1..keep : t.buffer[i] = Had(u)[i]
      BY <1>1, <2>1, ResizedIs
    <3> HIDE DEF t, keep, s
    <3>4. pointerOf(t) = pointerOf(u) /\ t.start + Len(t.buffer) = getAt[r]
      BY <1>2, <3>2, <3>3 DEF pointerOf
    <3>5. Holds(t)
      <4>1. ASSUME NEW i \in 1..a PROVE t.start + i <= Len(disk) /\ t.buffer[i] = disk[t.start + i]
        <5>1. pointerOf(u) + i <= Len(disk) /\ Had(u)[i] = disk[pointerOf(u) + i]
          BY <1>1, <1>2, HadIs
        <5> QED
          BY <3>2, <3>3, <5>1
      <4> QED
        BY <3>2, <3>3, <4>1 DEF Holds
    <3> QED
      BY <3>1, <3>3, <3>4, <3>5
  <2>2. CASE ~u.hasBuffer
    <3> DEFINE v == [u EXCEPT !.size = n]
    <3>1. s = v
      BY <2>2
    <3>2. Len(u.buffer) <= n
      BY <1>1, <2>2, FieldsAre
    <3>3. Buffered(v) /\ v.file = u.file /\ v.start = u.start /\ v.pos = u.pos
          /\ v.buffer = u.buffer /\ v.done = u.done
      BY <1>1, <3>2, SizedIs
    <3> HIDE DEF v, s
    <3> QED
      BY <1>2, <3>1, <3>3 DEF Holds, pointerOf
  <2> QED
    BY <2>1, <2>2
<1> HIDE DEF s
<1>5. Moves(r, s)
  BY <1>1, <1>3, <1>4, BufferedIsSome DEF Moves
<1>6. AllAligned'
  BY <1>1, <1>2, <1>3, <1>4, <1>5, OneAligned
<1>7. UNCHANGED Flat!vars
  BY <1>1, <1>2, <1>3, <1>4, <1>5, FlatStays DEF u
<1> QED
  BY <1>3, <1>6, <1>7

\* The bytes of the file behind a position.
Behind(part, p) == \A i \in 1..Len(part) : part[i] = disk[p + i]

\* The bytes a read gets: those in the buffer, and those behind them in the file.
LEMMA BothAre ==
  ASSUME NEW s, Buffered(s), Holds(s), disk \in Seq(Byte), NEW part \in Seq(Byte),
         pointerOf(s) + Available(s) + Len(part) <= Len(disk), Behind(part, pointerOf(s) + Available(s))
  PROVE  Had(s) \o part = SubSeq(disk, pointerOf(s) + 1, pointerOf(s) + (Available(s) + Len(part)))
<1> DEFINE had == Had(s)
           both == had \o part
           p == pointerOf(s)
           a == Available(s)
           m == Len(part)
<1>1. had \in Seq(Byte) /\ Len(had) = a /\ a \in Nat /\ p \in Nat /\ Len(disk) \in Nat /\ m \in Nat /\ m = Len(part)
  BY PositionsAre
<1>2. \A i \in 1..a : had[i] = disk[p + i]
  BY HadIs
<1>3. p + a + m <= Len(disk) /\ \A i \in 1..m : part[i] = disk[p + a + i]
  BY DEF Behind
<1> HIDE DEF had, p, a, m
<1>4. /\ both \in Seq(Byte) /\ Len(both) = a + m
      /\ \A i \in 1..(a + m) : both[i] = IF i <= a THEN had[i] ELSE part[i - a]
  <2>1. /\ both \in Seq(Byte) /\ Len(both) = Len(had) + Len(part)
        /\ \A i \in 1..(Len(had) + Len(part)) : both[i] = IF i <= Len(had) THEN had[i] ELSE part[i - Len(had)]
    BY <1>1, ConcatProperties
  <2> HIDE DEF both
  <2> QED
    BY <1>1, <2>1
<1> HIDE DEF both
<1>5. ASSUME NEW i \in 1..(a + m) PROVE both[i] = disk[p + i]
  <2>1. CASE i <= a
    <3>1. i \in 1..a
      BY <1>1, <2>1
    <3> QED
      BY <1>2, <1>4, <2>1, <3>1
  <2>2. CASE ~(i <= a)
    <3>1. i - a \in 1..m /\ p + a + (i - a) = p + i
      BY <1>1, <2>2
    <3>2. both[i] = part[i - a]
      BY <1>4, <2>2
    <3> QED
      BY <1>3, <3>1, <3>2
  <2> QED
    BY <2>1, <2>2
<1>6. a + m \in Nat /\ p + (a + m) <= Len(disk)
  BY <1>1, <1>3
<1>7. both = SubSeq(disk, p + 1, p + (a + m))
  BY <1>1, <1>4, <1>5, <1>6, IsASlice
<1> QED
  BY <1>7 DEF both, had, p, a, m

LEMMA ReadDirectFlat ==
  ASSUME Written, Reading, setup.directory = "simple", ~setup.faults, AllAligned, NEW r \in setup.readers,
         NEW n \in Nat \ {0}, ReadDirect(r, n)
  PROVE  AllAligned' /\ asserted' = asserted /\ Flat!Next
<1> DEFINE u == in[r]
           a == Available(u)
           from == From(u, FALSE)
           k == Asked(u, n, FALSE)
           to == from + k
           part == SubSeq(disk, from + 1, to)
           p == pointerOf(u)
           s == [u EXCEPT !.start = p + n, !.pos = 0, !.buffer = <<>>]
           bytes == Had(u) \o part
<1>1. r \in Readers /\ closed /\ Buffered(u) /\ disk \in Seq(Byte) /\ Usable(r) /\ n > a
  BY UsableIs DEF ReadDirect, Reads
<1>2. /\ u # None /\ u.file = r /\ u.done = FALSE /\ Holds(u) /\ p \in Nat /\ p + a = getAt[r]
      /\ from = getAt[r] /\ getState = [getState EXCEPT ![r] = "good"]
  BY <1>1, AlignedIs
<1>3. /\ UNCHANGED output /\ UNCHANGED getState /\ in' = [in EXCEPT ![r] = s]
      /\ ReadInternal(u, n, FALSE) /\ to <= Len(disk) /\ getAt' = [getAt EXCEPT ![u.file] = to]
      /\ Returned(r, n, bytes)
  BY DEF ReadDirect
<1>4. pointerOf(Drained(u)) = p + a /\ a \in Nat /\ k = n - a
  BY <1>1, PositionsAre, AskedIs
<1>5. asserted' = (asserted /\ from = p + a)
  BY <1>3, <1>4 DEF ReadInternal
<1>6. asserted' = asserted
  <2>1. asserted \in BOOLEAN
    BY DEF Reading
  <2> QED
    BY <1>2, <1>5, <2>1
<1>7. to = p + n /\ p + n \in Nat /\ from = p + a /\ from \in Nat
  <2> HIDE DEF p, a, from, k
  <2> QED
    BY <1>1, <1>2, <1>4
<1>8. Buffered(s) /\ s.file = u.file /\ s.start = p + n /\ s.pos = 0 /\ s.buffer = <<>> /\ s.done = u.done
  <2> HIDE DEF u, p
  <2> QED
    BY <1>1, <1>7, EmptiedIs
<1> HIDE DEF s
<1>9. Moves(r, s)
  BY <1>1, <1>3, <1>8, BufferedIsSome DEF Moves
<1>10. Holds(s) /\ s.start + Len(s.buffer) = to /\ pointerOf(s) = p + n
  <2>1. Len(s.buffer) = 0
    BY <1>8
  <2>2. Holds(s)
    BY <2>1 DEF Holds
  <2> HIDE DEF p, to
  <2> QED
    BY <1>7, <1>8, <2>1, <2>2 DEF pointerOf
<1>11. AllAligned'
  BY <1>1, <1>2, <1>3, <1>8, <1>9, <1>10, OneAligned
<1>12. bytes = SubSeq(disk, p + 1, p + n)
  <2> DEFINE m == n - a
  <2> HIDE DEF p, a, from, k, u
  <2>1. m \in Nat /\ a + m = n /\ from + m = to /\ from + m <= Len(disk) /\ p + a + m <= Len(disk)
    BY <1>1, <1>2, <1>3, <1>4, <1>7
  <2> HIDE DEF m, to
  <2>s. part = SubSeq(disk, from + 1, from + m)
    BY <2>1
  <2> HIDE DEF part
  <2>2. /\ part \in Seq(Byte) /\ Len(part) = m
        /\ \A i \in 1..m : part[i] = disk[from + i]
    <3>1. /\ SubSeq(disk, from + 1, from + m) \in Seq(Byte) /\ Len(SubSeq(disk, from + 1, from + m)) = m
          /\ \A i \in 1..m : SubSeq(disk, from + 1, from + m)[i] = disk[from + i]
      BY <1>1, <1>7, <2>1, SliceIs
    <3> QED
      BY <2>s, <3>1
  <2>3. Had(u) \o part = SubSeq(disk, p + 1, p + (a + m))
    <3>1. Behind(part, p + a)
      BY <1>7, <2>2 DEF Behind
    <3>2. Buffered(u) /\ Holds(u) /\ part \in Seq(Byte) /\ p + a + Len(part) <= Len(disk)
      BY <1>1, <1>2, <2>1, <2>2
    <3>3. Had(u) \o part = SubSeq(disk, p + 1, p + (a + Len(part)))
      BY <1>1, <3>1, <3>2, BothAre DEF p, a
    <3> QED
      BY <2>2, <3>3
  <2> QED
    BY <2>1, <2>3
<1> HIDE DEF bytes, to
<1>13. Flat!Read(r)
  BY <1>1, <1>2, <1>3, <1>7, <1>9, <1>10, <1>12, FlatReads
<1> QED
  BY <1>1, <1>6, <1>11, <1>13, FlatNexts

\* A stream that has less than it was asked for is at the end of the file then.
LEMMA FillsUp ==
  ASSUME NEW s, Buffered(s), disk \in Seq(Byte), NEW n \in Nat, n > Available(s), ~PastEnd(s, n, TRUE),
         n - Available(s) < s.size \/ n = 1,
         Asked(s, n, TRUE) < n - Available(s)
  PROVE  pointerOf(s) + n > Len(disk)
<1> DEFINE a == Available(s)
           p == pointerOf(s)
           q == pointerOf(Drained(s))
           k == Asked(s, n, TRUE)
           size == s.size
<1>1. a \in Nat /\ p \in Nat /\ q = p + a /\ Len(disk) \in Nat /\ size \in Nat
  BY PositionsAre, FieldsAre
<1>2. k \in Int /\ k > 0 /\ k <= size /\ (k = size \/ q + k = Len(disk))
  BY AskedIs
<1>3. n > a /\ (n - a < size \/ n = 1) /\ k < n - a
  OBVIOUS
<1> HIDE DEF a, p, q, k, size
<1>4. p + n > Len(disk)
  BY <1>1, <1>2, <1>3
<1> QED
  BY <1>4 DEF p

LEMMA RefillFlat ==
  ASSUME Written, Reading, setup.directory = "simple", ~setup.faults, AllAligned, NEW r \in setup.readers,
         NEW n \in Nat \ {0}, Refill(r, n)
  PROVE  AllAligned' /\ asserted' = asserted /\ Flat!Next
<1> DEFINE u == in[r]
           a == Available(u)
           rest == n - a
           from == From(u, TRUE)
           k == Asked(u, n, TRUE)
           to == from + k
           bytes == SubSeq(disk, from + 1, to)
           p == pointerOf(u)
           q == pointerOf(Drained(u))
           i == IF Len(bytes) < rest THEN 0 ELSE rest
           s == Fill(u, bytes, q, i)
           answer == Answer(Had(u), rest, bytes)
<1>1. r \in Readers /\ closed /\ Buffered(u) /\ disk \in Seq(Byte) /\ Usable(r) /\ n > a /\ (rest < u.size \/ n = 1)
  BY UsableIs DEF Refill, Reads
<1>2. /\ u # None /\ u.file = r /\ u.done = FALSE /\ Holds(u) /\ p \in Nat /\ p + a = getAt[r]
      /\ from = getAt[r] /\ getState = [getState EXCEPT ![r] = "good"]
  BY <1>1, AlignedIs
<1>3. /\ UNCHANGED output /\ UNCHANGED getState /\ in' = [in EXCEPT ![r] = s]
      /\ ReadInternal(u, n, TRUE) /\ to <= Len(disk) /\ getAt' = [getAt EXCEPT ![u.file] = to]
      /\ Returned(r, n, answer)
  BY DEF Refill, Fill
<1>4. q = p + a /\ a \in Nat /\ k \in Int /\ k > 0 /\ k <= u.size /\ ~PastEnd(u, n, TRUE)
  BY <1>1, <1>3, PositionsAre, AskedIs DEF ReadInternal
<1>5. asserted' = (asserted /\ from = q)
  BY <1>3 DEF ReadInternal
<1>6. asserted' = asserted
  <2>1. asserted \in BOOLEAN
    BY DEF Reading
  <2> QED
    BY <1>2, <1>4, <1>5, <2>1
<1>short. k < rest => p + n > Len(disk)
  BY <1>1, <1>4, FillsUp
<1> HIDE DEF u, a, from, k, p, q
<1>7. from = q /\ q \in Nat /\ k \in Nat /\ to = q + k /\ to \in Nat /\ q + k <= Len(disk) /\ rest \in Nat /\ rest > 0
  BY <1>1, <1>2, <1>3, <1>4
<1>8. bytes \in Seq(Byte) /\ Len(bytes) = k /\ \A j \in 1..k : bytes[j] = disk[q + j]
  <2>1. bytes = SubSeq(disk, q + 1, q + k)
    BY <1>7
  <2>2. disk \in Seq(Byte)
    BY <1>1
  <2>3. /\ SubSeq(disk, q + 1, q + k) \in Seq(Byte) /\ Len(SubSeq(disk, q + 1, q + k)) = k
        /\ \A j \in 1..k : SubSeq(disk, q + 1, q + k)[j] = disk[q + j]
    BY <1>7, <2>2, SliceIs
  <2> HIDE DEF bytes
  <2> QED
    BY <2>1, <2>3
<1> HIDE DEF bytes, to
<1>9. i \in 0..Len(bytes) /\ i = IF k < rest THEN 0 ELSE rest
  <2> HIDE DEF rest
  <2> QED
    BY <1>7, <1>8
<1> HIDE DEF i
<1>10. Buffered(s) /\ s.file = u.file /\ s.start = q /\ s.pos = i /\ s.buffer = bytes /\ s.done = u.done
  <2>1. Len(bytes) <= u.size
    BY <1>4, <1>8
  <2> QED
    BY <1>1, <1>7, <1>8, <1>9, <2>1, FilledIs
<1> HIDE DEF s
<1>11. Moves(r, s)
  BY <1>1, <1>3, <1>10, BufferedIsSome DEF Moves
<1>12. Holds(s)
  <2>1. ASSUME NEW j \in 1..k PROVE q + j <= Len(disk) /\ bytes[j] = disk[q + j]
    <3>1. Len(disk) \in Nat
      BY <1>1
    <3> QED
      BY <1>7, <1>8, <3>1
  <2> QED
    BY <1>8, <1>10, <2>1 DEF Holds
<1>13. s.start + Len(s.buffer) = to /\ pointerOf(s) = q + i
  BY <1>7, <1>8, <1>10 DEF pointerOf
<1>14. AllAligned'
  BY <1>1, <1>2, <1>3, <1>10, <1>11, <1>12, <1>13, OneAligned
<1>15. CASE k < rest
  <2>1. answer = EOF
    BY <1>8, <1>15 DEF answer, Answer
  <2>2. p + n > Len(disk)
    BY <1>15, <1>short
  <2>3. pointerOf(s) = q /\ q \in {p} \cup p..Len(disk)
    <3>1. Len(disk) \in Nat
      BY <1>1
    <3> QED
      BY <1>2, <1>4, <1>7, <1>9, <1>13, <1>15, <3>1
  <2>4. Flat!ReadPastEnd(r)
    BY <1>1, <1>2, <1>3, <1>11, <2>1, <2>2, <2>3, FlatPasses DEF u, p
  <2> QED
    BY <1>1, <1>6, <1>14, <2>4, FlatNexts
<1>16. CASE ~(k < rest)
  <2> DEFINE part == SubSeq(bytes, 1, rest)
  <2>1. answer = Had(u) \o part
    BY <1>8, <1>16 DEF answer, Answer
  <2>2. a + rest = n
    BY <1>1, <1>4
  <2> HIDE DEF rest
  <2>3. part \in Seq(Byte) /\ Len(part) = rest /\ \A j \in 1..rest : part[j] = bytes[j]
    BY <1>7, <1>8, <1>16
  <2> HIDE DEF part
  <2>4. Behind(part, p + a)
    <3>1. ASSUME NEW j \in 1..rest PROVE part[j] = disk[p + a + j]
      <4>1. j \in 1..k
        BY <1>7, <1>16
      <4> QED
        BY <1>4, <1>8, <2>3, <4>1
    <3> QED
      BY <2>3, <3>1 DEF Behind
  <2>5. p + a + rest <= Len(disk) /\ pointerOf(s) = p + n /\ p + n <= Len(disk)
    <3>1. Len(disk) \in Nat
      BY <1>1
    <3> QED
      BY <1>1, <1>2, <1>4, <1>7, <1>9, <1>13, <1>16, <2>2, <3>1
  <2>6. Had(u) \o part = SubSeq(disk, p + 1, p + (a + rest))
    <3>1. Buffered(u) /\ Holds(u) /\ disk \in Seq(Byte) /\ part \in Seq(Byte) /\ p + a + Len(part) <= Len(disk)
      BY <1>1, <1>2, <2>3, <2>5
    <3>2. Had(u) \o part = SubSeq(disk, p + 1, p + (a + Len(part)))
      BY <2>4, <3>1, BothAre DEF p, a
    <3> QED
      BY <2>3, <3>2
  <2>7. answer = SubSeq(disk, p + 1, p + n)
    BY <2>1, <2>2, <2>6
  <2> HIDE DEF answer
  <2>8. Flat!Read(r)
    BY <1>1, <1>2, <1>3, <1>11, <2>5, <2>7, FlatReads DEF u, p
  <2> QED
    BY <1>1, <1>6, <1>14, <2>8, FlatNexts
<1> QED
  BY <1>15, <1>16

LEMMA ReadPastEndFlat ==
  ASSUME Written, Reading, setup.directory = "simple", ~setup.faults, AllAligned, NEW r \in setup.readers,
         NEW n \in Nat \ {0}, NEW refill \in BOOLEAN, ReadPastEnd(r, n, refill)
  PROVE  AllAligned' /\ asserted' = asserted /\ Flat!Next
<1> DEFINE u == in[r]
           a == Available(u)
           p == pointerOf(u)
           q == pointerOf(Drained(u))
           s == Drained(u)
<1>1. r \in Readers /\ closed /\ Buffered(u) /\ disk \in Seq(Byte) /\ Usable(r) /\ n > a /\ PastEnd(u, n, refill)
  BY UsableIs DEF ReadPastEnd, Reads
<1>2. /\ u # None /\ u.file = r /\ u.done = FALSE /\ getAt[r] = u.start + Len(u.buffer) /\ Holds(u) /\ p \in Nat
      /\ p + a = getAt[r] /\ getAt = [getAt EXCEPT ![r] = getAt[r]] /\ getState = [getState EXCEPT ![r] = "good"]
  BY <1>1, AlignedIs
<1>3. /\ UNCHANGED output /\ UNCHANGED <<getAt, getState, asserted>> /\ in' = [in EXCEPT ![r] = s]
      /\ Returned(r, n, EOF)
  BY DEF ReadPastEnd
<1>4. q = p + a /\ a \in Nat /\ q + (n - a) > Len(disk) /\ Len(disk) \in Nat
  BY <1>1, PositionsAre, AskedIs
<1>5. Buffered(s) /\ s.file = u.file /\ s.start = u.start /\ s.buffer = u.buffer /\ s.done = u.done
  BY <1>1, DrainedIs
<1>6. Moves(r, s)
  BY <1>1, <1>3, <1>5, BufferedIsSome DEF Moves
<1>7. Holds(s)
  BY <1>2, <1>5 DEF Holds
<1>8. AllAligned'
  <2> HIDE DEF s
  <2> QED
    BY <1>1, <1>2, <1>3, <1>5, <1>6, <1>7, OneAligned
<1>9. p + n > Len(disk)
  <2> HIDE DEF p, q, a
  <2> QED
    BY <1>1, <1>2, <1>4
<1>10. q \in {p} \cup p..Len(disk)
  <2>1. CASE a = 0
    <3> HIDE DEF p, q, a
    <3> QED
      BY <1>2, <1>4, <2>1
  <2>2. CASE a # 0
    <3>1. a \in 1..a
      BY <1>4, <2>2
    <3>2. p + a <= Len(disk)
      BY <1>1, <1>2, <3>1, HadIs
    <3> HIDE DEF p, q, a
    <3> QED
      BY <1>2, <1>4, <3>2
  <2> QED
    BY <2>1, <2>2
<1>11. Flat!ReadPastEnd(r)
  <2>1. q = pointerOf(s)
    OBVIOUS
  <2> HIDE DEF s, q
  <2> QED
    BY <1>1, <1>2, <1>3, <1>6, <1>9, <1>10, <2>1, FlatPasses
<1> QED
  BY <1>1, <1>3, <1>8, <1>11, FlatNexts

\* Without faults the InputFile does not end before the stream does, is good, and
\* does not fail.
LEMMA NothingFails ==
  ASSUME Written, Reading, setup.directory = "simple", ~setup.faults, AllAligned, NEW r \in setup.readers,
         NEW n \in Nat \ {0}, NEW refill \in BOOLEAN
  PROVE  ~ReadShort(r, n, refill) /\ ~ReadFails(r, n, refill) /\ ~ReadHangs(r, n, refill)
<1> DEFINE u == in[r]
           s == Drained(u)
<1> SUFFICES ASSUME Reads(r, n, refill)
             PROVE  ~ReadShort(r, n, refill) /\ ~ReadFails(r, n, refill) /\ ~ReadHangs(r, n, refill)
  BY DEF ReadShort, ReadFails, ReadHangs
<1>1. r \in Readers /\ Buffered(u) /\ disk \in Seq(Byte) /\ Usable(r) /\ n > Available(u)
  BY UsableIs DEF Reads
<1>2. u.file = r /\ getState[r] = "good" /\ From(u, refill) = getAt[r] /\ pointerOf(u) + Available(u) = getAt[r]
  BY <1>1, AlignedIs
<1>3. s.file = r /\ getState[s.file] = "good"
  BY <1>1, <1>2, DrainedIs
<1>4. ~PastEnd(u, n, refill) => ~(From(u, refill) + Asked(u, n, refill) > Len(disk))
  <2>1. pointerOf(Drained(u)) = getAt[r]
    BY <1>1, <1>2, PositionsAre
  <2> DEFINE f == From(u, refill)
             k == Asked(u, n, refill)
             past == PastEnd(u, n, refill)
  <2>2. ~past => f + k <= Len(disk)
    BY <1>1, <1>2, <2>1, AskedIs
  <2>3. f \in Nat /\ k \in Int /\ Len(disk) \in Nat
    BY <1>1, AskedIs, FromIs
  <2> HIDE DEF f, k, past
  <2>4. ~past => ~(f + k > Len(disk))
    BY <2>2, <2>3
  <2> QED
    BY <2>4 DEF f, k, past
<1>5. ~ReadShort(r, n, refill)
  BY <1>3, <1>4 DEF ReadShort, ReadInternal
<1>6. ~ReadFails(r, n, refill)
  BY <1>3 DEF ReadFails
<1>7. ~ReadHangs(r, n, refill)
  BY <1>3 DEF ReadHangs
<1> QED
  BY <1>5, <1>6, <1>7

-----------------------------------------------------------------------------
(* Each step of an input stream of MMapDirectory *)

LEMMA OpenMapFlat ==
  ASSUME Written, Reading, setup.directory = "mmap", ~setup.faults, NEW r \in setup.readers, OpenMap(r)
  PROVE  asserted' = asserted /\ Flat!Next
<1> DEFINE s == MapStream(r, Len(disk), 0)
<1>1. r \in Readers /\ Len(disk) \in Nat /\ closed /\ in[r] = None
  BY SetupIs DEF Written, OpenMap
<1>2. in' = [in EXCEPT ![r] = s] /\ UNCHANGED output /\ UNCHANGED <<asserted, got>>
  BY DEF OpenMap
<1>3. s \in MapStreams /\ s.start = 0 /\ s.pos = 0
  BY <1>1, MapStreamIs
<1> HIDE DEF s
<1>4. Moves(r, s) /\ pointerOf(s) = 0
  BY <1>1, <1>2, <1>3, MapNoneAssumption DEF Moves, pointerOf
<1> QED
  BY <1>1, <1>2, <1>4, FlatOpens, FlatNexts

LEMMA CloneMapFlat ==
  ASSUME Written, Reading, setup.directory = "mmap", ~setup.faults, NEW r \in setup.readers, NEW q \in setup.readers,
         CloneMap(r, q)
  PROVE  asserted' = asserted /\ Flat!Next
<1> DEFINE s == MapStream(in[r].file, in[r].length, in[r].pos)
<1>1. /\ r \in Readers /\ q \in Readers /\ closed /\ in[r] # None /\ in[q] = None /\ in[r].file \in Readers
      /\ in[r].length \in Nat /\ in[r].pos \in Nat /\ in[r].start = 0
  BY SetupIs, MappedIs DEF Written, CloneMap, IsMapped, Usable
<1>2. in' = [in EXCEPT ![q] = s] /\ UNCHANGED output /\ UNCHANGED <<asserted, got>>
  BY DEF CloneMap
<1>3. s \in MapStreams /\ s.start = 0 /\ s.pos = in[r].pos
  BY <1>1, MapStreamIs
<1> HIDE DEF s
<1>4. Moves(q, s) /\ pointerOf(s) = pointerOf(in[r]) /\ pointerOf(s) \in Nat
  BY <1>1, <1>2, <1>3, MapNoneAssumption DEF Moves, pointerOf
<1>5. Flat!Clone(r, q)
  BY <1>1, <1>2, <1>4, FlatClones
<1> QED
  BY <1>1, <1>2, <1>5, FlatNexts

LEMMA ReadMapFlat ==
  ASSUME Written, Reading, setup.directory = "mmap", ~setup.faults, NEW r \in setup.readers, NEW n \in Nat \ {0},
         ReadMap(r, n)
  PROVE  asserted' = asserted /\ Flat!Next
<1> DEFINE k == in[r].pos
           i == k + n
           s == [in[r] EXCEPT !.pos = i]
           bytes == SubSeq(disk, k + 1, i)
<1>1. /\ r \in Readers /\ closed /\ in[r] # None /\ in[r] \in MapStreams /\ in[r].start = 0
      /\ k \in Nat /\ in[r].length \in Nat /\ in[r].length <= Len(disk) /\ Len(disk) \in Nat /\ i <= in[r].length
  BY MappedIs DEF ReadMap, IsMapped, Usable
<1>2. in' = [in EXCEPT ![r] = s] /\ Returned(r, n, bytes) /\ UNCHANGED output /\ UNCHANGED asserted
  BY DEF ReadMap
<1>3. pointerOf(in[r]) = k
  BY <1>1 DEF pointerOf
<1> HIDE DEF k
<1>4. i \in Nat /\ k + n <= Len(disk) /\ i = k + n
  BY <1>1
<1>5. bytes = SubSeq(disk, k + 1, k + n)
  OBVIOUS
<1> HIDE DEF i, bytes
<1>6. s \in MapStreams /\ s.start = 0 /\ s.pos = i
  BY <1>1, <1>4, MapMovedIs
<1> HIDE DEF s
<1>7. Moves(r, s) /\ pointerOf(s) = k + n
  BY <1>1, <1>2, <1>4, <1>6, MapNoneAssumption DEF Moves, pointerOf
<1>8. Flat!Read(r)
  BY <1>1, <1>2, <1>3, <1>4, <1>5, <1>7, FlatReads
<1> QED
  BY <1>1, <1>2, <1>8, FlatNexts

LEMMA SeekMapFlat ==
  ASSUME Written, Reading, setup.directory = "mmap", ~setup.faults, NEW r \in setup.readers, NEW p \in Nat,
         SeekMap(r, p)
  PROVE  asserted' = asserted /\ Flat!Next
<1> DEFINE s == [in[r] EXCEPT !.pos = p]
<1>1. /\ r \in Readers /\ closed /\ in[r] # None /\ in[r] \in MapStreams /\ in[r].start = 0 /\ in[r].pos \in Nat
  BY MappedIs DEF SeekMap, Usable
<1>2. in' = [in EXCEPT ![r] = s] /\ Returned(r, 0, <<>>) /\ UNCHANGED output /\ UNCHANGED asserted
  BY DEF SeekMap
<1>3. s \in MapStreams /\ s.start = 0 /\ s.pos = p
  BY <1>1, MapMovedIs
<1> HIDE DEF s
<1>4. Moves(r, s) /\ pointerOf(s) = p /\ pointerOf(in[r]) \in Nat
  BY <1>1, <1>2, <1>3, MapNoneAssumption DEF Moves, pointerOf
<1>5. Flat!SeekInput(r)
  BY <1>1, <1>2, <1>4, FlatSeeks
<1> QED
  BY <1>1, <1>2, <1>5, FlatNexts

LEMMA CloseMapFlat ==
  ASSUME Written, Reading, setup.directory = "mmap", ~setup.faults, NEW r \in setup.readers, CloseMap(r)
  PROVE  asserted' = asserted /\ Flat!Next
<1> DEFINE s == [in[r] EXCEPT !.done = TRUE, !.length = 0, !.pos = 0]
<1>1. /\ r \in Readers /\ closed /\ in[r] # None /\ in[r] \in MapStreams /\ in[r].start = 0 /\ in[r].pos \in Nat
  BY MappedIs DEF CloseMap, Usable
<1>2. DOMAIN in = Readers
  BY DEF Reading
<1>3. in' = [in EXCEPT ![r] = s] /\ Returned(r, 0, <<>>) /\ UNCHANGED output /\ UNCHANGED asserted
  BY <1>1, <1>2 DEF CloseMap
<1>4. s \in MapStreams /\ s.start = 0 /\ s.pos = 0
  BY <1>1, MapClosedIs
<1> HIDE DEF s
<1>5. Moves(r, s) /\ 0 = pointerOf(s) /\ 0 \in Nat /\ pointerOf(in[r]) \in Nat
  BY <1>1, <1>3, <1>4, MapNoneAssumption DEF Moves, pointerOf
<1>6. Flat!SeekInput(r)
  BY <1>1, <1>3, <1>5, FlatSeeks
<1> QED
  BY <1>1, <1>3, <1>6, FlatNexts

-----------------------------------------------------------------------------
(* The refinement *)

LEMMA InputFlat ==
  ASSUME Written, Reading, setup.directory = "simple", ~setup.faults, AllAligned, Input
  PROVE  AllAligned' /\ asserted' = asserted /\ [Flat!Next]_(Flat!vars)
<1> DEFINE Good == AllAligned' /\ asserted' = asserted /\ [Flat!Next]_(Flat!vars)
<1>1. PICK r \in setup.readers :
        \/ Open(r) \/ CloseInput(r)
        \/ \E s \in setup.readers : Clone(r, s)
        \/ \E n \in 1..setup.maxLength : ReadBuffer(r, n) \/ Refill(r, n) \/ ReadDirect(r, n)
        \/ \E n \in 1..setup.maxLength, refill \in BOOLEAN :
             \/ ReadPastEnd(r, n, refill) \/ ReadShort(r, n, refill)
             \/ ReadFails(r, n, refill) \/ ReadHangs(r, n, refill)
        \/ \E p \in 0..setup.maxLength : SeekInput(r, p)
        \/ \E n \in setup.sizes : set_buffer_size(r, n)
  BY DEF Input
<1>2. (1..setup.maxLength) \subseteq Nat \ {0} /\ (0..setup.maxLength) \subseteq Nat
  BY SetupIs DEF Written
<1>3. Open(r) \/ CloseInput(r) => Good
  BY OpenFlat, CloseInputFlat
<1>4. ASSUME NEW s \in setup.readers PROVE ~Clone(r, s)
  BY DEF Clone
<1>5. ASSUME NEW n \in 1..setup.maxLength, ReadBuffer(r, n) \/ Refill(r, n) \/ ReadDirect(r, n) PROVE Good
  BY <1>2, <1>5, ReadBufferFlat, RefillFlat, ReadDirectFlat
<1>6. ASSUME NEW n \in 1..setup.maxLength, NEW refill \in BOOLEAN,
             \/ ReadPastEnd(r, n, refill) \/ ReadShort(r, n, refill)
             \/ ReadFails(r, n, refill) \/ ReadHangs(r, n, refill)
      PROVE  Good
  <2>1. n \in Nat \ {0}
    BY <1>2
  <2>2. ReadPastEnd(r, n, refill)
    BY <1>6, <2>1, NothingFails
  <2> QED
    BY <2>1, <2>2, ReadPastEndFlat
<1>7. ASSUME NEW p \in 0..setup.maxLength, SeekInput(r, p) PROVE Good
  BY <1>2, <1>7, SeekInputFlat
<1>8. ASSUME NEW n \in setup.sizes, set_buffer_size(r, n) PROVE Good
  BY <1>8, set_buffer_sizeFlat
<1> HIDE DEF Good
<1>9. Good
  BY <1>1, <1>3, <1>4, <1>5, <1>6, <1>7, <1>8
<1> QED
  BY <1>9 DEF Good

LEMMA MapInputFlat ==
  ASSUME Written, Reading, setup.directory = "mmap", ~setup.faults, MapInput
  PROVE  asserted' = asserted /\ Flat!Next
<1>1. (1..setup.maxLength) \subseteq Nat \ {0} /\ (0..setup.maxLength) \subseteq Nat
  BY SetupIs DEF Written
<1> DEFINE Good == asserted' = asserted /\ Flat!Next
<1>2. ASSUME NEW r \in setup.readers, OpenMap(r) \/ CloseMap(r) PROVE Good
  BY <1>2, OpenMapFlat, CloseMapFlat
<1>3. ASSUME NEW r \in setup.readers, NEW s \in setup.readers, CloneMap(r, s) PROVE Good
  BY <1>3, CloneMapFlat
<1>4. ASSUME NEW r \in setup.readers, NEW n \in 1..setup.maxLength, ReadMap(r, n) PROVE Good
  BY <1>1, <1>4, ReadMapFlat
<1>5. ASSUME NEW r \in setup.readers, NEW p \in 0..setup.maxLength, SeekMap(r, p) PROVE Good
  BY <1>1, <1>5, SeekMapFlat
<1> HIDE DEF Good
<1>6. Good
  BY <1>2, <1>3, <1>4, <1>5 DEF MapInput
<1> QED
  BY <1>6 DEF Good

LEMMA OutputFlat ==
  ASSUME Written, Reading, ~setup.faults, Output
  PROVE  /\ [Flat!Next]_(Flat!vars) /\ asserted' = asserted
         /\ AllAligned => AllAligned'
<1>1. /\ Written' /\ ~closed /\ UNCHANGED <<setup, in, getAt, getState, asserted, got>>
      /\ Goes \/ \E bs \in Seq(Byte) : Adds(bs)
  BY OutputSteps
<1>2. good /\ good'
  BY <1>1 DEF Written
<1>3. [Flat!Next]_(Flat!vars)
  <2>1. CASE Goes
    BY <1>1, <1>2, <2>1, FlatGoes DEF Flat!Next
  <2>2. ASSUME NEW bs \in Seq(Byte), Adds(bs) PROVE [Flat!Next]_(Flat!vars)
    BY <1>1, <1>2, <2>2, FlatAdds
  <2> QED
    BY <1>1, <2>1, <2>2
<1>4. AllAligned => AllAligned'
  <2>1. \A r \in Readers : in[r] = None /\ in'[r] = None
    BY <1>1 DEF Reading, Opened
  <2> QED
    BY <1>1, <2>1 DEF AllAligned, Aligned
<1> QED
  BY <1>1, <1>3, <1>4

\* One step of the streams is one of the flat file, or none.
LEMMA StreamsStep ==
  ASSUME Written, Reading, InStep, [StreamNext]_vars
  PROVE  InStep' /\ (setup.faults \/ [Flat!Next]_(Flat!vars))
<1>1. setup' = setup
  <2>1. CASE Output
    BY <2>1, OutputSteps
  <2>2. CASE Input \/ MapInput
    BY <2>2, InputLeaves DEF output
  <2> QED
    BY <2>1, <2>2 DEF StreamNext, Next, vars, output
<1>2. CASE setup.faults
  BY <1>1, <1>2 DEF InStep
<1>3. CASE ~setup.faults
  <2>1. asserted /\ (setup.directory = "simple" => AllAligned)
    BY <1>3 DEF InStep
  <2>2. CASE Output
    BY <1>1, <1>3, <2>1, <2>2, OutputFlat DEF InStep
  <2>3. CASE setup.directory = "simple" /\ Input
    BY <1>1, <1>3, <2>1, <2>3, InputFlat DEF InStep
  <2>4. CASE setup.directory = "mmap" /\ MapInput
    BY <1>1, <1>3, <2>1, <2>4, MapInputFlat DEF InStep
  <2>5. CASE UNCHANGED vars
    <3>1. UNCHANGED <<setup, disk, good, putAt, m_buffer, m_bufferStart, closed, in, getAt, getState, asserted, got>>
      BY <2>5 DEF vars, output, input
    <3>2. AllAligned => AllAligned'
      BY <3>1 DEF AllAligned, Aligned, Holds
    <3>3. UNCHANGED Flat!vars
      BY <3>1 DEF Flat!vars, get_file_pointer, Overwrite, pointerOf
    <3> QED
      BY <1>1, <2>1, <3>1, <3>2, <3>3 DEF InStep
  <2> QED
    BY <2>2, <2>3, <2>4, <2>5 DEF StreamNext, Next
<1> QED
  BY <1>2, <1>3

LEMMA StreamsStartFlat == ASSUME Init PROVE InStep /\ Flat!Init
<1>1. InStep
  BY DEF Init, InStep, AllAligned, Aligned
<1>2. Overwrite(disk, m_bufferStart, m_buffer) = <<>>
  <2>1. disk = <<>> /\ m_bufferStart = 0 /\ m_buffer = <<>>
    BY DEF Init
  <2>2. <<>> \in Seq(Byte) /\ 0 \in Nat /\ 0 <= Len(<<>>)
    OBVIOUS
  <2>3. Overwrite(<<>>, 0, <<>>) = <<>>
    BY <2>2, OverwriteNothing
  <2> QED
    BY <2>1, <2>3
<1>3. get_file_pointer = 0
  BY DEF Init, get_file_pointer
<1>4. [r \in Readers |-> IF in[r] = None THEN None ELSE pointerOf(in[r])] = [r \in Readers |-> None]
  BY DEF Init
<1> QED
  BY <1>1, <1>2, <1>3, <1>4 DEF Init, Flat!Init

\* Where nothing has faults, the InputFile is where its stream takes it to be
\* whenever it reads.
THEOREM PositionIsAsserted == StreamSpec => []PositionAsserted
<1>1. Init => InStep
  BY StreamsStartFlat
<1>2. Written /\ Reading /\ InStep /\ [StreamNext]_vars => InStep'
  BY StreamsStep
<1>3. InStep => PositionAsserted
  BY DEF InStep, PositionAsserted
<1> QED
  BY <1>1, <1>2, <1>3, StreamsInvariant, PTL DEF StreamSpec

\* The streams implement the flat file: whatever the sizes of reads, writes and
\* buffers, each step of theirs is one of the file, or none.
THEOREM StreamsAreFlat == StreamSpec => FlatSpec
<1>1. Init => InStep /\ Flat!Init
  BY StreamsStartFlat
<1>2. Written /\ Reading /\ InStep /\ [StreamNext]_vars => InStep'
  BY StreamsStep
<1>3. Written /\ Reading /\ InStep /\ [StreamNext]_vars => [setup.faults \/ Flat!Next]_(Flat!vars)
  BY StreamsStep
<1> QED
  BY <1>1, <1>2, <1>3, StreamsInvariant, PTL DEF StreamSpec, FlatSpec

-----------------------------------------------------------------------------
(* Positions in buffers *)

LEMMA Mono ==
  ASSUME NEW n \in Nat, NEW a \in Int, NEW b \in Int, a <= b PROVE n * a <= n * b
OBVIOUS

LEMMA DivMod ==
  ASSUME NEW n \in Nat \ {0}, NEW p \in Nat
  PROVE  /\ p \div n \in Nat /\ p % n \in 0..(n - 1) /\ p = (n * (p \div n)) + (p % n)
OBVIOUS

LEMMA FunctionIsSeq ==
  ASSUME NEW S, NEW n \in Nat, NEW f \in [1..n -> S] PROVE f \in Seq(S) /\ Len(f) = n
BY SeqDef

LEMMA IntervalGrows ==
  ASSUME NEW a \in Nat, NEW b \in Nat, a <= b, NEW p \in 0..(a - 1) PROVE p \in 0..(b - 1)
OBVIOUS

LEMMA IntervalDown == ASSUME NEW n \in Nat, NEW k \in 1..n PROVE k - 1 \in 0..(n - 1)
OBVIOUS

\* Each position is at one place of one buffer.
LEMMA DivIs ==
  ASSUME NEW n \in Nat \ {0}, NEW i \in Nat, NEW k \in 0..(n - 1)
  PROVE  (n * i + k) \div n = i /\ (n * i + k) % n = k
<1> DEFINE p == n * i + k
           q == p \div n
           m == p % n
<1>1. n * i \in Nat
  OBVIOUS
<1>2. p \in Nat
  BY <1>1
<1>3. q \in Nat /\ m \in 0..(n - 1) /\ p = n * q + m
  BY <1>2, DivMod
<1>4. p = n * i + k
  OBVIOUS
<1> HIDE DEF p, q, m
<1>5. ~(q < i)
  <2>1. SUFFICES ASSUME q < i PROVE FALSE
    OBVIOUS
  <2>2. n * (q + 1) <= n * i
    BY <1>3, <2>1, Mono
  <2>3. n * (q + 1) = n * q + n
    BY <1>3
  <2> QED
    BY <1>3, <1>4, <2>2, <2>3
<1>6. ~(i < q)
  <2>1. SUFFICES ASSUME i < q PROVE FALSE
    OBVIOUS
  <2>2. n * (i + 1) <= n * q
    BY <1>3, <2>1, Mono
  <2>3. n * (i + 1) = n * i + n
    OBVIOUS
  <2> QED
    BY <1>3, <1>4, <2>2, <2>3
<1>7. q = i
  BY <1>3, <1>5, <1>6
<1>8. m = k
  BY <1>3, <1>4, <1>7
<1> QED
  BY <1>7, <1>8 DEF p, q, m

\* A position below that of buffer b is in a buffer before it, and one from there on is not.
LEMMA DivBelow ==
  ASSUME NEW n \in Nat \ {0}, NEW p \in Nat, NEW b \in Nat
  PROVE  (p \div n < b) <=> p < n * b
<1> DEFINE q == p \div n
           m == p % n
<1>1. q \in Nat /\ m \in 0..(n - 1) /\ p = n * q + m
  BY DivMod
<1> HIDE DEF q, m
<1>2. ASSUME q < b PROVE p < n * b
  <2>1. n * (q + 1) <= n * b
    BY <1>1, <1>2, Mono
  <2>2. n * (q + 1) = n * q + n
    BY <1>1
  <2>3. n * b \in Nat /\ n * q \in Nat
    BY <1>1
  <2> QED
    BY <1>1, <2>1, <2>2, <2>3
<1>3. ASSUME ~(q < b) PROVE ~(p < n * b)
  <2>1. n * b <= n * q
    BY <1>1, <1>3, Mono
  <2>2. n * b \in Nat /\ n * q \in Nat
    BY <1>1
  <2> QED
    BY <1>1, <2>1, <2>2
<1> QED
  BY <1>2, <1>3 DEF q

-----------------------------------------------------------------------------
(* The output stream in memory *)

RamPlaced ==
  /\ out \in [index : Int, pos : Nat, start : Nat, len : Nat]
  /\ out.index \in -1..(Len(m_buffers) - 1) /\ out.pos \in 0..RAM_BUFFER_SIZE
  /\ out.index = -1 => out.pos = 0 /\ out.start = 0 /\ out.len = 0
  /\ out.index # -1 => out.start = RAM_BUFFER_SIZE * out.index /\ out.len = RAM_BUFFER_SIZE

\* There is a buffer for each byte of the file, and no byte of it is junk.
RamWritten ==
  /\ m_buffers \in Seq(RAM!Buffer) /\ m_length \in Nat /\ ramClosed \in BOOLEAN
  /\ RamPlaced
  /\ m_length <= RAM_BUFFER_SIZE * Len(m_buffers)
  /\ ramClosed => RAM!pointer <= m_length
  /\ \A p \in 0..(RAM!DataLength - 1) : RAM!ByteAt(p) \in Byte

RamData == [i \in 1..RAM!DataLength |-> RAM!ByteAt(i - 1)]

\* Where the output stream is, in numbers.
LEMMA RamPointer ==
  ASSUME RamWritten
  PROVE  /\ RAM!pointer \in Nat /\ RAM!DataLength \in Nat
         /\ RAM!pointer <= RAM!DataLength /\ m_length <= RAM!DataLength
         /\ RAM!pointer <= RAM_BUFFER_SIZE * Len(m_buffers)
         /\ RAM!DataLength <= RAM_BUFFER_SIZE * Len(m_buffers)
         /\ RAM_BUFFER_SIZE * Len(m_buffers) \in Nat
<1>1. Len(m_buffers) \in Nat /\ out.index \in Int /\ out.start \in Nat /\ out.pos \in Nat /\ m_length \in Nat
  BY DEF RamWritten, RamPlaced
<1>2. RAM_BUFFER_SIZE \in Nat
  BY RAMAssumption
<1>3. RAM_BUFFER_SIZE * Len(m_buffers) \in Nat
  BY <1>1, <1>2
<1>4. RAM!pointer \in Nat
  BY <1>1 DEF RAM!pointer
<1>5. RAM!pointer <= RAM_BUFFER_SIZE * Len(m_buffers)
  <2>1. CASE out.index = -1
    BY <1>3, <2>1 DEF RamWritten, RamPlaced, RAM!pointer
  <2>2. CASE out.index # -1
    <3>1. out.start = RAM_BUFFER_SIZE * out.index /\ out.pos <= RAM_BUFFER_SIZE
      BY <2>2 DEF RamWritten, RamPlaced
    <3>2. out.index + 1 <= Len(m_buffers)
      BY <1>1 DEF RamWritten, RamPlaced
    <3>3. RAM_BUFFER_SIZE * (out.index + 1) <= RAM_BUFFER_SIZE * Len(m_buffers)
      BY <1>1, <1>2, <3>2, Mono
    <3>4. RAM_BUFFER_SIZE * (out.index + 1) = RAM_BUFFER_SIZE * out.index + RAM_BUFFER_SIZE
      BY <1>1, <1>2
    <3> QED
      BY <1>1, <1>2, <1>3, <3>1, <3>3, <3>4 DEF RAM!pointer
  <2> QED
    BY <2>1, <2>2
<1>6. m_length <= RAM_BUFFER_SIZE * Len(m_buffers)
  BY DEF RamWritten
<1> QED
  BY <1>1, <1>3, <1>4, <1>5, <1>6 DEF RAM!DataLength

\* The place of a position that has a buffer.
LEMMA RamPlace ==
  ASSUME NEW b \in Nat, NEW p \in Nat, p < RAM_BUFFER_SIZE * b
  PROVE  /\ (p \div RAM_BUFFER_SIZE) + 1 \in 1..b /\ (p % RAM_BUFFER_SIZE) + 1 \in 1..RAM_BUFFER_SIZE
         /\ p \div RAM_BUFFER_SIZE \in Nat /\ p % RAM_BUFFER_SIZE \in Nat
         /\ p = (RAM_BUFFER_SIZE * (p \div RAM_BUFFER_SIZE)) + (p % RAM_BUFFER_SIZE)
<1>1. RAM_BUFFER_SIZE \in Nat \ {0}
  BY RAMAssumption
<1>2. p \div RAM_BUFFER_SIZE < b
  BY <1>1, DivBelow
<1>3. /\ p \div RAM_BUFFER_SIZE \in Nat /\ p % RAM_BUFFER_SIZE \in 0..(RAM_BUFFER_SIZE - 1)
      /\ p = (RAM_BUFFER_SIZE * (p \div RAM_BUFFER_SIZE)) + (p % RAM_BUFFER_SIZE)
  BY <1>1, DivMod
<1> QED
  BY <1>1, <1>2, <1>3

LEMMA RamDataIs ==
  ASSUME RamWritten
  PROVE  /\ RamData \in Seq(Byte) /\ Len(RamData) = RAM!DataLength
         /\ \A i \in 1..RAM!DataLength : RamData[i] = RAM!ByteAt(i - 1)
<1>1. RAM!DataLength \in Nat
  BY RamPointer
<1>2. ASSUME NEW i \in 1..RAM!DataLength PROVE RAM!ByteAt(i - 1) \in Byte
  <2>1. i - 1 \in 0..(RAM!DataLength - 1)
    BY <1>1
  <2> QED
    BY <2>1 DEF RamWritten
<1>3. RamData \in [1..RAM!DataLength -> Byte]
  BY <1>2 DEF RamData
<1> QED
  BY <1>1, <1>3, SeqDef DEF RamData

\* The byte at position p of buffers.
RamAt(bufs, p) == bufs[(p \div RAM_BUFFER_SIZE) + 1][(p % RAM_BUFFER_SIZE) + 1]

\* The buffers after bytes are put into buffer i, at pos.
RamPut(bufs, i, pos, bs) ==
  [bufs EXCEPT ![i + 1] =
     [k \in 1..RAM_BUFFER_SIZE |-> IF k \in (pos + 1)..(pos + Len(bs)) THEN bs[k - pos] ELSE @[k]]]

\* Of the positions, those of the bytes have them, and no other is changed.
LEMMA RamPutIs ==
  ASSUME NEW bufs \in Seq(RAM!Buffer), NEW i \in 0..(Len(bufs) - 1), NEW pos \in Nat,
         NEW bs \in Seq(Byte), pos + Len(bs) <= RAM_BUFFER_SIZE
  PROVE  /\ RamPut(bufs, i, pos, bs) \in Seq(RAM!Buffer)
         /\ Len(RamPut(bufs, i, pos, bs)) = Len(bufs)
         /\ \A q \in Nat : q < RAM_BUFFER_SIZE * Len(bufs) =>
              RamAt(RamPut(bufs, i, pos, bs), q) =
                IF q \in (RAM_BUFFER_SIZE * i + pos)..(RAM_BUFFER_SIZE * i + pos + Len(bs) - 1)
                THEN bs[q - (RAM_BUFFER_SIZE * i + pos) + 1] ELSE RamAt(bufs, q)
<1> DEFINE New(k) == IF k \in (pos + 1)..(pos + Len(bs)) THEN bs[k - pos] ELSE bufs[i + 1][k]
           new == [k \in 1..RAM_BUFFER_SIZE |-> New(k)]
           put == RamPut(bufs, i, pos, bs)
<1>1. RAM_BUFFER_SIZE \in Nat \ {0} /\ Len(bufs) \in Nat /\ i \in Nat /\ Len(bs) \in Nat /\ i + 1 \in 1..Len(bufs)
  BY RAMAssumption
<1>2. bufs[i + 1] \in [1..RAM_BUFFER_SIZE -> Byte \cup {Junk}]
  BY <1>1 DEF RAM!Buffer
<1>3. ASSUME NEW k \in 1..RAM_BUFFER_SIZE PROVE New(k) \in Byte \cup {Junk}
  <2>1. CASE k \in (pos + 1)..(pos + Len(bs))
    <3>1. k - pos \in 1..Len(bs)
      BY <1>1, <2>1
    <3>2. bs[k - pos] \in Byte
      BY <3>1
    <3> QED
      BY <2>1, <3>2
  <2>2. CASE k \notin (pos + 1)..(pos + Len(bs))
    BY <1>2, <2>2
  <2> QED
    BY <2>1, <2>2
<1>4. new \in RAM!Buffer
  BY <1>3 DEF RAM!Buffer
<1>5. put = [bufs EXCEPT ![i + 1] = new]
  BY DEF RamPut
<1>n. \A k \in 1..RAM_BUFFER_SIZE : new[k] = New(k)
  OBVIOUS
<1> HIDE DEF new, put
<1>6. put \in Seq(RAM!Buffer) /\ Len(put) = Len(bufs)
  BY <1>1, <1>4, <1>5
<1>7. put[i + 1] = new /\ \A j \in 1..Len(bufs) : j # i + 1 => put[j] = bufs[j]
  BY <1>1, <1>4, <1>5
<1>8. ASSUME NEW q \in Nat, q < RAM_BUFFER_SIZE * Len(bufs)
      PROVE  RamAt(put, q) =
               IF q \in (RAM_BUFFER_SIZE * i + pos)..(RAM_BUFFER_SIZE * i + pos + Len(bs) - 1)
               THEN bs[q - (RAM_BUFFER_SIZE * i + pos) + 1] ELSE RamAt(bufs, q)
  <2> DEFINE j == q \div RAM_BUFFER_SIZE
             m == q % RAM_BUFFER_SIZE
             x == RAM_BUFFER_SIZE * i
  <2>1. j + 1 \in 1..Len(bufs) /\ m + 1 \in 1..RAM_BUFFER_SIZE /\ j \in Nat /\ m \in Nat
    BY <1>1, <1>8, RamPlace
  <2>2. q = (RAM_BUFFER_SIZE * j) + m
    BY <1>1, <1>8, RamPlace
  <2>3. RamAt(put, q) = put[j + 1][m + 1] /\ RamAt(bufs, q) = bufs[j + 1][m + 1]
    BY DEF RamAt
  <2>4. x \in Nat
    BY <1>1
  <2>x. x = RAM_BUFFER_SIZE * i
    OBVIOUS
  <2> HIDE DEF j, m, x
  <2>5. CASE j = i
    <3>1. q = x + m
      BY <2>2, <2>5, <2>x
    <3>2. RamAt(put, q) = New(m + 1)
      BY <1>7, <1>n, <2>1, <2>3, <2>5
    <3>3. CASE q \in (x + pos)..(x + pos + Len(bs) - 1)
      <4>1. m + 1 \in (pos + 1)..(pos + Len(bs)) /\ m + 1 - pos = q - (x + pos) + 1
        BY <1>1, <2>1, <2>4, <3>1, <3>3
      <4>2. New(m + 1) = bs[m + 1 - pos]
        BY <1>1, <2>1, <4>1
      <4>3. RamAt(put, q) = bs[m + 1 - pos]
        BY <3>2, <4>2
      <4> QED
        BY <3>3, <4>1, <4>3 DEF x
    <3>4. CASE q \notin (x + pos)..(x + pos + Len(bs) - 1)
      <4>1. m + 1 \notin (pos + 1)..(pos + Len(bs))
        BY <1>1, <2>1, <2>4, <3>1, <3>4
      <4>2. RamAt(put, q) = bufs[i + 1][m + 1]
        BY <3>2, <4>1
      <4> QED
        BY <2>3, <2>5, <3>4, <4>2 DEF x
    <3> QED
      BY <3>3, <3>4
  <2>6. CASE j # i
    <3>1. q \notin (x + pos)..(x + pos + Len(bs) - 1)
      <4>1. CASE j < i
        <5>1. RAM_BUFFER_SIZE * (j + 1) <= x
          <6>1. j + 1 <= i
            BY <1>1, <2>1, <4>1
          <6> QED
            BY <1>1, <2>1, <6>1, Mono DEF x
        <5>2. RAM_BUFFER_SIZE * (j + 1) = RAM_BUFFER_SIZE * j + RAM_BUFFER_SIZE /\ RAM_BUFFER_SIZE * j \in Nat
          BY <1>1, <2>1
        <5>3. q < x
          BY <1>1, <2>1, <2>2, <2>4, <5>1, <5>2
        <5> QED
          BY <1>1, <2>4, <5>3
      <4>2. CASE i < j
        <5>1. RAM_BUFFER_SIZE * (i + 1) <= RAM_BUFFER_SIZE * j
          <6>1. i + 1 <= j
            BY <1>1, <2>1, <4>2
          <6> QED
            BY <1>1, <2>1, <6>1, Mono
        <5>2. RAM_BUFFER_SIZE * (i + 1) = x + RAM_BUFFER_SIZE /\ RAM_BUFFER_SIZE * j \in Nat
          BY <1>1, <2>1 DEF x
        <5>3. q >= x + RAM_BUFFER_SIZE
          BY <1>1, <2>1, <2>2, <2>4, <5>1, <5>2
        <5> QED
          BY <1>1, <2>4, <5>3
      <4> QED
        BY <1>1, <2>1, <2>6, <4>1, <4>2
    <3>2. put[j + 1] = bufs[j + 1]
      BY <1>1, <1>7, <2>1, <2>6
    <3>3. RamAt(put, q) = RamAt(bufs, q)
      BY <2>3, <3>2
    <3> QED
      BY <3>1, <3>3 DEF x
  <2> QED
    BY <2>5, <2>6
<1> QED
  BY <1>6, <1>8 DEF put

\* A buffer is added at the end, or none.
LEMMA RamWithBuffer ==
  ASSUME m_buffers \in Seq(RAM!Buffer), NEW i \in 0..Len(m_buffers)
  PROVE  /\ RAM!WithBuffer(i) \in Seq(RAM!Buffer)
         /\ Len(RAM!WithBuffer(i)) = IF i = Len(m_buffers) THEN i + 1 ELSE Len(m_buffers)
         /\ \A q \in Nat : q < RAM_BUFFER_SIZE * Len(m_buffers) =>
              RamAt(RAM!WithBuffer(i), q) = RamAt(m_buffers, q)
<1> DEFINE junk == [k \in 1..RAM_BUFFER_SIZE |-> Junk]
           w == RAM!WithBuffer(i)
<1>1. junk \in RAM!Buffer
  BY DEF RAM!Buffer
<1>2. Len(m_buffers) \in Nat
  OBVIOUS
<1>3. w = IF i = Len(m_buffers) THEN Append(m_buffers, junk) ELSE m_buffers
  BY DEF RAM!WithBuffer
<1> HIDE DEF junk, w
<1>4. /\ w \in Seq(RAM!Buffer) /\ Len(w) = IF i = Len(m_buffers) THEN i + 1 ELSE Len(m_buffers)
      /\ \A j \in 1..Len(m_buffers) : w[j] = m_buffers[j]
  BY <1>1, <1>2, <1>3
<1>5. ASSUME NEW q \in Nat, q < RAM_BUFFER_SIZE * Len(m_buffers) PROVE RamAt(w, q) = RamAt(m_buffers, q)
  <2>1. (q \div RAM_BUFFER_SIZE) + 1 \in 1..Len(m_buffers)
    BY <1>2, <1>5, RamPlace
  <2>2. w[(q \div RAM_BUFFER_SIZE) + 1] = m_buffers[(q \div RAM_BUFFER_SIZE) + 1]
    BY <1>4, <2>1
  <2> QED
    BY <2>2 DEF RamAt
<1> QED
  BY <1>4, <1>5 DEF w

\* A step of the output stream keeps what RamWritten says of the bytes if it
\* changes none of them, or makes them bytes of the file.
LEMMA RamKeeps ==
  ASSUME RamWritten, m_buffers' \in Seq(RAM!Buffer), m_length' \in Nat, ramClosed' \in BOOLEAN, RamPlaced',
         m_length' <= RAM_BUFFER_SIZE * Len(m_buffers'), ramClosed' => RAM!pointer' <= m_length',
         RAM!DataLength' \in Nat, RAM!DataLength' <= RAM!DataLength,
         \A q \in Nat : q < RAM_BUFFER_SIZE * Len(m_buffers) => RamAt(m_buffers', q) = RamAt(m_buffers, q)
  PROVE  RamWritten' /\ (RAM!DataLength' = RAM!DataLength => RamData' = RamData)
<1>1. RAM!DataLength \in Nat /\ RAM!DataLength <= RAM_BUFFER_SIZE * Len(m_buffers)
      /\ RAM_BUFFER_SIZE * Len(m_buffers) \in Nat
  BY RamPointer
<1>2. ASSUME NEW p \in 0..(RAM!DataLength - 1) PROVE RAM!ByteAt(p)' = RAM!ByteAt(p)
  <2>1. p \in Nat /\ p < RAM_BUFFER_SIZE * Len(m_buffers)
    BY <1>1
  <2>2. RamAt(m_buffers', p) = RamAt(m_buffers, p)
    BY <2>1
  <2> QED
    BY <2>2 DEF RAM!ByteAt, RamAt
<1>3. ASSUME NEW p \in 0..(RAM!DataLength' - 1) PROVE RAM!ByteAt(p)' \in Byte
  <2>1. p \in 0..(RAM!DataLength - 1)
    BY <1>1, IntervalGrows
  <2>2. RAM!ByteAt(p)' = RAM!ByteAt(p)
    BY <1>2, <2>1
  <2> QED
    BY <2>1, <2>2 DEF RamWritten
<1>4. RamWritten'
  BY <1>3 DEF RamWritten
<1>5. ASSUME RAM!DataLength' = RAM!DataLength PROVE RamData' = RamData
  <2>1. ASSUME NEW i \in 1..RAM!DataLength PROVE RAM!ByteAt(i - 1)' = RAM!ByteAt(i - 1)
    <3>1. i - 1 \in 0..(RAM!DataLength - 1)
      BY <1>1
    <3> QED
      BY <1>2, <3>1
  <2> QED
    BY <1>5, <2>1 DEF RamData
<1> QED
  BY <1>4, <1>5

\* What the place of the output stream says.
LEMMA RamAtBuffer ==
  ASSUME NEW i \in Nat, NEW pos \in 0..RAM_BUFFER_SIZE
  PROVE  /\ RAM!AtBuffer(i, pos) \in [index : Int, pos : Nat, start : Nat, len : Nat]
         /\ RAM!AtBuffer(i, pos).index = i /\ RAM!AtBuffer(i, pos).pos = pos
         /\ RAM!AtBuffer(i, pos).start = RAM_BUFFER_SIZE * i /\ RAM!AtBuffer(i, pos).len = RAM_BUFFER_SIZE
<1>1. RAM_BUFFER_SIZE \in Nat /\ RAM_BUFFER_SIZE * i \in Nat /\ pos \in Nat
  BY RAMAssumption
<1> QED
  BY <1>1 DEF RAM!AtBuffer

\* Writing and seeking leave the stream in a buffer that there is.
LEMMA RamMoves ==
  ASSUME NEW i \in Nat, NEW pos \in 0..RAM_BUFFER_SIZE, out' = RAM!AtBuffer(i, pos),
         m_buffers' \in Seq(RAM!Buffer), i < Len(m_buffers')
  PROVE  RamPlaced' /\ RAM!pointer' = RAM_BUFFER_SIZE * i + pos
<1>1. Len(m_buffers') \in Nat
  OBVIOUS
<1>2. /\ out' \in [index : Int, pos : Nat, start : Nat, len : Nat]
      /\ out'.index = i /\ out'.pos = pos /\ out'.start = RAM_BUFFER_SIZE * i /\ out'.len = RAM_BUFFER_SIZE
  BY RamAtBuffer
<1>3. out'.index \in -1..(Len(m_buffers') - 1) /\ out'.index # -1
  BY <1>1, <1>2
<1> QED
  BY <1>2, <1>3 DEF RamPlaced, RAM!pointer

\* flush() and length(), and close() after it.
LEMMA RamFlush ==
  ASSUME RamWritten, m_length' = RAM!DataLength, UNCHANGED <<m_buffers, out>>, ramClosed' \in BOOLEAN
  PROVE  RamWritten' /\ RamData' = RamData /\ RAM!pointer' = RAM!pointer
<1>1. /\ RAM!pointer \in Nat /\ RAM!DataLength \in Nat /\ RAM!pointer <= RAM!DataLength /\ m_length <= RAM!DataLength
      /\ RAM!DataLength <= RAM_BUFFER_SIZE * Len(m_buffers)
  BY RamPointer
<1>2. RAM!pointer' = RAM!pointer
  BY DEF RAM!pointer
<1>3. RAM!DataLength' = RAM!DataLength
  BY <1>1, <1>2 DEF RAM!DataLength
<1>4. RamPlaced'
  BY DEF RamWritten, RamPlaced
<1>5. m_buffers' \in Seq(RAM!Buffer) /\ m_length' \in Nat
  BY <1>1 DEF RamWritten
<1>6. m_length' <= RAM_BUFFER_SIZE * Len(m_buffers') /\ RAM!pointer' <= m_length'
  BY <1>1, <1>2
<1>7. RamWritten' /\ (RAM!DataLength' = RAM!DataLength => RamData' = RamData)
  BY <1>1, <1>3, <1>4, <1>5, <1>6, RamKeeps
<1> QED
  BY <1>2, <1>3, <1>7

LEMMA RamReset ==
  ASSUME RamWritten, RAM!Reset
  PROVE  RamWritten' /\ RamData' = <<>> /\ RAM!pointer' = 0
<1>1. m_length' = 0 /\ m_buffers' = m_buffers /\ ramClosed' = ramClosed
  BY DEF RAM!Reset
<1>2. Len(m_buffers) \in Nat /\ m_buffers' \in Seq(RAM!Buffer) /\ ramClosed' \in BOOLEAN
  BY <1>1 DEF RamWritten
<1>3. /\ out' \in [index : Int, pos : Nat, start : Nat, len : Nat]
      /\ out'.index = -1 /\ out'.pos = 0 /\ out'.start = 0 /\ out'.len = 0
  BY DEF RAM!Reset, RAM!Fresh
<1>4. RamPlaced'
  BY <1>1, <1>2, <1>3, RAMAssumption DEF RamPlaced
<1>5. RAM!pointer' = 0
  BY <1>3 DEF RAM!pointer
<1>6. RAM!DataLength' = 0
  BY <1>1, <1>5 DEF RAM!DataLength
<1>7. RAM!DataLength \in Nat /\ RAM_BUFFER_SIZE * Len(m_buffers) \in Nat
  BY RamPointer
<1>8. m_length' <= RAM_BUFFER_SIZE * Len(m_buffers') /\ RAM!pointer' <= m_length'
  BY <1>1, <1>5, <1>7
<1>9. RamWritten'
  <2>1. m_length' \in Nat /\ RAM!DataLength' \in Nat /\ RAM!DataLength' <= RAM!DataLength
    BY <1>1, <1>6, <1>7
  <2>2. \A q \in Nat : q < RAM_BUFFER_SIZE * Len(m_buffers) => RamAt(m_buffers', q) = RamAt(m_buffers, q)
    BY <1>1
  <2> QED
    BY <1>2, <1>4, <1>8, <2>1, <2>2, RamKeeps
<1>10. RamData' = <<>>
  <2>1. RamData' = [i \in 1..0 |-> RAM!ByteAt(i - 1)']
    BY <1>6 DEF RamData
  <2> QED
    BY <2>1
<1> QED
  BY <1>5, <1>9, <1>10

\* The length is set before the stream goes on or back.
LEMMA RamLength ==
  ASSUME NEW d \in Nat, NEW p \in Nat, p <= d, RAM!pointer' = p, m_length' = d PROVE RAM!DataLength' = d
BY DEF RAM!DataLength

\* switch_current_buffer() of a seek, and the seek in the buffer it is in.
LEMMA RamSeek ==
  ASSUME RamWritten, NEW p \in 0..RAM!DataLength, RAM!Seek(p)
  PROVE  RamWritten' /\ RamData' = RamData /\ RAM!pointer' = p
<1> DEFINE i == p \div RAM_BUFFER_SIZE
           k == p % RAM_BUFFER_SIZE
<1>1. RAM_BUFFER_SIZE \in Nat \ {0} /\ Len(m_buffers) \in Nat /\ m_buffers \in Seq(RAM!Buffer)
  BY RAMAssumption DEF RamWritten
<1>2. /\ RAM!pointer \in Nat /\ RAM!DataLength \in Nat /\ RAM!pointer <= RAM!DataLength /\ m_length <= RAM!DataLength
      /\ RAM!DataLength <= RAM_BUFFER_SIZE * Len(m_buffers) /\ RAM_BUFFER_SIZE * Len(m_buffers) \in Nat
  BY RamPointer
<1>3. p \in Nat /\ p <= RAM!DataLength
  BY <1>2
<1>4. i \in Nat /\ k \in 0..(RAM_BUFFER_SIZE - 1) /\ p = (RAM_BUFFER_SIZE * i) + k
  BY <1>1, <1>3, DivMod
<1>5. k \in 0..RAM_BUFFER_SIZE /\ k \in Nat
  BY <1>1, <1>4
<1>6. m_length' = RAM!DataLength /\ ramClosed' = ramClosed /\ ~ramClosed /\ ramClosed' \in BOOLEAN
  BY DEF RAM!Seek, RamWritten
<1>7. CASE p < out.start \/ p >= out.start + out.len
  <2>1. m_buffers' = RAM!WithBuffer(i) /\ out' = RAM!AtBuffer(i, k)
    BY <1>7 DEF RAM!Seek
  <2>2. i \in 0..Len(m_buffers)
    <3>1. RAM_BUFFER_SIZE * Len(m_buffers) + RAM_BUFFER_SIZE = RAM_BUFFER_SIZE * (Len(m_buffers) + 1)
      BY <1>1
    <3>2. p < RAM_BUFFER_SIZE * (Len(m_buffers) + 1)
      BY <1>1, <1>2, <1>3, <3>1
    <3>3. i < Len(m_buffers) + 1
      <4>1. Len(m_buffers) + 1 \in Nat
        BY <1>1
      <4> QED
        BY <1>1, <1>3, <3>2, <4>1, DivBelow
    <3> QED
      BY <1>1, <1>4, <3>3
  <2> HIDE DEF i, k
  <2>3. /\ m_buffers' \in Seq(RAM!Buffer)
        /\ Len(m_buffers') = IF i = Len(m_buffers) THEN i + 1 ELSE Len(m_buffers)
        /\ \A q \in Nat : q < RAM_BUFFER_SIZE * Len(m_buffers) =>
             RamAt(m_buffers', q) = RamAt(m_buffers, q)
    BY <1>1, <2>1, <2>2, RamWithBuffer
  <2>4. i < Len(m_buffers') /\ Len(m_buffers) <= Len(m_buffers') /\ Len(m_buffers') \in Nat
    BY <1>1, <2>2, <2>3
  <2>5. RamPlaced' /\ RAM!pointer' = RAM_BUFFER_SIZE * i + k
    BY <1>4, <1>5, <2>1, <2>3, <2>4, RamMoves
  <2>6. RAM!pointer' = p
    BY <1>4, <2>5
  <2>7. m_length' <= RAM_BUFFER_SIZE * Len(m_buffers')
    <3>1. RAM_BUFFER_SIZE * Len(m_buffers) <= RAM_BUFFER_SIZE * Len(m_buffers')
      BY <1>1, <2>4, Mono
    <3>2. RAM_BUFFER_SIZE * Len(m_buffers') \in Nat
      BY <1>1, <2>4
    <3> QED
      BY <1>2, <1>6, <3>1, <3>2
  <2>8. RAM!DataLength' = RAM!DataLength
    BY <1>2, <1>3, <1>6, <2>6, RamLength
  <2>9. RamWritten' /\ (RAM!DataLength' = RAM!DataLength => RamData' = RamData)
    <3>1. m_length' \in Nat /\ RAM!DataLength' \in Nat /\ RAM!DataLength' <= RAM!DataLength
      BY <1>2, <1>6, <2>8
    <3>2. ramClosed' => RAM!pointer' <= m_length'
      BY <1>6
    <3> QED
      BY <1>6, <2>3, <2>5, <2>7, <3>1, <3>2, RamKeeps
  <2> QED
    BY <2>6, <2>8, <2>9
<1>8. CASE ~(p < out.start \/ p >= out.start + out.len)
  <2>1. m_buffers' = m_buffers /\ out' = [out EXCEPT !.pos = k]
    BY <1>8 DEF RAM!Seek
  <2>2. /\ out \in [index : Int, pos : Nat, start : Nat, len : Nat]
        /\ out.index \in -1..(Len(m_buffers) - 1)
        /\ out.index = -1 => out.pos = 0 /\ out.start = 0 /\ out.len = 0
        /\ out.index # -1 => out.start = RAM_BUFFER_SIZE * out.index /\ out.len = RAM_BUFFER_SIZE
    BY DEF RamWritten, RamPlaced
  <2>3. out.index # -1
    BY <1>3, <1>8, <2>2
  <2>4. /\ out.index \in Nat /\ out.start = RAM_BUFFER_SIZE * out.index
        /\ out.start <= p /\ p < out.start + RAM_BUFFER_SIZE
    BY <1>1, <1>3, <1>8, <2>2, <2>3
  <2>5. k = p - out.start
    <3>1. p - out.start \in 0..(RAM_BUFFER_SIZE - 1)
      BY <1>1, <1>3, <2>2, <2>4
    <3>2. (RAM_BUFFER_SIZE * out.index + (p - out.start)) % RAM_BUFFER_SIZE = p - out.start
      BY <1>1, <2>4, <3>1, DivIs
    <3>3. RAM_BUFFER_SIZE * out.index + (p - out.start) = p
      BY <1>3, <2>2, <2>4
    <3> QED
      BY <3>2, <3>3
  <2> HIDE DEF i, k
  <2>6. /\ out' \in [index : Int, pos : Nat, start : Nat, len : Nat]
        /\ out'.index = out.index /\ out'.pos = k /\ out'.start = out.start /\ out'.len = out.len
    BY <1>5, <2>1, <2>2
  <2>7. RamPlaced'
    BY <1>5, <2>1, <2>2, <2>3, <2>6 DEF RamPlaced
  <2>8. RAM!pointer' = p
    BY <1>3, <2>2, <2>5, <2>6 DEF RAM!pointer
  <2>9. RAM!DataLength' = RAM!DataLength
    BY <1>2, <1>3, <1>6, <2>8, RamLength
  <2>10. RamWritten' /\ (RAM!DataLength' = RAM!DataLength => RamData' = RamData)
    <3>1. m_length' \in Nat /\ RAM!DataLength' \in Nat /\ RAM!DataLength' <= RAM!DataLength
      BY <1>2, <1>6, <2>9
    <3>2. ramClosed' => RAM!pointer' <= m_length'
      BY <1>6
    <3>3. m_buffers' \in Seq(RAM!Buffer) /\ m_length' <= RAM_BUFFER_SIZE * Len(m_buffers')
      BY <1>1, <1>2, <1>6, <2>1
    <3>4. \A q \in Nat : q < RAM_BUFFER_SIZE * Len(m_buffers) =>
            RamAt(m_buffers', q) = RamAt(m_buffers, q)
      BY <2>1
    <3> QED
      BY <1>6, <2>7, <3>1, <3>2, <3>3, <3>4, RamKeeps
  <2> QED
    BY <2>8, <2>9, <2>10
<1> QED
  BY <1>7, <1>8

\* A write puts its bytes where the stream is, into its buffer or the next one.
LEMMA RamWrites ==
  ASSUME RamWritten, NEW bs \in Seq(Byte), bs # <<>>, RAM!Write(bs)
  PROVE  /\ RamWritten' /\ RAM!pointer' = RAM!pointer + Len(bs)
         /\ RamData' = RAM!Flat!Overwrite(RamData, RAM!pointer, bs)
<1> DEFINE full == out.pos = out.len
           i == IF full THEN out.index + 1 ELSE out.index
           pos == IF full THEN 0 ELSE out.pos
           w == RAM!WithBuffer(i)
<1>1. RAM_BUFFER_SIZE \in Nat \ {0} /\ Len(m_buffers) \in Nat /\ m_buffers \in Seq(RAM!Buffer) /\ m_length \in Nat
  BY RAMAssumption DEF RamWritten
<1>2. /\ RAM!pointer \in Nat /\ RAM!DataLength \in Nat /\ RAM!pointer <= RAM!DataLength /\ m_length <= RAM!DataLength
      /\ m_length <= RAM_BUFFER_SIZE * Len(m_buffers)
      /\ RAM!DataLength <= RAM_BUFFER_SIZE * Len(m_buffers) /\ RAM_BUFFER_SIZE * Len(m_buffers) \in Nat
  BY RamPointer DEF RamWritten
<1>3. Len(bs) \in Nat /\ Len(bs) > 0
  OBVIOUS
<1>4. /\ ~ramClosed /\ ramClosed' = ramClosed /\ m_length' = m_length /\ ramClosed' \in BOOLEAN
      /\ pos + Len(bs) <= RAM_BUFFER_SIZE
      /\ m_buffers' = RamPut(w, i, pos, bs) /\ out' = RAM!AtBuffer(i, pos + Len(bs))
  BY DEF RAM!Write, RamWritten, RamPut
<1>5. /\ out \in [index : Int, pos : Nat, start : Nat, len : Nat]
      /\ out.index \in -1..(Len(m_buffers) - 1) /\ out.pos \in 0..RAM_BUFFER_SIZE
      /\ out.index = -1 => out.pos = 0 /\ out.start = 0 /\ out.len = 0
      /\ out.index # -1 => out.start = RAM_BUFFER_SIZE * out.index /\ out.len = RAM_BUFFER_SIZE
  BY DEF RamWritten, RamPlaced
<1>6. i \in 0..Len(m_buffers) /\ pos \in Nat
  BY <1>1, <1>5
<1>7. RAM_BUFFER_SIZE * i + pos = RAM!pointer
  <2>1. CASE full /\ out.index = -1
    <3>1. i = 0 /\ pos = 0 /\ RAM!pointer = 0
      BY <1>5, <2>1 DEF RAM!pointer
    <3> QED
      BY <1>1, <3>1
  <2>2. CASE full /\ out.index # -1
    <3>1. i = out.index + 1 /\ pos = 0
          /\ RAM!pointer = RAM_BUFFER_SIZE * out.index + RAM_BUFFER_SIZE /\ out.index \in Int
      BY <1>5, <2>2 DEF RAM!pointer
    <3> QED
      BY <1>1, <3>1
  <2>3. CASE ~full
    BY <1>5, <2>3 DEF RAM!pointer
  <2> QED
    BY <2>1, <2>2, <2>3
<1> HIDE DEF full, i, pos, w
<1>8. /\ w \in Seq(RAM!Buffer) /\ Len(w) = IF i = Len(m_buffers) THEN i + 1 ELSE Len(m_buffers)
      /\ \A q \in Nat : q < RAM_BUFFER_SIZE * Len(m_buffers) => RamAt(w, q) = RamAt(m_buffers, q)
  BY <1>1, <1>6, RamWithBuffer DEF w
<1>9. i \in 0..(Len(w) - 1) /\ Len(w) \in Nat /\ Len(m_buffers) <= Len(w)
  BY <1>1, <1>6, <1>8
<1>10. /\ m_buffers' \in Seq(RAM!Buffer) /\ Len(m_buffers') = Len(w)
       /\ \A q \in Nat : q < RAM_BUFFER_SIZE * Len(w) =>
            RamAt(m_buffers', q) =
              IF q \in (RAM_BUFFER_SIZE * i + pos)..(RAM_BUFFER_SIZE * i + pos + Len(bs) - 1)
              THEN bs[q - (RAM_BUFFER_SIZE * i + pos) + 1] ELSE RamAt(w, q)
  BY <1>4, <1>6, <1>8, <1>9, RamPutIs
<1>11. RamPlaced' /\ RAM!pointer' = RAM!pointer + Len(bs)
  <2>1. i \in Nat /\ pos + Len(bs) \in 0..RAM_BUFFER_SIZE /\ i < Len(m_buffers')
    BY <1>1, <1>3, <1>4, <1>6, <1>9, <1>10
  <2>2. RamPlaced' /\ RAM!pointer' = RAM_BUFFER_SIZE * i + (pos + Len(bs))
    BY <1>4, <1>10, <2>1, RamMoves
  <2>3. RAM_BUFFER_SIZE * i \in Nat
    BY <1>1, <1>6
  <2> QED
    BY <1>3, <1>6, <1>7, <2>2, <2>3
<1>12. RAM!DataLength' = IF RAM!pointer + Len(bs) > RAM!DataLength THEN RAM!pointer + Len(bs) ELSE RAM!DataLength
  BY <1>1, <1>2, <1>3, <1>4, <1>11 DEF RAM!DataLength
<1>13. /\ RAM_BUFFER_SIZE * Len(m_buffers) <= RAM_BUFFER_SIZE * Len(w) /\ RAM_BUFFER_SIZE * Len(w) \in Nat
       /\ RAM!pointer + Len(bs) <= RAM_BUFFER_SIZE * Len(w)
  <2>1. RAM_BUFFER_SIZE * Len(m_buffers) <= RAM_BUFFER_SIZE * Len(w)
    BY <1>1, <1>9, Mono
  <2>2. RAM_BUFFER_SIZE * Len(w) \in Nat
    BY <1>1, <1>9
  <2>3. RAM_BUFFER_SIZE * (i + 1) <= RAM_BUFFER_SIZE * Len(w)
    <3>1. i + 1 <= Len(w) /\ i + 1 \in Int /\ Len(w) \in Int
      BY <1>9
    <3> QED
      BY <1>1, <3>1, Mono
  <2>4. RAM_BUFFER_SIZE * (i + 1) = RAM_BUFFER_SIZE * i + RAM_BUFFER_SIZE /\ RAM_BUFFER_SIZE * i \in Nat
    BY <1>1, <1>6
  <2> QED
    BY <1>1, <1>3, <1>4, <1>6, <1>7, <2>1, <2>2, <2>3, <2>4
<1>14. ASSUME NEW q \in 0..(RAM!DataLength' - 1)
       PROVE  RAM!ByteAt(q)' =
                IF q \in RAM!pointer..(RAM!pointer + Len(bs) - 1)
                THEN bs[q - RAM!pointer + 1] ELSE RAM!ByteAt(q)
  <2>1. q \in Nat /\ q < RAM_BUFFER_SIZE * Len(w)
    BY <1>2, <1>3, <1>12, <1>13
  <2>2. RamAt(m_buffers', q) =
          IF q \in RAM!pointer..(RAM!pointer + Len(bs) - 1) THEN bs[q - RAM!pointer + 1] ELSE RamAt(w, q)
    BY <1>7, <1>10, <2>1
  <2>3. RAM!ByteAt(q)' = RamAt(m_buffers', q) /\ RAM!ByteAt(q) = RamAt(m_buffers, q)
    BY DEF RAM!ByteAt, RamAt
  <2>4. CASE q \in RAM!pointer..(RAM!pointer + Len(bs) - 1)
    BY <2>2, <2>3, <2>4
  <2>5. CASE q \notin RAM!pointer..(RAM!pointer + Len(bs) - 1)
    <3>1. q < RAM_BUFFER_SIZE * Len(m_buffers)
      BY <1>2, <1>3, <1>12, <2>1, <2>5
    <3>2. RamAt(w, q) = RamAt(m_buffers, q)
      BY <1>8, <2>1, <3>1
    <3> QED
      BY <2>2, <2>3, <2>5, <3>2
  <2> QED
    BY <2>4, <2>5
<1>15. ASSUME NEW q \in 0..(RAM!DataLength' - 1), q \notin RAM!pointer..(RAM!pointer + Len(bs) - 1)
       PROVE  q \in 0..(RAM!DataLength - 1)
  BY <1>2, <1>3, <1>12, <1>15
<1>16. ASSUME NEW q \in 0..(RAM!DataLength' - 1) PROVE RAM!ByteAt(q)' \in Byte
  <2>1. CASE q \in RAM!pointer..(RAM!pointer + Len(bs) - 1)
    <3>1. q - RAM!pointer + 1 \in 1..Len(bs)
      BY <1>2, <1>3, <2>1
    <3>2. bs[q - RAM!pointer + 1] \in Byte
      BY <3>1
    <3> QED
      BY <1>14, <2>1, <3>2
  <2>2. CASE q \notin RAM!pointer..(RAM!pointer + Len(bs) - 1)
    <3>1. RAM!ByteAt(q) \in Byte
      BY <1>15, <2>2 DEF RamWritten
    <3> QED
      BY <1>14, <2>2, <3>1
  <2> QED
    BY <2>1, <2>2
<1>17. RamWritten'
  <2>1. m_length' <= RAM_BUFFER_SIZE * Len(m_buffers') /\ m_length' \in Nat
    <3>1. m_length <= RAM_BUFFER_SIZE * Len(w)
      BY <1>1, <1>2, <1>13
    <3>2. m_length' = m_length /\ Len(m_buffers') = Len(w)
      BY <1>4, <1>10
    <3> QED
      BY <1>1, <3>1, <3>2
  <2>2. ramClosed' => RAM!pointer' <= m_length'
    BY <1>4
  <2> QED
    BY <1>4, <1>10, <1>11, <1>16, <2>1, <2>2 DEF RamWritten
<1>18. RamData' = RAM!Flat!Overwrite(RamData, RAM!pointer, bs)
  <2> DEFINE n == IF RAM!pointer + Len(bs) > RAM!DataLength THEN RAM!pointer + Len(bs) ELSE RAM!DataLength
             Byte1(k) == IF k \in (RAM!pointer + 1)..(RAM!pointer + Len(bs)) THEN bs[k - RAM!pointer] ELSE RamData[k]
  <2>1. Len(RamData) = RAM!DataLength /\ \A k \in 1..RAM!DataLength : RamData[k] = RAM!ByteAt(k - 1)
    BY RamDataIs
  <2>2. RAM!Flat!Overwrite(RamData, RAM!pointer, bs) = [k \in 1..n |-> Byte1(k)]
    BY <2>1 DEF RAM!Flat!Overwrite
  <2>3. RamData' = [k \in 1..n |-> RAM!ByteAt(k - 1)']
    BY <1>12 DEF RamData
  <2>4. n \in Nat /\ n = RAM!DataLength'
    BY <1>2, <1>3, <1>12
  <2> HIDE DEF n
  <2>5. ASSUME NEW k \in 1..n PROVE RAM!ByteAt(k - 1)' = Byte1(k)
    <3>1. k - 1 \in 0..(RAM!DataLength' - 1)
      <4>1. k - 1 \in 0..(n - 1)
        BY <2>4, IntervalDown
      <4> QED
        BY <2>4, <4>1
    <3>2. CASE k - 1 \in RAM!pointer..(RAM!pointer + Len(bs) - 1)
      <4>1. RAM!ByteAt(k - 1)' = bs[(k - 1) - RAM!pointer + 1]
        BY <1>14, <3>1, <3>2
      <4>2. k \in (RAM!pointer + 1)..(RAM!pointer + Len(bs)) /\ (k - 1) - RAM!pointer + 1 = k - RAM!pointer
        BY <1>2, <1>3, <2>4, <3>2
      <4> QED
        BY <4>1, <4>2
    <3>3. CASE k - 1 \notin RAM!pointer..(RAM!pointer + Len(bs) - 1)
      <4>1. RAM!ByteAt(k - 1)' = RAM!ByteAt(k - 1)
        BY <1>14, <3>1, <3>3
      <4>2. k \notin (RAM!pointer + 1)..(RAM!pointer + Len(bs))
        BY <1>2, <1>3, <2>4, <3>3
      <4>3. k \in 1..RAM!DataLength
        <5>1. k - 1 \in 0..(RAM!DataLength - 1)
          BY <1>15, <3>1, <3>3
        <5> QED
          BY <1>2, <2>4, <5>1
      <4>4. RamData[k] = RAM!ByteAt(k - 1)
        BY <2>1, <4>3
      <4> QED
        BY <4>1, <4>2, <4>4
    <3> QED
      BY <3>2, <3>3
  <2> HIDE DEF Byte1
  <2> QED
    BY <2>2, <2>3, <2>5
<1> QED
  BY <1>11, <1>17, <1>18

\* Where the flat file takes the output stream to be.
RamWpos == IF out.index < 0 THEN 0 ELSE RAM!pointer

LEMMA RamPlaceOf ==
  ASSUME NEW o, NEW b \in Nat, o.index \in -1..(b - 1), o.pos \in Nat, o.start \in Nat,
         o.index = -1 => o.pos = 0 /\ o.start = 0
  PROVE  (IF o.index < 0 THEN 0 ELSE o.start + o.pos) = o.start + o.pos
OBVIOUS

LEMMA RamWposIs == ASSUME RamWritten PROVE RamWpos = RAM!pointer
<1>1. /\ Len(m_buffers) \in Nat /\ out.index \in -1..(Len(m_buffers) - 1) /\ out.pos \in Nat /\ out.start \in Nat
      /\ out.index = -1 => out.pos = 0 /\ out.start = 0
  BY DEF RamWritten, RamPlaced
<1> QED
  BY <1>1, RamPlaceOf DEF RamWpos, RAM!pointer

LEMMA RamWposStays == ASSUME RamWritten' PROVE RamWpos' = RAM!pointer'
<1>1. /\ Len(m_buffers') \in Nat /\ out'.index \in -1..(Len(m_buffers') - 1) /\ out'.pos \in Nat /\ out'.start \in Nat
      /\ out'.index = -1 => out'.pos = 0 /\ out'.start = 0
  BY DEF RamWritten, RamPlaced
<1> QED
  BY <1>1, RamPlaceOf DEF RamWpos, RAM!pointer

LEMMA RamFlatOverwrites ==
  ASSUME NEW d, NEW p, NEW bs PROVE RAM!Flat!Overwrite(d, p, bs) = Overwrite(d, p, bs)
BY DEF Overwrite, RAM!Flat!Overwrite

LEMMA RamFlatWrites ==
  ASSUME RamWritten, NEW bs \in Seq(Byte), bs # <<>>, RAM!Write(bs)
  PROVE  RamWritten' /\ RAM!Flat!Write
<1> DEFINE p == RamWpos
           n == Len(bs)
<1>1. RamWritten' /\ RAM!pointer' = RAM!pointer + n /\ RamData' = RAM!Flat!Overwrite(RamData, RAM!pointer, bs)
  BY RamWrites
<1>2. p = RAM!pointer /\ p' = RAM!pointer'
  BY <1>1, RamWposIs, RamWposStays
<1>3. p \in Nat /\ p <= Len(RamData) /\ RamData \in Seq(Byte) /\ Len(RamData) \in Nat
  BY <1>2, RamPointer, RamDataIs
<1>4. n \in Nat /\ n > 0
  OBVIOUS
<1>5. RamData' = Overwrite(RamData, p, bs)
  BY <1>1, <1>2, RamFlatOverwrites
<1> HIDE DEF p, n
<1>6. /\ RamData' \in Seq(Byte) /\ Len(RamData') \in Nat /\ p + n <= Len(RamData')
      /\ bs = SubSeq(RamData', p + 1, p + n)
  <2>1. /\ Overwrite(RamData, p, bs) \in Seq(Byte)
        /\ Len(Overwrite(RamData, p, bs)) = IF p + n > Len(RamData) THEN p + n ELSE Len(RamData)
    BY <1>3, OverwriteIs DEF n
  <2>2. bs = SubSeq(Overwrite(RamData, p, bs), p + 1, p + n)
    BY <1>3, OverwriteGives DEF n
  <2> QED
    BY <1>3, <1>4, <1>5, <2>1, <2>2
<1>7. n \in 1..(Len(RamData') - p)
  BY <1>3, <1>4, <1>6
<1>8. RamData' = RAM!Flat!Overwrite(RamData, p, SubSeq(RamData', p + 1, p + n))
  BY <1>5, <1>6, RamFlatOverwrites
<1>9. p' = p + n
  BY <1>1, <1>2
<1>10. ~ramClosed /\ UNCHANGED <<ramClosed, ramIn, ramGot>>
  BY DEF RAM!Write, RAM!input
<1>11. RAM!Flat!Write
  BY <1>6, <1>7, <1>8, <1>9, <1>10 DEF RAM!Flat!Write, RamData, RamWpos, p, RAM!get_file_pointer
<1> QED
  BY <1>1, <1>11

\* What a step of the output stream is to the flat file.
LEMMA RamOutputFlat ==
  ASSUME RamWritten, RAM!Output
  PROVE  RamWritten' /\ [RAM!Flat!Next]_(RAM!Flat!vars) /\ ~ramClosed /\ UNCHANGED RAM!input
<1>1. ASSUME NEW bs \in RAM!BoundedSeq(Byte, RAM_BUFFER_SIZE), bs # <<>>, RAM!Write(bs)
      PROVE  RamWritten' /\ [RAM!Flat!Next]_(RAM!Flat!vars) /\ ~ramClosed /\ UNCHANGED RAM!input
  <2>1. bs \in Seq(Byte)
    <3>1. PICK m \in 0..RAM_BUFFER_SIZE : bs \in [1..m -> Byte]
      BY <1>1 DEF RAM!BoundedSeq, RAM!SeqOf
    <3>2. m \in Nat
      BY RAMAssumption
    <3> QED
      BY <3>1, <3>2, SeqDef
  <2>2. RamWritten' /\ RAM!Flat!Write
    BY <1>1, <2>1, RamFlatWrites
  <2> QED
    BY <1>1, <2>2 DEF RAM!Write, RAM!Flat!Next
<1>2. ASSUME NEW p \in 0..RAM!DataLength, RAM!Seek(p)
      PROVE  RamWritten' /\ [RAM!Flat!Next]_(RAM!Flat!vars) /\ ~ramClosed /\ UNCHANGED RAM!input
  <2>1. RamWritten' /\ RamData' = RamData /\ RAM!pointer' = p
    BY <1>2, RamSeek
  <2>2. RamWpos' \in 0..Len(RamData)
    BY <2>1, RamWposStays, RamDataIs
  <2>3. ~ramClosed /\ UNCHANGED <<ramClosed, ramIn, ramGot, RAM!input>>
    BY <1>2 DEF RAM!Seek, RAM!input
  <2>4. RAM!Flat!Seek
    BY <2>1, <2>2, <2>3 DEF RAM!Flat!Seek, RamData, RamWpos, RAM!get_file_pointer
  <2> QED
    BY <2>1, <2>3, <2>4 DEF RAM!Flat!Next
<1>3. ASSUME RAM!Flush
      PROVE  RamWritten' /\ [RAM!Flat!Next]_(RAM!Flat!vars) /\ ~ramClosed /\ UNCHANGED RAM!input
  <2>1. ~ramClosed /\ UNCHANGED <<m_buffers, out, ramClosed, ramIn, ramGot, RAM!input>> /\ m_length' = RAM!DataLength
    BY <1>3 DEF RAM!Flush, RAM!input
  <2>2. ramClosed' \in BOOLEAN
    BY <2>1 DEF RamWritten
  <2>3. RamWritten' /\ RamData' = RamData /\ RAM!pointer' = RAM!pointer
    BY <2>1, <2>2, RamFlush
  <2>4. RamWpos' = RamWpos
    BY <2>3, RamWposIs, RamWposStays
  <2>5. UNCHANGED RAM!Flat!vars
    BY <2>1, <2>3, <2>4 DEF RAM!Flat!vars, RamData, RamWpos, RAM!get_file_pointer
  <2> QED
    BY <2>1, <2>3, <2>5
<1>4. ASSUME RAM!Close
      PROVE  RamWritten' /\ [RAM!Flat!Next]_(RAM!Flat!vars) /\ ~ramClosed /\ UNCHANGED RAM!input
  <2>1. ~ramClosed /\ UNCHANGED <<m_buffers, out, ramIn, ramGot, RAM!input>>
        /\ m_length' = RAM!DataLength /\ ramClosed' = TRUE
    BY <1>4 DEF RAM!Close, RAM!input
  <2>2. RamWritten' /\ RamData' = RamData /\ RAM!pointer' = RAM!pointer
    BY <2>1, RamFlush
  <2>3. RamWpos' = RamWpos
    BY <2>2, RamWposIs, RamWposStays
  <2>4. RAM!Flat!Close
    BY <2>1, <2>2, <2>3 DEF RAM!Flat!Close, RamData, RamWpos, RAM!get_file_pointer
  <2> QED
    BY <2>1, <2>2, <2>4 DEF RAM!Flat!Next
<1>5. ASSUME RAM!Reset
      PROVE  RamWritten' /\ [RAM!Flat!Next]_(RAM!Flat!vars) /\ ~ramClosed /\ UNCHANGED RAM!input
  <2>1. ~ramClosed /\ UNCHANGED <<ramClosed, ramIn, ramGot, RAM!input>>
    BY <1>5 DEF RAM!Reset, RAM!input
  <2>2. RamWritten' /\ RamData' = <<>> /\ RAM!pointer' = 0
    BY <1>5, RamReset
  <2>3. RamWpos' = 0
    BY <2>2, RamWposStays
  <2>4. RAM!Flat!Reset
    BY <2>1, <2>2, <2>3 DEF RAM!Flat!Reset, RamData, RamWpos, RAM!get_file_pointer
  <2> QED
    BY <2>1, <2>2, <2>4 DEF RAM!Flat!Next
<1> QED
  BY <1>1, <1>2, <1>3, <1>4, <1>5 DEF RAM!Output

-----------------------------------------------------------------------------
(* The input streams in memory *)

\* What is known of an input stream, wherever it went.
RamInput(s) ==
  /\ s \in RAM!Inputs
  /\ s.index >= -1 /\ s.pos <= RAM_BUFFER_SIZE /\ s.len <= RAM_BUFFER_SIZE /\ s.length = m_length
  /\ s.current # None => s.current < Len(m_buffers)

RamReading ==
  /\ ramIn \in [Readers -> RAM!Inputs \cup {None}] /\ DOMAIN ramGot = Readers /\ astray \in BOOLEAN
  /\ \A r \in Readers : ramIn[r] # None => ramClosed /\ RamInput(ramIn[r])

\* Where the length of the file is in its last buffer, an input stream is in the
\* buffer of its position, or at the start, and its index is ahead of that only at
\* the end.
RamFollows(s) ==
  /\ RAM_BUFFER_SIZE * Len(m_buffers) < m_length + RAM_BUFFER_SIZE
  /\ s.current = None =>
       /\ s.pos = 0 /\ s.start = 0 /\ s.len = 0
       /\ s.index = -1 \/ Len(m_buffers) = 0
  /\ s.current # None =>
       /\ s.start = RAM_BUFFER_SIZE * s.current
       /\ s.len = RAM!Smaller(m_length - RAM_BUFFER_SIZE * s.current, RAM_BUFFER_SIZE)
       /\ s.index >= s.current
       /\ s.index = s.current \/ s.current = Len(m_buffers) - 1

RamFollowing == ~astray => \A r \in Readers : ramIn[r] # None => RamFollows(ramIn[r])

\* Where the flat file takes an input stream to be.
RamPos(s) == IF s.index < 0 THEN 0 ELSE s.start + s.pos

LEMMA RamPosIs ==
  ASSUME NEW s, RamInput(s), RamFollows(s)
  PROVE  RamPos(s) = s.start + s.pos /\ s.start + s.pos \in Nat
<1>1. s.start \in Nat /\ s.pos \in Nat /\ s.index \in Int /\ s.current \in Nat \cup {None}
  BY DEF RamInput, RAM!Inputs
<1>2. CASE s.index < 0
  <2>1. s.current = None
    <3>1. SUFFICES ASSUME s.current # None PROVE FALSE
      OBVIOUS
    <3>2. s.current \in Nat /\ s.index >= s.current
      BY <1>1, <3>1 DEF RamFollows
    <3> QED
      BY <1>1, <1>2, <3>2
  <2>2. s.pos = 0 /\ s.start = 0
    BY <2>1 DEF RamFollows
  <2> QED
    BY <1>2, <2>2 DEF RamPos
<1>3. CASE ~(s.index < 0)
  BY <1>1, <1>3 DEF RamPos
<1> QED
  BY <1>2, <1>3

\* What there is to read in the buffer of a position: all but in the last one,
\* where it is up to the length of the file.
LEMMA RamReach ==
  ASSUME NEW n \in Nat \ {0}, NEW b \in Nat, NEW c \in 0..(b - 1), NEW m \in Nat,
         m <= n * b, n * b < m + n
  PROVE  /\ n * c \in Nat /\ RAM!Smaller(m - n * c, n) \in 1..n /\ n * c + RAM!Smaller(m - n * c, n) <= m
         /\ c = b - 1 => n * c + RAM!Smaller(m - n * c, n) = m
         /\ c # b - 1 => RAM!Smaller(m - n * c, n) = n
<1> DEFINE x == n * c
<1>1. x \in Nat
  OBVIOUS
<1> DEFINE y == n * b
<1>2. y \in Nat /\ m <= y /\ y < m + n
  OBVIOUS
<1>3. c = b - 1 => y = x + n
  <2>1. n * (c + 1) = n * c + n
    OBVIOUS
  <2> QED
    BY <2>1
<1>4. c # b - 1 => x + n + n <= y
  <2>1. SUFFICES ASSUME c # b - 1 PROVE x + n + n <= y
    OBVIOUS
  <2>2. n * (c + 2) <= n * b
    BY <2>1, Mono
  <2>3. n * (c + 2) = n * c + n + n
    OBVIOUS
  <2> QED
    BY <2>2, <2>3
<1> HIDE DEF x, y
<1>5. /\ RAM!Smaller(m - x, n) \in 1..n /\ x + RAM!Smaller(m - x, n) <= m
      /\ c = b - 1 => x + RAM!Smaller(m - x, n) = m
      /\ c # b - 1 => RAM!Smaller(m - x, n) = n
  <2>1. CASE c = b - 1
    <3>1. m - x \in 1..n
      BY <1>1, <1>2, <1>3, <2>1
    <3>2. RAM!Smaller(m - x, n) = m - x
      BY <1>1, <3>1 DEF RAM!Smaller
    <3> QED
      BY <1>1, <2>1, <3>1, <3>2
  <2>2. CASE c # b - 1
    <3>1. n < m - x
      BY <1>1, <1>2, <1>4, <2>2
    <3>2. RAM!Smaller(m - x, n) = n
      BY <1>1, <3>1 DEF RAM!Smaller
    <3> QED
      BY <1>1, <2>2, <3>1, <3>2
  <2> QED
    BY <2>1, <2>2
<1> QED
  BY <1>1, <1>5 DEF x

\* The same of an input stream: it has bytes before it in its buffer, or it is at the
\* end of the buffer, where the next one starts or the file ends.
LEMMA RamReaches ==
  ASSUME RamWritten, NEW s, RamInput(s), RamFollows(s), s.current # None
  PROVE  /\ s.current \in 0..(Len(m_buffers) - 1)
         /\ s.start \in Nat /\ s.len \in 1..RAM_BUFFER_SIZE /\ s.start + s.len <= m_length
         /\ s.current = Len(m_buffers) - 1 => s.start + s.len = m_length
         /\ s.current # Len(m_buffers) - 1 => s.len = RAM_BUFFER_SIZE /\ s.index = s.current
<1> DEFINE b == Len(m_buffers)
           c == s.current
<1>1. RAM_BUFFER_SIZE \in Nat \ {0} /\ b \in Nat /\ m_length \in Nat
  BY RAMAssumption DEF RamWritten
<1>2. m_length <= RAM_BUFFER_SIZE * b /\ RAM_BUFFER_SIZE * b < m_length + RAM_BUFFER_SIZE
  BY DEF RamWritten, RamFollows
<1>3. c \in Nat /\ c < b
  BY DEF RamInput, RAM!Inputs
<1>4. c \in 0..(b - 1)
  BY <1>1, <1>3
<1>5. /\ s.start = RAM_BUFFER_SIZE * c /\ s.len = RAM!Smaller(m_length - RAM_BUFFER_SIZE * c, RAM_BUFFER_SIZE)
      /\ s.index = c \/ c = b - 1
  BY DEF RamFollows
<1> HIDE DEF b, c
<1>6. /\ RAM_BUFFER_SIZE * c \in Nat
      /\ RAM!Smaller(m_length - RAM_BUFFER_SIZE * c, RAM_BUFFER_SIZE) \in 1..RAM_BUFFER_SIZE
      /\ RAM_BUFFER_SIZE * c + RAM!Smaller(m_length - RAM_BUFFER_SIZE * c, RAM_BUFFER_SIZE) <= m_length
      /\ c = b - 1 => RAM_BUFFER_SIZE * c + RAM!Smaller(m_length - RAM_BUFFER_SIZE * c, RAM_BUFFER_SIZE) = m_length
      /\ c # b - 1 => RAM!Smaller(m_length - RAM_BUFFER_SIZE * c, RAM_BUFFER_SIZE) = RAM_BUFFER_SIZE
  BY <1>1, <1>2, <1>4, RamReach
<1> QED
  BY <1>4, <1>5, <1>6 DEF b, c

\* switch_current_buffer() to a buffer that there is, and seek() in it.
RamIsAt(t, s, i, k) ==
  /\ t \in RAM!Inputs
  /\ t.index = i /\ t.current = i /\ t.pos = k /\ t.start = RAM_BUFFER_SIZE * i
  /\ t.len = RAM!Smaller(s.length - RAM_BUFFER_SIZE * i, RAM_BUFFER_SIZE) /\ t.length = s.length

LEMMA RamSwitches ==
  ASSUME NEW s \in RAM!Inputs, NEW i \in Nat, NEW k \in Nat
  PROVE  RamIsAt([RAM!SwitchedTo(i, s) EXCEPT !.pos = k], s, i, k) /\ RamIsAt(RAM!SwitchedTo(i, s), s, i, 0)
<1> DEFINE x == RAM_BUFFER_SIZE * i
           n == RAM!Smaller(s.length - RAM_BUFFER_SIZE * i, RAM_BUFFER_SIZE)
           t == RAM!SwitchedTo(i, s)
           u == [t EXCEPT !.pos = k]
<1>1. RAM_BUFFER_SIZE \in Nat /\ x \in Nat /\ s.length \in Nat
  BY RAMAssumption DEF RAM!Inputs
<1>2. n \in Int
  BY <1>1 DEF RAM!Smaller
<1>3. t = [index |-> i, pos |-> 0, start |-> x, length |-> s.length, current |-> i, len |-> n]
  BY DEF RAM!SwitchedTo
<1> HIDE DEF x, n, t
<1>4. /\ t \in RAM!Inputs
      /\ t.index = i /\ t.current = i /\ t.pos = 0 /\ t.start = x
      /\ t.len = n /\ t.length = s.length
  BY <1>1, <1>2, <1>3 DEF RAM!Inputs
<1>5. /\ u \in RAM!Inputs
      /\ u.index = t.index /\ u.current = t.current /\ u.pos = k /\ u.start = t.start
      /\ u.len = t.len /\ u.length = t.length
  BY <1>4 DEF RAM!Inputs
<1> HIDE DEF u
<1>6. RamIsAt(u, s, i, k) /\ RamIsAt(t, s, i, 0)
  BY <1>4, <1>5 DEF RamIsAt, x, n
<1> QED
  BY <1>6 DEF t, u

LEMMA RamSwitched ==
  ASSUME RamWritten, NEW s, RamInput(s), NEW i \in 0..(Len(m_buffers) - 1), NEW k \in 0..RAM_BUFFER_SIZE,
         NEW t, RamIsAt(t, s, i, k)
  PROVE  /\ RamInput(t)
         /\ RAM_BUFFER_SIZE * Len(m_buffers) < m_length + RAM_BUFFER_SIZE => RamFollows(t)
<1>1. RAM_BUFFER_SIZE \in Nat \ {0} /\ Len(m_buffers) \in Nat /\ m_length \in Nat /\ i \in Nat /\ i < Len(m_buffers)
  BY RAMAssumption DEF RamWritten
<1>2. RAM_BUFFER_SIZE * i \in Nat
  BY <1>1
<1>3. s.length = m_length /\ i # None
  BY <1>1, ByteAssumption DEF RamInput
<1>4. RAM!Smaller(m_length - RAM_BUFFER_SIZE * i, RAM_BUFFER_SIZE) <= RAM_BUFFER_SIZE
  BY <1>1, <1>2 DEF RAM!Smaller
<1>5. RamInput(t)
  BY <1>1, <1>3, <1>4 DEF RamInput, RamIsAt
<1>6. ASSUME RAM_BUFFER_SIZE * Len(m_buffers) < m_length + RAM_BUFFER_SIZE PROVE RamFollows(t)
  BY <1>1, <1>3, <1>6 DEF RamFollows, RamIsAt
<1> QED
  BY <1>5, <1>6

\* A step of one input stream, once the output stream is closed.
RamTurns(r, s) ==
  /\ ramClosed /\ r \in Readers /\ RamInput(s)
  /\ ramIn' = [ramIn EXCEPT ![r] = s]
  /\ UNCHANGED <<m_buffers, m_length, out, ramClosed>>
  /\ DOMAIN ramGot' = DOMAIN ramGot /\ astray' \in BOOLEAN
  /\ astray => astray'
  /\ ~astray' => RamFollows(s)

LEMMA OneRamStream ==
  ASSUME RamReading, RamFollowing, NEW r, NEW s, RamTurns(r, s)
  PROVE  RamReading' /\ RamFollowing'
<1>1. /\ ramIn \in [Readers -> RAM!Inputs \cup {None}] /\ r \in Readers /\ s \in RAM!Inputs
      /\ DOMAIN ramGot' = Readers /\ astray' \in BOOLEAN /\ ramClosed'
  BY DEF RamReading, RamTurns, RamInput
<1>2. ramIn' \in [Readers -> RAM!Inputs \cup {None}]
  BY <1>1 DEF RamTurns
<1>3. ASSUME NEW q \in Readers
      PROVE  (q = r /\ ramIn'[q] = s) \/ (q # r /\ ramIn'[q] = ramIn[q])
  BY <1>1 DEF RamTurns
<1>4. ASSUME NEW t PROVE (RamInput(t)' <=> RamInput(t)) /\ (RamFollows(t)' <=> RamFollows(t))
  BY DEF RamInput, RamFollows, RamTurns
<1>5. ASSUME NEW q \in Readers, ramIn'[q] # None PROVE RamInput(ramIn'[q])
  BY <1>3, <1>5 DEF RamReading, RamTurns
<1>6. RamReading'
  <2>1. ASSUME NEW q \in Readers, ramIn'[q] # None PROVE RamInput(ramIn[q])'
    BY <1>5, <2>1 DEF RamInput, RamTurns
  <2> QED
    BY <1>1, <1>2, <2>1 DEF RamReading
<1>7. RamFollowing'
  <2>1. SUFFICES ASSUME ~astray', NEW q \in Readers, ramIn'[q] # None PROVE RamFollows(ramIn[q])'
    BY DEF RamFollowing
  <2>2. RamFollows(ramIn'[q])
    BY <1>3, <2>1 DEF RamFollowing, RamTurns
  <2> QED
    BY <2>2 DEF RamFollows, RamTurns
<1> QED
  BY <1>6, <1>7

\* Where the input streams are.
RamPositions == [r \in Readers |-> IF ramIn[r] = None THEN None ELSE RamPos(ramIn[r])]

LEMMA RamTurnsPosition ==
  ASSUME RamWritten, RamReading, NEW r, NEW s, RamTurns(r, s)
  PROVE  /\ RamPositions' = [RamPositions EXCEPT ![r] = RamPos(s)]
         /\ RamPositions[r] = IF ramIn[r] = None THEN None ELSE RamPos(ramIn[r])
         /\ Len(RamData) = m_length /\ RamData \in Seq(Byte) /\ m_length \in Nat
         /\ UNCHANGED <<RamData, RamWpos, ramClosed>>
<1>1. /\ DOMAIN ramIn = Readers /\ r \in Readers /\ s # None /\ ramIn' = [ramIn EXCEPT ![r] = s]
      /\ UNCHANGED <<m_buffers, m_length, out, ramClosed>> /\ ramClosed
  BY RAMNoneAssumption DEF RamReading, RamTurns, RamInput
<1> DEFINE t(q) == IF ramIn'[q] = None THEN None ELSE RamPos(ramIn'[q])
           u(q) == IF q = r THEN RamPos(s) ELSE RamPositions[q]
<1>2. ASSUME NEW q \in Readers PROVE t(q) = u(q)
  <2>1. CASE q = r
    <3>1. ramIn'[q] = s
      BY <1>1, <2>1
    <3> QED
      BY <1>1, <2>1, <3>1
  <2>2. CASE q # r
    <3>1. ramIn'[q] = ramIn[q]
      BY <1>1, <2>2
    <3> QED
      BY <2>2, <3>1 DEF RamPositions
  <2> QED
    BY <2>1, <2>2
<1>3. RamPositions' = [q \in Readers |-> t(q)]
  BY DEF RamPositions, RamPos
<1>4. [RamPositions EXCEPT ![r] = RamPos(s)] = [q \in Readers |-> u(q)]
  BY DEF RamPositions
<1> HIDE DEF t, u
<1>5. RamPositions' = [RamPositions EXCEPT ![r] = RamPos(s)]
  BY <1>2, <1>3, <1>4
<1>6. RamPositions[r] = IF ramIn[r] = None THEN None ELSE RamPos(ramIn[r])
  BY <1>1 DEF RamPositions
<1>7. Len(RamData) = m_length /\ RamData \in Seq(Byte) /\ m_length \in Nat
  <2>1. RAM!pointer \in Nat /\ m_length \in Nat /\ RAM!pointer <= m_length
    BY <1>1, RamPointer DEF RamWritten
  <2>2. RAM!DataLength = m_length
    BY <2>1 DEF RAM!DataLength
  <2> QED
    BY <2>1, <2>2, RamDataIs
<1>8. UNCHANGED <<RamData, RamWpos, ramClosed>>
  <2>1. RAM!pointer' = RAM!pointer
    BY <1>1 DEF RAM!pointer
  <2>2. RAM!DataLength' = RAM!DataLength
    BY <1>1, <2>1 DEF RAM!DataLength
  <2>3. RamWpos' = RamWpos
    BY <1>1, <2>1 DEF RamWpos
  <2>4. RamData' = RamData
    BY <1>1, <2>2 DEF RamData, RAM!ByteAt
  <2> QED
    BY <1>1, <2>3, <2>4
<1> QED
  BY <1>5, <1>6, <1>7, <1>8

LEMMA RamFlatOpens ==
  ASSUME RamWritten, RamReading, NEW r, NEW s, RamTurns(r, s), ramIn[r] = None, RamPos(s) = 0, UNCHANGED ramGot
  PROVE  RAM!Flat!Open(r)
<1>1. /\ RamPositions' = [RamPositions EXCEPT ![r] = 0] /\ RamPositions[r] = None
      /\ UNCHANGED <<RamData, RamWpos, ramClosed>> /\ ramClosed
  BY RamTurnsPosition DEF RamTurns
<1> QED
  BY <1>1 DEF RAM!Flat!Open, RamPositions, RamPos, RamData, RamWpos, RAM!get_file_pointer

LEMMA RamFlatClones ==
  ASSUME RamWritten, RamReading, NEW r \in Readers, NEW q, NEW s, RamTurns(q, s), ramIn[r] # None,
         ramIn[q] = None, RamPos(s) = RamPos(ramIn[r]), RamPos(s) \in Nat, UNCHANGED ramGot
  PROVE  RAM!Flat!Clone(r, q)
<1>1. /\ RamPositions' = [RamPositions EXCEPT ![q] = RamPos(s)] /\ RamPositions[q] = None
      /\ UNCHANGED <<RamData, RamWpos, ramClosed>>
  BY RamTurnsPosition
<1>2. RamPositions[r] = RamPos(s) /\ RamPositions[r] # None
  BY ByteAssumption DEF RamPositions
<1>3. RamPositions' = [RamPositions EXCEPT ![q] = RamPositions[r]]
  BY <1>1, <1>2
<1> QED
  BY <1>1, <1>2, <1>3 DEF RAM!Flat!Clone, RamPositions, RamPos, RamData, RamWpos, RAM!get_file_pointer

LEMMA RamFlatReads ==
  ASSUME RamWritten, RamReading, NEW r, NEW s, RamTurns(r, s), ramIn[r] # None,
         NEW p \in Nat, p = RamPos(ramIn[r]), NEW n \in Nat \ {0}, p + n <= m_length, RamPos(s) = p + n,
         NEW bytes, bytes = SubSeq(RamData, p + 1, p + n), RAM!Returned(r, n, bytes)
  PROVE  RAM!Flat!Read(r)
<1>1. /\ RamPositions' = [RamPositions EXCEPT ![r] = p + n] /\ RamPositions[r] = p
      /\ Len(RamData) = m_length /\ m_length \in Nat /\ UNCHANGED <<RamData, RamWpos, ramClosed>>
  BY RamTurnsPosition
<1>2. p # None
  BY ByteAssumption
<1>3. n \in 1..(Len(RamData) - RamPositions[r])
  BY <1>1, <1>2
<1>4. ramGot' = [ramGot EXCEPT ![r] =
               [asked |-> n, bytes |-> SubSeq(RamData, RamPositions[r] + 1, RamPositions[r] + n)]]
  BY <1>1 DEF RAM!Returned
<1>5. RamPositions' = [RamPositions EXCEPT ![r] = RamPositions[r] + n]
  BY <1>1
<1> QED
  BY <1>1, <1>2, <1>3, <1>4, <1>5
    DEF RAM!Flat!Read, RamPositions, RamPos, RamData, RamWpos, RAM!get_file_pointer

LEMMA RamFlatPasses ==
  ASSUME RamWritten, RamReading, NEW r, NEW s, RamTurns(r, s), ramIn[r] # None,
         NEW p \in Nat, p = RamPos(ramIn[r]), p >= m_length, RamPos(s) = p, RAM!Returned(r, 1, EOF)
  PROVE  RAM!Flat!ReadPastEnd(r)
<1>1. /\ RamPositions' = [RamPositions EXCEPT ![r] = p] /\ RamPositions[r] = p
      /\ Len(RamData) = m_length /\ m_length \in Nat /\ UNCHANGED <<RamData, RamWpos, ramClosed>>
  BY RamTurnsPosition
<1>2. p # None /\ r \in Readers /\ DOMAIN ramGot = Readers
  BY ByteAssumption DEF RamTurns, RamReading
<1>3. ramGot'[r] = [asked |-> 1, bytes |-> EOF] /\ ramGot' = [ramGot EXCEPT ![r] = [asked |-> 1, bytes |-> EOF]]
  BY <1>2 DEF RAM!Returned
<1>4. ramGot'[r].asked = 1
  BY <1>3
<1>5. ramGot'[r].asked > Len(RamData) - RamPositions[r]
  BY <1>1, <1>4
<1>6. ramGot' = [ramGot EXCEPT ![r] = [asked |-> ramGot'[r].asked, bytes |-> EOF]]
  BY <1>3, <1>4
<1>7. p \in {RamPositions[r]} \cup RamPositions[r]..Len(RamData)
  BY <1>1
<1> QED
  BY <1>1, <1>2, <1>5, <1>6, <1>7
    DEF RAM!Flat!ReadPastEnd, RamPositions, RamPos, RamData, RamWpos, RAM!get_file_pointer

LEMMA RamFlatSeeks ==
  ASSUME RamWritten, RamReading, NEW r, NEW s, RamTurns(r, s), ramIn[r] # None,
         RamPos(ramIn[r]) \in Nat, RamPos(s) \in Nat, RAM!Returned(r, 0, <<>>)
  PROVE  RAM!Flat!SeekInput(r)
<1>1. /\ RamPositions' = [RamPositions EXCEPT ![r] = RamPos(s)] /\ RamPositions[r] \in Nat
      /\ UNCHANGED <<RamData, RamWpos, ramClosed>>
  BY RamTurnsPosition
<1>2. RamPositions[r] # None /\ RamPositions'[r] = RamPos(s)
  <2>1. r \in Readers /\ DOMAIN RamPositions = Readers
    BY DEF RamTurns, RamPositions
  <2> QED
    BY <1>1, <2>1, ByteAssumption
<1>3. RamPositions' = [RamPositions EXCEPT ![r] = RamPositions'[r]] /\ RamPositions'[r] \in Nat
  BY <1>1, <1>2
<1>4. ramGot' = [ramGot EXCEPT ![r] = [asked |-> 0, bytes |-> <<>>]]
  BY DEF RAM!Returned
<1> QED
  BY <1>1, <1>2, <1>3, <1>4
    DEF RAM!Flat!SeekInput, RamPositions, RamPos, RamData, RamWpos, RAM!get_file_pointer

\* The bytes of a buffer are those of the file from where it starts.
LEMMA RamSlice ==
  ASSUME RamWritten, NEW c \in 0..(Len(m_buffers) - 1), NEW k \in Nat, NEW n \in Nat,
         k + n <= RAM_BUFFER_SIZE, RAM_BUFFER_SIZE * c + k + n <= RAM!DataLength
  PROVE  SubSeq(m_buffers[c + 1], k + 1, k + n) =
           SubSeq(RamData, RAM_BUFFER_SIZE * c + k + 1, RAM_BUFFER_SIZE * c + k + n)
<1> DEFINE b == m_buffers[c + 1]
           x == RAM_BUFFER_SIZE * c
           a == SubSeq(b, k + 1, k + n)
<1>1. RAM_BUFFER_SIZE \in Nat \ {0} /\ Len(m_buffers) \in Nat /\ c \in Nat /\ x \in Nat
  BY RAMAssumption DEF RamWritten
<1>2. b \in Seq(Byte \cup {Junk}) /\ Len(b) = RAM_BUFFER_SIZE
  <2>1. m_buffers \in Seq(RAM!Buffer) /\ c + 1 \in 1..Len(m_buffers)
    BY <1>1 DEF RamWritten
  <2>2. b \in [1..RAM_BUFFER_SIZE -> Byte \cup {Junk}]
    BY <2>1 DEF RAM!Buffer
  <2> QED
    BY <1>1, <2>2, FunctionIsSeq
<1>3. RamData \in Seq(Byte) /\ Len(RamData) = RAM!DataLength /\ RAM!DataLength \in Nat
      /\ \A i \in 1..RAM!DataLength : RamData[i] = RAM!ByteAt(i - 1)
  BY RamDataIs, RamPointer
<1>4. x + k + n <= RAM!DataLength
  OBVIOUS
<1>5. ASSUME NEW j \in 1..n PROVE b[k + j] = RamData[(x + k) + j] /\ RamData[(x + k) + j] \in Byte
  <2> DEFINE y == (x + k) + j
             q == (x + k) + j - 1
             m == k + j - 1
  <2>1. m \in 0..(RAM_BUFFER_SIZE - 1) /\ y \in 1..RAM!DataLength /\ q = RAM_BUFFER_SIZE * c + m
        /\ q = y - 1 /\ m + 1 = k + j
    BY <1>1, <1>3, <1>4
  <2> HIDE DEF y, q, m, x
  <2>2. RamData[y] = RAM!ByteAt(q) /\ RamData[y] \in Byte
    BY <1>3, <2>1
  <2>3. (RAM_BUFFER_SIZE * c + m) \div RAM_BUFFER_SIZE = c /\ (RAM_BUFFER_SIZE * c + m) % RAM_BUFFER_SIZE = m
    BY <1>1, <2>1, DivIs
  <2>4. q \div RAM_BUFFER_SIZE = c /\ q % RAM_BUFFER_SIZE = m
    BY <2>1, <2>3
  <2>5. RAM!ByteAt(q) = m_buffers[c + 1][m + 1]
    BY <2>4 DEF RAM!ByteAt
  <2>6. RAM!ByteAt(q) = b[k + j]
    BY <2>1, <2>5
  <2> QED
    BY <2>2, <2>6 DEF y
<1> HIDE DEF b, x
<1>6. Len(a) = n /\ DOMAIN a = 1..n /\ \A j \in 1..n : a[j] = b[k + j]
  BY <1>1, <1>2
<1>s. a \in Seq(Byte \cup {Junk})
  BY <1>1, <1>2
<1> HIDE DEF a
<1>7. a \in Seq(Byte)
  <2>1. ASSUME NEW j \in 1..n PROVE a[j] \in Byte
    BY <1>5, <1>6
  <2>2. a \in [1..n -> Byte]
    BY <1>s, <1>6, <2>1, SeqDef
  <2> QED
    BY <2>2, SeqDef
<1>8. x + k \in Nat /\ (x + k) + n <= Len(RamData)
  BY <1>1, <1>3, <1>4
<1>9. \A j \in 1..n : a[j] = RamData[(x + k) + j]
  BY <1>5, <1>6
<1>10. a = SubSeq(RamData, (x + k) + 1, (x + k) + n)
  BY <1>3, <1>6, <1>7, <1>8, <1>9, IsASlice
<1> QED
  BY <1>10 DEF a, b, x

\* Only the place in its buffer, or only its index, of an input stream changes.
LEMMA RamPosSet ==
  ASSUME NEW t, RamInput(t), NEW k \in 0..RAM_BUFFER_SIZE
  PROVE  /\ RamInput([t EXCEPT !.pos = k])
         /\ [t EXCEPT !.pos = k].pos = k /\ [t EXCEPT !.pos = k].start = t.start
         /\ RamFollows(t) /\ t.current # None => RamFollows([t EXCEPT !.pos = k])
<1> DEFINE u == [t EXCEPT !.pos = k]
<1>1. k \in Nat /\ k <= RAM_BUFFER_SIZE
  BY RAMAssumption
<1>2. /\ u \in RAM!Inputs /\ u.index = t.index /\ u.current = t.current /\ u.pos = k
      /\ u.start = t.start /\ u.len = t.len /\ u.length = t.length
  BY <1>1 DEF RamInput, RAM!Inputs
<1> HIDE DEF u
<1>3. RamInput(u)
  BY <1>1, <1>2 DEF RamInput
<1>4. RamFollows(t) /\ t.current # None => RamFollows(u)
  BY <1>2 DEF RamFollows
<1> QED
  BY <1>2, <1>3, <1>4 DEF u

LEMMA RamIndexSet ==
  ASSUME NEW t, RamInput(t), NEW i \in Int, i >= -1
  PROVE  LET u == [t EXCEPT !.index = i]
         IN  /\ RamInput(u) /\ u.index = i /\ u.current = t.current /\ u.pos = t.pos
             /\ u.start = t.start /\ u.len = t.len /\ u.length = t.length
<1> DEFINE u == [t EXCEPT !.index = i]
<1>1. /\ u \in RAM!Inputs /\ u.index = i /\ u.current = t.current /\ u.pos = t.pos
      /\ u.start = t.start /\ u.len = t.len /\ u.length = t.length
  BY DEF RamInput, RAM!Inputs
<1> HIDE DEF u
<1>2. RamInput(u)
  BY <1>1 DEF RamInput
<1> QED
  BY <1>1, <1>2 DEF u

\* What is kept by each step of an input stream.
RamGoesOn ==
  /\ RamReading' /\ RamFollowing' /\ UNCHANGED <<m_buffers, m_length, out, ramClosed>>
  /\ ~astray' => RAM!Flat!Next

LEMMA RamOpens ==
  ASSUME RamWritten, RamReading, RamFollowing, NEW r \in Readers, RAM!Open(r)
  PROVE  RamGoesOn
<1> DEFINE s == [RAM!FreshIn EXCEPT !.length = m_length]
<1>1. RAM_BUFFER_SIZE \in Nat \ {0} /\ m_length \in Nat /\ m_buffers \in Seq(RAM!Buffer) /\ Len(m_buffers) \in Nat
  BY RAMAssumption DEF RamWritten
<1>2. /\ s \in RAM!Inputs /\ s.index = -1 /\ s.pos = 0 /\ s.start = 0 /\ s.len = 0 /\ s.length = m_length
      /\ s.current = None
  BY <1>1 DEF RAM!FreshIn, RAM!Inputs
<1>3. /\ ramClosed /\ ramIn[r] = None /\ ramIn' = [ramIn EXCEPT ![r] = s]
      /\ UNCHANGED <<m_buffers, m_length, out, ramClosed, ramGot>>
      /\ astray' = (astray \/ Len(m_buffers) * RAM_BUFFER_SIZE >= m_length + RAM_BUFFER_SIZE)
  BY DEF RAM!Open, RAM!file
<1> HIDE DEF s
<1>4. RamInput(s)
  BY <1>1, <1>2 DEF RamInput
<1>5. astray' \in BOOLEAN /\ (astray => astray')
  BY <1>3 DEF RamReading
<1>6. ~astray' => RamFollows(s)
  <2>1. SUFFICES ASSUME ~astray' PROVE RamFollows(s)
    OBVIOUS
  <2>2. ~(Len(m_buffers) * RAM_BUFFER_SIZE >= m_length + RAM_BUFFER_SIZE)
    BY <1>3, <2>1
  <2>3. RAM_BUFFER_SIZE * Len(m_buffers) < m_length + RAM_BUFFER_SIZE
    BY <1>1, <2>2
  <2> QED
    BY <1>2, <2>3 DEF RamFollows
<1>7. RamTurns(r, s)
  BY <1>3, <1>4, <1>5, <1>6 DEF RamTurns
<1>8. RamPos(s) = 0
  BY <1>2 DEF RamPos
<1>9. RAM!Flat!Open(r)
  BY <1>3, <1>7, <1>8, RamFlatOpens
<1> QED
  BY <1>3, <1>7, <1>9, OneRamStream DEF RamGoesOn, RAM!Flat!Next

LEMMA RamClones ==
  ASSUME RamWritten, RamReading, RamFollowing, NEW r \in Readers, NEW q \in Readers, RAM!Clone(r, q)
  PROVE  RamGoesOn
<1> DEFINE s == ramIn[r]
<1>1. /\ ramIn[r] # None /\ ramIn[q] = None /\ ramIn' = [ramIn EXCEPT ![q] = s]
      /\ UNCHANGED <<m_buffers, m_length, out, ramClosed, ramGot, astray>>
  BY DEF RAM!Clone, RAM!file
<1>2. ramClosed /\ RamInput(s) /\ astray' \in BOOLEAN /\ (~astray => RamFollows(s))
  BY <1>1 DEF RamReading, RamFollowing
<1>3. RamTurns(q, s)
  BY <1>1, <1>2 DEF RamTurns
<1>4. ~astray' => RAM!Flat!Clone(r, q)
  BY <1>1, <1>2, <1>3, RamFlatClones, RamPosIs
<1> QED
  BY <1>1, <1>3, <1>4, OneRamStream DEF RamGoesOn, RAM!Flat!Next

\* read_byte() and read_bytes() take bytes from the buffer, or from the next one.
LEMMA RamReads ==
  ASSUME RamWritten, RamReading, RamFollowing, NEW r \in Readers, NEW n \in 1..RAM_BUFFER_SIZE, RAM!Read(r, n)
  PROVE  RamGoesOn
<1> DEFINE s == ramIn[r]
           turn == s.pos >= s.len
           i == s.index + 1
           t == IF turn THEN RAM!SwitchedTo(i, s) ELSE s
           u == [t EXCEPT !.pos = t.pos + n]
           bytes == SubSeq(m_buffers[t.current + 1], t.pos + 1, t.pos + n)
<1>1. RAM_BUFFER_SIZE \in Nat \ {0} /\ Len(m_buffers) \in Nat /\ m_length \in Nat /\ n \in Nat
      /\ n >= 1 /\ n <= RAM_BUFFER_SIZE
  BY RAMAssumption DEF RamWritten
<1>2. /\ ramIn[r] # None /\ (turn => i < Len(m_buffers)) /\ (n = 1 \/ n <= t.len - t.pos)
      /\ RAM!Returned(r, n, bytes) /\ ramIn' = [ramIn EXCEPT ![r] = u]
      /\ UNCHANGED <<m_buffers, m_length, out, ramClosed, astray>>
  BY DEF RAM!Read, RAM!file
<1>3. ramClosed /\ RamInput(s) /\ astray' \in BOOLEAN /\ (~astray => RamFollows(s)) /\ DOMAIN ramGot = Readers
  BY <1>2 DEF RamReading, RamFollowing
<1>4. /\ s \in RAM!Inputs /\ s.index \in Int /\ s.index >= -1 /\ s.pos \in Nat /\ s.pos <= RAM_BUFFER_SIZE
      /\ s.len \in Int /\ s.len <= RAM_BUFFER_SIZE /\ s.start \in Nat
  BY <1>3 DEF RamInput, RAM!Inputs
<1> HIDE DEF s
<1>5. turn => i \in 0..(Len(m_buffers) - 1) /\ i \in Nat
  BY <1>1, <1>2, <1>4
<1>6. /\ RamInput(t) /\ t.pos + n <= RAM_BUFFER_SIZE
      /\ ~astray => /\ RamFollows(t) /\ t.current # None /\ t.pos + n <= t.len
                    /\ RamPos(s) = t.start + t.pos
  <2>1. CASE turn
    <3>1. RamIsAt(t, s, i, 0)
      BY <1>4, <1>5, <2>1, RamSwitches
    <3>2. t.pos = 0 /\ t.current = i /\ t.start = RAM_BUFFER_SIZE * i /\ i # None
      BY <1>5, <2>1, <3>1, ByteAssumption DEF RamIsAt
    <3>3. RamInput(t) /\ (RAM_BUFFER_SIZE * Len(m_buffers) < m_length + RAM_BUFFER_SIZE => RamFollows(t))
      <4>1. 0 \in 0..RAM_BUFFER_SIZE
        BY <1>1
      <4> QED
        BY <1>3, <1>5, <2>1, <3>1, <4>1, RamSwitched
    <3>4. t.len \in Int /\ t.len <= RAM_BUFFER_SIZE
      BY <3>3 DEF RamInput, RAM!Inputs
    <3> HIDE DEF t, i
    <3>5. t.pos + n <= RAM_BUFFER_SIZE
      BY <1>1, <1>2, <3>2, <3>4
    <3>6. ASSUME ~astray
          PROVE  /\ RamFollows(t) /\ t.current # None /\ t.pos + n <= t.len
                 /\ RamPos(s) = t.start + t.pos
      <4>1. RamFollows(s)
        BY <1>3, <3>6
      <4>2. RamFollows(t) /\ t.current # None
        BY <3>2, <3>3, <4>1 DEF RamFollows
      <4>3. t.len \in 1..RAM_BUFFER_SIZE
        BY <3>3, <4>2, RamReaches
      <4>4. t.pos + n <= t.len
        BY <1>1, <1>2, <3>2, <4>3
      <4>5. RamPos(s) = s.start + s.pos
        BY <1>3, <4>1, RamPosIs
      <4>6. s.start + s.pos = RAM_BUFFER_SIZE * i
        <5>1. CASE s.current = None
          <6>1. s.pos = 0 /\ s.start = 0 /\ (s.index = -1 \/ Len(m_buffers) = 0)
            BY <4>1, <5>1 DEF RamFollows
          <6>2. i = 0
            BY <1>1, <1>4, <1>5, <2>1, <6>1 DEF i
          <6> QED
            BY <1>1, <6>1, <6>2
        <5>2. CASE s.current # None
          <6>1. /\ s.current \in 0..(Len(m_buffers) - 1)
                /\ s.current # Len(m_buffers) - 1 => s.len = RAM_BUFFER_SIZE /\ s.index = s.current
            BY <1>3, <4>1, <5>2, RamReaches
          <6>2. s.index >= s.current /\ s.start = RAM_BUFFER_SIZE * s.current
            BY <4>1, <5>2 DEF RamFollows
          <6>3. s.current # Len(m_buffers) - 1
            BY <1>1, <1>4, <1>5, <2>1, <6>1, <6>2 DEF i
          <6>4. s.len = RAM_BUFFER_SIZE /\ i = s.current + 1
            BY <6>1, <6>3 DEF i
          <6>5. s.pos = RAM_BUFFER_SIZE
            BY <1>1, <1>4, <2>1, <6>4
          <6>6. RAM_BUFFER_SIZE * (s.current + 1) = RAM_BUFFER_SIZE * s.current + RAM_BUFFER_SIZE
            BY <1>1, <6>1
          <6> QED
            BY <6>2, <6>4, <6>5, <6>6
        <5> QED
          BY <5>1, <5>2
      <4> QED
        BY <1>1, <1>5, <2>1, <3>2, <4>2, <4>4, <4>5, <4>6
    <3> QED
      BY <3>3, <3>5, <3>6
  <2>2. CASE ~turn
    <3>1. t = s
      BY <2>2
    <3>2. s.pos < s.len
      BY <1>4, <2>2
    <3>3. s.pos + n <= s.len
      BY <1>1, <1>2, <1>4, <3>1, <3>2
    <3>4. s.pos + n <= RAM_BUFFER_SIZE
      BY <1>1, <1>4, <3>3
    <3>5. ASSUME ~astray PROVE RamFollows(s) /\ s.current # None /\ RamPos(s) = s.start + s.pos
      <4>1. RamFollows(s)
        BY <1>3, <3>5
      <4>2. s.current # None
        BY <1>4, <3>2, <4>1 DEF RamFollows
      <4> QED
        BY <1>3, <4>1, <4>2, RamPosIs
    <3> QED
      BY <1>3, <3>1, <3>3, <3>4, <3>5
  <2> QED
    BY <2>1, <2>2
<1> HIDE DEF turn, i, t
<1>7. t.pos \in Nat /\ t.pos + n \in 0..RAM_BUFFER_SIZE /\ t.start \in Nat /\ t.len \in Int
  BY <1>1, <1>6 DEF RamInput, RAM!Inputs
<1>8. /\ RamInput(u) /\ u.pos = t.pos + n /\ u.start = t.start
      /\ RamFollows(t) /\ t.current # None => RamFollows(u)
  BY <1>6, <1>7, RamPosSet
<1> HIDE DEF u
<1>9. RamTurns(r, u)
  <2>1. DOMAIN ramGot' = DOMAIN ramGot
    BY <1>2 DEF RAM!Returned
  <2> QED
    BY <1>2, <1>3, <1>6, <1>8, <2>1 DEF RamTurns
<1>10. ASSUME ~astray PROVE RAM!Flat!Read(r)
  <2> DEFINE p == t.start + t.pos
  <2>1. /\ RamFollows(t) /\ RamFollows(u) /\ t.current # None /\ t.pos + n <= t.len /\ RamPos(s) = p
        /\ p \in Nat
    BY <1>6, <1>7, <1>8, <1>10
  <2>2. /\ t.current \in 0..(Len(m_buffers) - 1) /\ t.start + t.len <= m_length
        /\ t.start = RAM_BUFFER_SIZE * t.current
    BY <1>6, <2>1, RamReaches DEF RamFollows
  <2>3. p + n <= m_length
    BY <1>1, <1>7, <2>1, <2>2
  <2>4. RamPos(u) = p + n
    <3>1. RamPos(u) = u.start + u.pos
      BY <1>8, <2>1, RamPosIs
    <3> QED
      BY <1>1, <1>7, <1>8, <3>1
  <2>5. bytes = SubSeq(RamData, p + 1, p + n)
    <3>1. p + n <= RAM!DataLength
      BY <1>1, <2>1, <2>3, RamPointer
    <3> DEFINE c == t.current
               k == t.pos
    <3>2. c \in 0..(Len(m_buffers) - 1) /\ k \in Nat /\ k + n <= RAM_BUFFER_SIZE
          /\ RAM_BUFFER_SIZE * c + k + n <= RAM!DataLength
      BY <1>6, <1>7, <2>2, <3>1
    <3> HIDE DEF c, k
    <3>3. SubSeq(m_buffers[c + 1], k + 1, k + n) =
            SubSeq(RamData, RAM_BUFFER_SIZE * c + k + 1, RAM_BUFFER_SIZE * c + k + n)
      BY <1>1, <3>2, RamSlice
    <3> QED
      BY <2>2, <3>3 DEF c, k
  <2> HIDE DEF p, bytes
  <2>6. n \in Nat \ {0} /\ ramIn[r] # None /\ p = RamPos(ramIn[r])
    BY <1>1, <1>2, <2>1 DEF s
  <2> QED
    BY <1>2, <1>9, <2>1, <2>3, <2>4, <2>5, <2>6, RamFlatReads
<1> QED
  BY <1>2, <1>9, <1>10, OneRamStream DEF RamGoesOn, RAM!Flat!Next

\* switch_current_buffer(true) at the end of the file throws.
LEMMA RamPasses ==
  ASSUME RamWritten, RamReading, RamFollowing, NEW r \in Readers, RAM!ReadPastEnd(r)
  PROVE  RamGoesOn
<1> DEFINE s == ramIn[r]
           u == [s EXCEPT !.index = s.index + 1]
<1>1. RAM_BUFFER_SIZE \in Nat \ {0} /\ Len(m_buffers) \in Nat /\ m_length \in Nat
      /\ m_length <= RAM_BUFFER_SIZE * Len(m_buffers)
  BY RAMAssumption DEF RamWritten
<1>2. /\ ramIn[r] # None /\ s.pos >= s.len /\ s.index + 1 >= Len(m_buffers)
      /\ RAM!Returned(r, 1, EOF) /\ ramIn' = [ramIn EXCEPT ![r] = u]
      /\ UNCHANGED <<m_buffers, m_length, out, ramClosed, astray>>
  BY DEF RAM!ReadPastEnd, RAM!file
<1>3. ramClosed /\ RamInput(s) /\ astray' \in BOOLEAN /\ (~astray => RamFollows(s)) /\ DOMAIN ramGot = Readers
  BY <1>2 DEF RamReading, RamFollowing
<1>4. /\ s.index \in Int /\ s.index >= -1 /\ s.pos \in Nat /\ s.len \in Int /\ s.start \in Nat
      /\ s.current \in Nat \cup {None}
  BY <1>3 DEF RamInput, RAM!Inputs
<1> HIDE DEF s
<1>5. s.index + 1 \in Int /\ s.index + 1 >= -1
  BY <1>4
<1>6. /\ RamInput(u) /\ u.index = s.index + 1 /\ u.current = s.current /\ u.pos = s.pos
      /\ u.start = s.start /\ u.len = s.len /\ u.length = s.length
  BY <1>3, <1>5, RamIndexSet
<1> HIDE DEF u
<1>7. ASSUME RamFollows(s)
      PROVE  RamFollows(u) /\ s.start + s.pos >= m_length
  <2>1. CASE s.current = None
    <3>1. s.pos = 0 /\ s.start = 0 /\ s.len = 0 /\ (s.index = -1 \/ Len(m_buffers) = 0)
      BY <1>7, <2>1 DEF RamFollows
    <3>2. Len(m_buffers) = 0
      BY <1>1, <1>2, <3>1
    <3>3. RAM_BUFFER_SIZE * Len(m_buffers) = 0
      BY <1>1, <3>2
    <3>4. m_length = 0
      BY <1>1, <3>3
    <3>5. RamFollows(u)
      BY <1>6, <1>7, <2>1, <3>1, <3>2 DEF RamFollows
    <3> QED
      BY <3>1, <3>4, <3>5
  <2>2. CASE s.current # None
    <3>1. /\ s.current \in 0..(Len(m_buffers) - 1) /\ s.start \in Nat /\ s.len \in 1..RAM_BUFFER_SIZE
          /\ s.current = Len(m_buffers) - 1 => s.start + s.len = m_length
          /\ s.current # Len(m_buffers) - 1 => s.index = s.current
      BY <1>3, <1>7, <2>2, RamReaches
    <3>2. s.current = Len(m_buffers) - 1
      BY <1>1, <1>2, <1>4, <3>1
    <3>3. s.start + s.pos >= m_length
      BY <1>1, <1>2, <1>4, <3>1, <3>2
    <3>4. s.index + 1 >= s.current
      BY <1>1, <1>2, <1>4, <3>1, <3>2
    <3>5. RamFollows(u)
      BY <1>6, <1>7, <2>2, <3>2, <3>4 DEF RamFollows
    <3> QED
      BY <3>3, <3>5
  <2> QED
    BY <2>1, <2>2
<1>8. RamTurns(r, u)
  <2>1. DOMAIN ramGot' = DOMAIN ramGot
    BY <1>2 DEF RAM!Returned
  <2> QED
    BY <1>2, <1>3, <1>6, <1>7, <2>1 DEF RamTurns
<1>9. ASSUME ~astray PROVE RAM!Flat!ReadPastEnd(r)
  <2> DEFINE p == s.start + s.pos
  <2>1. RamFollows(s) /\ RamFollows(u) /\ p >= m_length
    BY <1>3, <1>7, <1>9
  <2>2. RamPos(s) = p /\ p \in Nat
    BY <1>3, <2>1, RamPosIs
  <2>3. RamPos(u) = p
    <3>1. RamPos(u) = u.start + u.pos
      BY <1>6, <2>1, RamPosIs
    <3> QED
      BY <1>6, <3>1
  <2> HIDE DEF p
  <2>4. p = RamPos(ramIn[r])
    BY <2>2 DEF s
  <2> QED
    BY <1>2, <1>8, <2>1, <2>2, <2>3, <2>4, RamFlatPasses
<1> QED
  BY <1>2, <1>8, <1>9, OneRamStream DEF RamGoesOn, RAM!Flat!Next

\* seek() stays in the buffer, switches to another one, or goes behind the last one.
LEMMA RamSeeks ==
  ASSUME RamWritten, RamReading, RamFollowing, NEW r \in Readers, NEW p \in Nat, RAM!SeekInput(r, p)
  PROVE  RamGoesOn
<1> DEFINE s == ramIn[r]
           i == p \div RAM_BUFFER_SIZE
           k == p % RAM_BUFFER_SIZE
           b == Len(m_buffers)
           outside == s.current = None \/ p < s.start \/ p >= s.start + RAM_BUFFER_SIZE
           t == IF ~outside THEN s
                ELSE IF i >= b THEN [s EXCEPT !.index = i - 1]
                ELSE RAM!SwitchedTo(i, s)
           u == [t EXCEPT !.pos = k]
<1>1. RAM_BUFFER_SIZE \in Nat \ {0} /\ b \in Nat /\ m_length \in Nat
  BY RAMAssumption DEF RamWritten
<1>2. i \in Nat /\ k \in 0..(RAM_BUFFER_SIZE - 1)
  BY <1>1, DivMod
<1>3. /\ ramIn[r] # None /\ RAM!Returned(r, 0, <<>>) /\ ramIn' = [ramIn EXCEPT ![r] = u]
      /\ UNCHANGED <<m_buffers, m_length, out, ramClosed>> /\ astray' = (astray \/ i >= b)
  BY DEF RAM!SeekInput, RAM!file
<1>4. ramClosed /\ RamInput(s) /\ astray \in BOOLEAN /\ (~astray => RamFollows(s)) /\ DOMAIN ramGot = Readers
  BY <1>3 DEF RamReading, RamFollowing
<1>5. s \in RAM!Inputs
  BY <1>4 DEF RamInput
<1>6. k \in 0..RAM_BUFFER_SIZE /\ k \in Nat
  BY <1>1, <1>2
<1> HIDE DEF s, i, k, b
<1>7. RamInput(u) /\ (RamFollows(s) /\ i < b => RamFollows(u))
  <2>1. CASE ~outside
    <3>1. t = s /\ s.current # None
      BY <2>1
    <3> HIDE DEF t
    <3> QED
      BY <1>4, <1>6, <3>1, RamPosSet
  <2>2. CASE outside /\ i >= b
    <3>1. t = [s EXCEPT !.index = i - 1]
      BY <2>2
    <3>2. i - 1 \in Int /\ i - 1 >= -1 /\ ~(i < b)
      BY <1>1, <1>2, <2>2
    <3>3. RamInput(t)
      BY <1>4, <3>1, <3>2, RamIndexSet
    <3> HIDE DEF t
    <3> QED
      BY <1>6, <3>2, <3>3, RamPosSet
  <2>3. CASE outside /\ ~(i >= b)
    <3>1. t = RAM!SwitchedTo(i, s)
      BY <2>3
    <3>2. i \in 0..(Len(m_buffers) - 1)
      BY <1>1, <1>2, <2>3 DEF b
    <3>3. RamIsAt(u, s, i, k)
      BY <1>2, <1>5, <1>6, <3>1, RamSwitches
    <3> HIDE DEF u
    <3>4. RamInput(u) /\ (RAM_BUFFER_SIZE * Len(m_buffers) < m_length + RAM_BUFFER_SIZE => RamFollows(u))
      BY <1>4, <1>6, <3>2, <3>3, RamSwitched
    <3> QED
      BY <3>4 DEF RamFollows
  <2> QED
    BY <2>1, <2>2, <2>3
<1> HIDE DEF u
<1>8. astray' \in BOOLEAN /\ (astray => astray') /\ (~astray' => ~astray /\ i < b)
  <2>1. astray' \in BOOLEAN /\ (astray => astray') /\ (~astray' => ~astray /\ ~(i >= b))
    BY <1>3, <1>4, Zenon
  <2>2. ~(i >= b) => i < b
    BY <1>1, <1>2
  <2> QED
    BY <2>1, <2>2
<1>9. RamTurns(r, u)
  <2>1. DOMAIN ramGot' = DOMAIN ramGot
    BY <1>3 DEF RAM!Returned
  <2> QED
    BY <1>3, <1>4, <1>7, <1>8, <2>1 DEF RamTurns
<1>10. ASSUME ~astray' PROVE RAM!Flat!SeekInput(r)
  <2>1. RamFollows(s) /\ RamFollows(u)
    BY <1>4, <1>7, <1>8, <1>10
  <2>2. RamPos(ramIn[r]) \in Nat
    BY <1>4, <2>1, RamPosIs DEF s
  <2>3. RamPos(u) \in Nat
    BY <1>7, <2>1, RamPosIs
  <2> QED
    BY <1>3, <1>9, <2>2, <2>3, RamFlatSeeks
<1> QED
  BY <1>3, <1>9, <1>10, OneRamStream DEF RamGoesOn, RAM!Flat!Next

LEMMA RamWrittenStays ==
  ASSUME RamWritten, UNCHANGED <<m_buffers, m_length, out, ramClosed>>
  PROVE  RamWritten'
<1>1. RAM!pointer' = RAM!pointer
  BY DEF RAM!pointer
<1>2. RAM!DataLength' = RAM!DataLength
  BY <1>1 DEF RAM!DataLength
<1>3. RamPlaced'
  BY DEF RamWritten, RamPlaced
<1>4. \A p \in 0..(RAM!DataLength' - 1) : RAM!ByteAt(p)' \in Byte
  <2>1. \A p : RAM!ByteAt(p)' = RAM!ByteAt(p)
    BY DEF RAM!ByteAt
  <2> QED
    BY <1>2, <2>1 DEF RamWritten
<1> QED
  BY <1>1, <1>2, <1>3, <1>4 DEF RamWritten

\* Every step of the input streams.
LEMMA RamInputFlat ==
  ASSUME RamWritten, RamReading, RamFollowing, RAM!Input
  PROVE  RamGoesOn /\ RamWritten'
<1>1. PICK r \in Readers :
        \/ RAM!Open(r) \/ RAM!ReadPastEnd(r)
        \/ \E q \in Readers : RAM!Clone(r, q)
        \/ \E n \in 1..RAM_BUFFER_SIZE : RAM!Read(r, n)
        \/ \E p \in 0..RAMLength : RAM!SeekInput(r, p)
  BY DEF RAM!Input
<1>2. ASSUME NEW p \in 0..RAMLength, RAM!SeekInput(r, p) PROVE RamGoesOn
  BY <1>2, RamSeeks, RAMAssumption
<1>3. RamGoesOn
  BY <1>1, <1>2, RamOpens, RamPasses, RamClones, RamReads
<1> QED
  BY <1>3, RamWrittenStays DEF RamGoesOn

-----------------------------------------------------------------------------
(* The whole *)

RamFlatInv == RamWritten /\ RamReading /\ RamFollowing

LEMMA RamStarts ==
  ASSUME RAM!Init
  PROVE  RamFlatInv /\ RAM!Flat!Init
<1>1. /\ m_buffers = <<>> /\ m_length = 0 /\ out = RAM!Fresh /\ ramClosed = FALSE /\ astray = FALSE
      /\ ramIn = [r \in Readers |-> None]
      /\ ramGot = [r \in Readers |-> [asked |-> 0, bytes |-> <<>>]]
  BY DEF RAM!Init
<1>2. RAM_BUFFER_SIZE \in Nat \ {0} /\ RAM_BUFFER_SIZE * 0 = 0
  BY RAMAssumption
<1>3. /\ out.index = -1 /\ out.pos = 0 /\ out.start = 0 /\ out.len = 0 /\ RAM!pointer = 0 /\ RAM!DataLength = 0
      /\ Len(m_buffers) = 0 /\ m_buffers \in Seq(RAM!Buffer)
  BY <1>1 DEF RAM!Fresh, RAM!pointer, RAM!DataLength
<1>4. RamWritten
  <2>1. RamPlaced
    BY <1>1, <1>2, <1>3 DEF RamPlaced, RAM!Fresh
  <2>2. m_length \in Nat /\ m_length <= RAM_BUFFER_SIZE * Len(m_buffers) /\ ramClosed \in BOOLEAN /\ ~ramClosed
    <3>1. ramClosed \in BOOLEAN /\ ~ramClosed
      BY <1>1, Zenon
    <3>2. m_length \in Nat /\ m_length <= RAM_BUFFER_SIZE * Len(m_buffers)
      BY <1>1, <1>2, <1>3
    <3> QED
      BY <3>1, <3>2
  <2>3. 0..(RAM!DataLength - 1) = {}
    BY <1>3
  <2> QED
    BY <1>3, <2>1, <2>2, <2>3 DEF RamWritten
<1>5. RamReading /\ RamFollowing
  BY <1>1 DEF RamReading, RamFollowing
<1>6. RamData = <<>>
  <2>1. Len(RamData) = RAM!DataLength /\ RamData \in Seq(Byte)
    BY <1>4, RamDataIs
  <2> QED
    BY <1>3, <2>1
<1>7. RamWpos = 0
  BY <1>3 DEF RamWpos
<1>8. [r \in Readers |-> IF ramIn[r] = None THEN None ELSE RAM!get_file_pointer(r)] = [r \in Readers |-> None]
  BY <1>1
<1>9. RAM!Flat!Init
  BY <1>1, <1>6, <1>7, <1>8 DEF RAM!Flat!Init, RamData, RamWpos
<1> QED
  BY <1>4, <1>5, <1>9 DEF RamFlatInv

\* A step of the streams on a RAMFile is one of the flat file, until an input
\* stream goes astray.
LEMMA RamSteps ==
  ASSUME RamFlatInv, RAM!Next
  PROVE  RamFlatInv' /\ [~astray' => RAM!Flat!Next]_(RAM!Flat!vars)
<1>1. RamWritten /\ RamReading /\ RamFollowing
  BY DEF RamFlatInv
<1>2. ASSUME RAM!Output PROVE RamFlatInv' /\ [~astray' => RAM!Flat!Next]_(RAM!Flat!vars)
  <2>1. RamWritten' /\ [RAM!Flat!Next]_(RAM!Flat!vars) /\ ~ramClosed /\ UNCHANGED <<ramIn, ramGot, astray>>
    BY <1>1, <1>2, RamOutputFlat DEF RAM!input
  <2>2. \A r \in Readers : ramIn[r] = None
    BY <1>1, <2>1 DEF RamReading
  <2>3. RamReading' /\ RamFollowing'
    BY <1>1, <2>1, <2>2 DEF RamReading, RamFollowing
  <2> QED
    BY <2>1, <2>3 DEF RamFlatInv
<1>3. ASSUME RAM!Input PROVE RamFlatInv' /\ [~astray' => RAM!Flat!Next]_(RAM!Flat!vars)
  BY <1>1, <1>3, RamInputFlat DEF RamFlatInv, RamGoesOn
<1> QED
  BY <1>2, <1>3 DEF RAM!Next

LEMMA RamStays ==
  ASSUME RamFlatInv, UNCHANGED RAM!vars
  PROVE  RamFlatInv' /\ UNCHANGED RAM!Flat!vars
<1>1. UNCHANGED <<m_buffers, m_length, out, ramClosed, ramIn, ramGot, astray>>
  BY DEF RAM!vars
<1>2. RAM!pointer' = RAM!pointer
  BY <1>1 DEF RAM!pointer
<1>3. RAM!DataLength' = RAM!DataLength
  BY <1>1, <1>2 DEF RAM!DataLength
<1>4. RamFlatInv'
  <2>1. RamWritten'
    BY <1>1, RamWrittenStays DEF RamFlatInv
  <2>2. RamReading' /\ RamFollowing'
    BY <1>1 DEF RamFlatInv, RamReading, RamInput, RamFollowing, RamFollows
  <2> QED
    BY <2>1, <2>2 DEF RamFlatInv
<1>5. UNCHANGED RAM!Flat!vars
  BY <1>1, <1>2, <1>3 DEF RAM!Flat!vars, RAM!ByteAt, RAM!get_file_pointer
<1> QED
  BY <1>4, <1>5

\* What TypeOK says of the streams.
LEMMA RamTypes ==
  ASSUME RamFlatInv
  PROVE  RAM!TypeOK
<1>1. /\ m_buffers \in Seq(RAM!Buffer) /\ Len(m_buffers) \in Nat /\ m_length \in Nat /\ ramClosed \in BOOLEAN
      /\ RAM_BUFFER_SIZE \in Nat \ {0}
  BY RAMAssumption DEF RamFlatInv, RamWritten
<1>2. out.index \in -1..(Len(m_buffers) - 1) /\ out.pos \in 0..RAM_BUFFER_SIZE
  BY <1>1 DEF RamFlatInv, RamWritten, RamPlaced, RAM!Fresh
<1>3. ASSUME NEW r \in Readers, ramIn[r] # None
      PROVE  ramIn[r].pos \in 0..RAM_BUFFER_SIZE /\ ramIn[r].current \in 0..(Len(m_buffers) - 1) \cup {None}
  <2>1. RamInput(ramIn[r])
    BY <1>3 DEF RamFlatInv, RamReading
  <2> QED
    BY <1>1, <2>1 DEF RamInput, RAM!Inputs
<1>4. astray \in BOOLEAN
  BY DEF RamFlatInv, RamReading
<1> QED
  BY <1>1, <1>2, <1>3, <1>4 DEF RAM!TypeOK


-----------------------------------------------------------------------------
(* The streams of the three directories *)

\* Without those of RAMDirectory, they are the streams of MMapStream.
LEMMA StreamsAreStreams == StreamsSpec => StreamSpec
<1>1. StreamsInit => Init
  BY DEF StreamsInit
<1>2. [StreamsNext]_<<vars, ramVars>> => [StreamNext]_vars
  BY DEF StreamsNext
<1> QED
  BY <1>1, <1>2, PTL DEF StreamsSpec, StreamSpec

LEMMA RamInvariant == StreamsSpec => []RamFlatInv
<1>1. StreamsInit => RamFlatInv
  BY RamStarts DEF StreamsInit
<1>2. RamFlatInv /\ [StreamsNext]_<<vars, ramVars>> => RamFlatInv'
  BY RamSteps, RamStays DEF StreamsNext, ramVars, RAM!vars
<1> QED
  BY <1>1, <1>2, PTL DEF StreamsSpec

\* The variables of the streams of all three directories have values of their types.
THEOREM StreamsTypeCorrect == StreamsSpec => []StreamsTypeOK
<1>1. TypeOK /\ RamFlatInv => StreamsTypeOK
  BY RamTypes DEF StreamsTypeOK
<1> QED
  BY <1>1, StreamsAreStreams, RamInvariant, TypeCorrect, PTL

\* What is proved of the buffered and the mapped streams holds beside those in
\* memory: they are a flat file, the position that read_internal() asserts is
\* right, a good output stream is in step, and no read is silently short.
THEOREM StreamsHold ==
  StreamsSpec => FlatSpec /\ []PositionAsserted /\ []GoodIsInStep /\ []AnswersInFull
BY StreamsAreStreams, StreamsAreFlat, PositionIsAsserted, StaysInStep, AnswersAreFull, PTL

\* The streams on a RAMFile implement the flat file until a stream goes behind the
\* last buffer, or a file with whole buffers behind its length is opened.
THEOREM RAMStreamsAreFlat == StreamsSpec => RAMFlatSpec
<1>1. StreamsInit => RAM!Flat!Init
  BY RamStarts DEF StreamsInit
<1>2. RamFlatInv /\ [StreamsNext]_<<vars, ramVars>> => [~astray' => RAM!Flat!Next]_(RAM!Flat!vars)
  BY RamSteps, RamStays DEF StreamsNext, ramVars, RAM!vars
<1> QED
  BY <1>1, <1>2, RamInvariant, PTL DEF StreamsSpec, RAMFlatSpec, RAM!FlatSpec
=============================================================================
