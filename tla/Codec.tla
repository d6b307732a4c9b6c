---------------------------------- MODULE Codec ----------------------------------
(***************************************************************************)
(* The codec of numbers, strings and maps: what IndexOutput                *)
(* (src/store/index_output.cpp) writes through write_byte() and            *)
(* write_bytes(), copy_bytes() moves to another file, and IndexInput       *)
(* (src/store/index_input.cpp) reads back in the same order.  Widths are   *)
(* constants: a byte of the source has a flag and 7 bits of a number, an   *)
(* int has 4 bytes and a long 2 ints, so that the last group of a number   *)
(* has fewer bits than the others.                                         *)
(***************************************************************************)
EXTENDS Integers, Sequences, FiniteSets, SequencesExt

CONSTANTS
  Flag,                 \* the bit that says another byte follows: 0x80
  IntBytes,             \* the bytes of an int32_t
  BitOr(_, _),          \* | of numbers without a sign
  Ints, Longs,          \* the numbers that are written
  Strings, Maps,        \* the strings, and the maps from strings to strings
  Null,                 \* of a map: there is none
  COPY_BUFFER_SIZE,     \* IndexOutput::COPY_BUFFER_SIZE
  MaxValues             \* bound: how many values are written

Base == 2 * Flag                \* the values of a byte

\* The values of that many bytes.
Power[n \in 0..IntBytes] == IF n = 0 THEN 1 ELSE Power[n - 1] * Base

IntBase == Power[IntBytes]      \* the values of an int32_t
LongBase == IntBase * IntBase   \* those of an int64_t

\* The groups of a long.
LongGroups == CHOOSE g \in 1..LongBase : Flag ^ g >= LongBase /\ Flag ^ (g - 1) < LongBase

Signed(n, base) == IF 2 * n < base THEN n ELSE n - base
Fits(i, base) == i \in Int /\ Signed(i % base, base) = i

\* The length of a string is an int32_t.
IsString(s) == s \in Seq(0..(Base - 1)) /\ Fits(Len(s), IntBase)

ASSUME WidthAssumption ==
  Flag \in Nat /\ Flag > 1 /\ IntBytes \in Nat \ {0} /\ COPY_BUFFER_SIZE \in Nat \ {0}
ASSUME BitOrAssumption ==
  \A n \in 0..(LongBase - 1) : BitOr(n, n \div Flag) \in n..(LongBase - 1)
ASSUME NumbersAssumption ==
  (\A i \in Ints : Fits(i, IntBase)) /\ (\A i \in Longs : Fits(i, LongBase))
ASSUME StringsAssumption == \A s \in Strings : IsString(s)
ASSUME MapsAssumption == \A m \in Maps :
  /\ IsFiniteSet(DOMAIN m) /\ Fits(Cardinality(DOMAIN m), IntBase)
  /\ m = [key \in DOMAIN m |-> m[key]]
  /\ \A key \in DOMAIN m : IsString(key) /\ IsString(m[key])
ASSUME NullAssumption == Null \notin Maps \cup Int

VARIABLES
  written,              \* the values written, in order
  bytes,                \* the file they are in
  vlong,                \* the i of a write_vlong() that is in its loop, or Null
  rounds,               \* how many bytes it has written
  copied,               \* the file that copy_bytes() writes
  read,                 \* the values read from that file, in order
  position              \* where the next read of it begins

writer == <<written, bytes, vlong, rounds>>
reader == <<read, position>>
codecVars == <<writer, copied, reader>>

Value(type, v) == [type |-> type, v |-> v]
Values ==
  {Value(type, i) : type \in {"int", "vint"}, i \in Ints}
    \cup {Value("long", i) : i \in Longs}
    \cup {Value("string", s) : s \in Strings}
    \cup {Value("map", m) : m \in Maps \cup {Null}}

CodecInit ==
  /\ written = <<>> /\ bytes = <<>>
  /\ vlong = Null /\ rounds = 0
  /\ copied = <<>>
  /\ read = <<>> /\ position = 0

-----------------------------------------------------------------------------
(* IndexOutput *)

\* unsigned_shift(i, 7), of the two's complement of i.
unsigned_shift(i, base) == (i % base) \div Flag

write_int(i) == [k \in 1..IntBytes |-> (i \div Power[IntBytes - k]) % Base]

write_long(i) == write_int(i \div IntBase) \o write_int(i)

\* i & ~0x7f
More(i) == i \notin 0..(Flag - 1)

\* The groups of an int from the lowest on, each but the last with the flag.
write_vint[i \in (-IntBase)..IntBase] ==
  IF More(i) THEN <<(i % Flag) + Flag>> \o write_vint[unsigned_shift(i, IntBase)] ELSE <<i>>

write_string(s) == write_vint[Len(s)] \o s

\* The entries are in the order of the container, whichever it is.
write_string_string_map(m, order) ==
  LET entries[k \in 0..Len(order)] ==
        IF k = 0 THEN write_int(Len(order))
        ELSE entries[k - 1] \o write_string(order[k]) \o write_string(m[order[k]])
  IN  entries[Len(order)]

Encodings(value) ==
  CASE value.type = "int" -> {write_int(value.v)}
    [] value.type = "vint" -> {write_vint[value.v]}
    [] value.type = "long" -> {write_long(value.v)}
    [] value.type = "string" -> {write_string(value.v)}
    [] value.type = "map" ->
         IF value.v = Null THEN {write_int(0)}
         ELSE {write_string_string_map(value.v, order) : order \in SetToSeqs(DOMAIN value.v)}

CanWrite == vlong = Null /\ copied = <<>> /\ Len(written) < MaxValues

Write ==
  /\ CanWrite
  /\ \E value \in Values :
       /\ written' = Append(written, value)
       /\ \E encoding \in Encodings(value) : bytes' = bytes \o encoding
  /\ UNCHANGED <<vlong, rounds, copied, reader>>

\* "Negative numbers are not supported."
WriteVlong ==
  /\ CanWrite
  /\ \E i \in Longs \cap Nat :
       /\ vlong' = i
       /\ written' = Append(written, Value("vlong", i))
  /\ rounds' = 0
  /\ UNCHANGED <<bytes, copied, reader>>

\* A round of the loop of write_vlong() ors the shifted number into i.  The
\* model stops after one byte more than a long has groups.
WriteVlongRound ==
  /\ vlong # Null /\ More(vlong)
  /\ rounds <= LongGroups
  /\ bytes' = Append(bytes, (vlong % Flag) + Flag)
  /\ vlong' = Signed(BitOr(vlong % LongBase, unsigned_shift(vlong, LongBase)), LongBase)
  /\ rounds' = rounds + 1
  /\ UNCHANGED <<written, copied, reader>>

WriteVlongLast ==
  /\ vlong # Null /\ ~More(vlong)
  /\ bytes' = Append(bytes, vlong)
  /\ vlong' = Null
  /\ rounds' = rounds + 1
  /\ UNCHANGED <<written, copied, reader>>

\* A round of the loop of copy_bytes(), of all bytes of the file.
copy_bytes ==
  LET left == Len(bytes) - Len(copied)
      toCopy == IF left > COPY_BUFFER_SIZE THEN COPY_BUFFER_SIZE ELSE left
  IN  /\ vlong = Null /\ left > 0
      /\ copied' = copied \o SubSeq(bytes, Len(copied) + 1, Len(copied) + toCopy)
      /\ UNCHANGED <<writer, reader>>

-----------------------------------------------------------------------------
(* IndexInput: what is read at a position, and where that ends *)

At(v, next) == [v |-> v, next |-> next]

read_int(p) ==
  LET i[k \in 0..IntBytes] == IF k = 0 THEN 0 ELSE i[k - 1] * Base + copied[p + k]
  IN  At(Signed(i[IntBytes], IntBase), p + IntBytes)

\* Mutant: the sign of the low half runs into the high one.
read_long_Signed(p) ==
  LET high == read_int(p)
      low == read_int(high.next)
  IN  At(Signed((high.v * IntBase + low.v) % LongBase, LongBase), low.next)

\* The low half is masked, so that its sign does not run into the high one.
read_long(p) ==
  LET high == read_int(p)
      low == read_int(high.next)
  IN  At(high.v * IntBase + (low.v % IntBase), low.next)

\* The groups from p on, as one number without a sign.
Groups[p \in 0..Len(copied)] ==
  IF p < Len(copied) /\ copied[p + 1] >= Flag
  THEN LET rest == Groups[p + 1] IN At(rest.v * Flag + (copied[p + 1] % Flag), rest.next)
  ELSE At(copied[p + 1], p + 1)

read_vint(p) == At(Signed(Groups[p].v % IntBase, IntBase), Groups[p].next)
read_vlong(p) == At(Signed(Groups[p].v % LongBase, LongBase), Groups[p].next)

read_string(p) ==
  LET length == read_vint(p)
  IN  At(SubSeq(copied, length.next + 1, length.next + length.v), length.next + length.v)

NoMap == [key \in {} |-> <<>>]

\* map[key] = val, in place of an earlier entry with the key.
Put(m, k, val) == [key \in DOMAIN m \cup {k} |-> IF key = k THEN val ELSE m[key]]

read_string_string_map(p) ==
  LET count == read_int(p)
      entries[k \in 0..count.v] ==
        IF k = 0 THEN At(NoMap, count.next)
        ELSE LET key == read_string(entries[k - 1].next)
                 val == read_string(key.next)
             IN  At(Put(entries[k - 1].v, key.v, val.v), val.next)
  IN  entries[count.v]

Decoding(type, p) ==
  CASE type = "int" -> read_int(p)
    [] type = "vint" -> read_vint(p)
    [] type = "long" -> read_long(p)
    [] type = "vlong" -> read_vlong(p)
    [] type = "string" -> read_string(p)
    [] type = "map" -> read_string_string_map(p)

\* The reader knows the types, and reads the copy once it is whole.
Read ==
  /\ vlong = Null /\ Len(copied) = Len(bytes) /\ Len(read) < Len(written)
  /\ LET type == written[Len(read) + 1].type
         result == Decoding(type, position)
     IN  /\ read' = Append(read, Value(type, result.v))
         /\ position' = result.next
  /\ UNCHANGED <<writer, copied>>

CodecNext ==
  \/ Write \/ WriteVlong \/ WriteVlongRound \/ WriteVlongLast
  \/ copy_bytes \/ Read

CodecSpec == CodecInit /\ [][CodecNext]_codecVars

-----------------------------------------------------------------------------
(* Properties *)

AsRead(value) == IF value = Value("map", Null) THEN Value("map", NoMap) ELSE value

\* What is read is what was written, value for value and across copy_bytes(),
\* whatever the signs, the groups and the boundaries between the values, and no
\* value takes a byte of the next one; only a null map comes back as one without
\* entries.
ReadsBack ==
  /\ \A k \in 1..Len(read) : read[k] = AsRead(written[k])
  /\ read # <<>> /\ Len(read) = Len(written) => position = Len(bytes)

\* "Writes an int64 in a variable-length format.  Writes between one and five
\* bytes.  Smaller values take fewer bytes." (src/store/index_output.h:61-63):
\* one for each group that a long may have, and then write_vlong() returns.
VlongIsShort == rounds <= LongGroups
=============================================================================
