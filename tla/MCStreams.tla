------------------------------- MODULE MCStreams -------------------------------
(* The streams of the three directories, one kind in each behaviour; and, in
   behaviours of its own, the codec that writes and reads through them. *)
EXTENDS Streams, Codec, Bitwise, TLC

CONSTANTS a, b, r1, r2
MCByte == {a, b}
MCReaders == {r1, r2}
ReaderSymmetry == Permutations(MCReaders)

\* One stream of two bytes without faults; two of one byte with faults; two on a
\* mapping; and the streams in memory, whose module has its own bounds.
Plain(r) ==
  [directory |-> "simple", faults |-> FALSE, bytes |-> {a, b}, readers |-> {r},
   sizes |-> {1, 2, 3}, maxLength |-> 5]
Faulty ==
  [directory |-> "simple", faults |-> TRUE, bytes |-> {a}, readers |-> {r1, r2},
   sizes |-> {1, 3}, maxLength |-> 2]
Mapped ==
  [directory |-> "mmap", faults |-> FALSE, bytes |-> {a, b}, readers |-> {r1, r2},
   sizes |-> {1}, maxLength |-> 3]
InMemory ==
  [directory |-> "ram", faults |-> FALSE, bytes |-> {}, readers |-> {},
   sizes |-> {1}, maxLength |-> 0]
MCSetups == {Plain(r1), Plain(r2), Faulty, Mapped, InMemory}

\* The codec has bytes of four bits and ints of two bytes: three groups in an int
\* and six in a long, and in both the last group is not a whole one.  The numbers
\* are those around the ends of the groups, of the bytes and of the halves of a
\* long.
MCBitOr(m, n) == m | n

MCInts == {0, 1, 7, 8, 15, 16, 63, 64, 127, -1, -8, -128}
MCLongs == {0, 5, 7, 8, 127, 128, 255, 256, 511, 32767, -1, -129, -32768}
MCStrings == {<<>>, <<3>>, <<9, 0>>, <<1, 2, 3, 4, 5, 6, 7, 15>>}
MCMaps == {<<>>, <<9>> :> <<>>, (<<>> :> <<7>>) @@ (<<3>> :> <<9, 0>>)}

CONSTANT MCParts
BothParts == {"streams", "codec"}
OnlyCodec == {"codec"}

VARIABLE part
MCInit ==
  /\ part \in MCParts
  /\ StreamsInit /\ CodecInit
  /\ part = "codec" => setup = InMemory
MCNext ==
  /\ UNCHANGED part
  /\ \/ part = "streams" /\ StreamsNext /\ UNCHANGED codecVars
     \/ part = "codec" /\ CodecNext /\ UNCHANGED <<vars, ramVars>>
MCSpec == MCInit /\ [][MCNext]_<<part, vars, ramVars, codecVars>>
=============================================================================
