--------------------------------- MODULE Streams ---------------------------------
(***************************************************************************)
(* The streams of the three directories: those of SimpleFSDirectory or of  *)
(* MMapDirectory on one file, or, in other behaviours, those of            *)
(* RAMDirectory, which have nothing in common with them but FlatFile.      *)
(***************************************************************************)
EXTENDS MMapStream

CONSTANTS
  Junk,                 \* the content of a byte of a buffer never written; no byte
  RAM_BUFFER_SIZE,      \* RAMOutputStream::BUFFER_SIZE
  IntMax,               \* std::numeric_limits<int>::max()
  RAMLength             \* bound: the length of a file in memory, and its positions

ASSUME JunkAssumption == Junk \notin Byte
ASSUME RAMAssumption == RAM_BUFFER_SIZE \in Nat \ {0} /\ RAMLength \in Nat

\* The variables of RAMStream; the two parts share no state, and each is taken
\* from the other's first state.
VARIABLES m_buffers, m_length, out, ramClosed, ramIn, ramGot, astray
RAM == INSTANCE RAMStream WITH
  closed <- ramClosed, in <- ramIn, got <- ramGot,
  BUFFER_SIZE <- RAM_BUFFER_SIZE, MaxLength <- RAMLength
ASSUME RAMNoneAssumption == None \notin RAM!Inputs

ramVars == <<m_buffers, m_length, out, ramClosed, ramIn, ramGot, astray>>

StreamsInit == Init /\ RAM!Init
StreamsNext ==
  \/ setup.directory # "ram" /\ StreamNext /\ UNCHANGED ramVars
  \/ setup.directory = "ram" /\ RAM!Next /\ UNCHANGED vars
StreamsSpec == StreamsInit /\ [][StreamsNext]_<<vars, ramVars>>

-----------------------------------------------------------------------------
(* Properties *)

\* The values of the variables of both parts.
StreamsTypeOK == TypeOK /\ RAM!TypeOK

\* The streams of RAMStream implement the flat file as well, as far as its own
\* FlatSpec says: until whole buffers are left behind the length, or a stream
\* seeks to the end of the last one.
RAMFlatSpec == RAM!FlatSpec
=============================================================================
