------------------------------- MODULE Lznt1 -------------------------------
(***************************************************************************)
(* agdb._lznt1: the decompressor of Windows Vista's databases, for which   *)
(* the repository has no sample.  Chunks of up to ChunkSize bytes, each    *)
(* stored or compressed; in a compressed one a flag byte says of the next  *)
(* items which are bytes and which are pairs of a distance and a length,   *)
(* and how a pair is divided depends on how much of the chunk is written.  *)
(*                                                                         *)
(* The widths are constants: a pair has 16 bits in the code, 4 of them at  *)
(* least are the distance's, a flag byte has 8 flags and ChunkSize is      *)
(* 4096.  The header of a chunk is one cell: 0 ends the data, n announces  *)
(* n bytes compressed and -n as many stored.                               *)
(***************************************************************************)
EXTENDS Integers, SequencesExt

CONSTANTS
  PairBits,     \* bits of a pair, and twice the flags of a flag byte
  LeastOffset,  \* the bits of its distance at the start of a chunk
  ChunkSize     \* output after which a chunk takes no more groups

VARIABLE
  lz \* the call: its arguments [data, expected], where it is, and its locals

Lznt1Init == lz = [at |-> "idle"]

\* _lznt1(data, expected)
Lznt1(data, expected) ==
  lz' = [at |-> "chunks", data |-> data, expected |-> expected, pos |-> 0, out |-> <<>>,
         chunk |-> <<>>, cursor |-> 0, bit |-> 0, flags |-> 0, start |-> 0]

-----------------------------------------------------------------------------
More        == lz.pos < Len(lz.data) /\ Len(lz.out) < lz.expected
ChunkHeader == lz.data[lz.pos + 1]

\* A slice past the end of the data is short, and nothing is said of it.
NextCells(n) ==
  SubSeq(lz.data, lz.pos + 2, IF lz.pos + 1 + n < Len(lz.data) THEN lz.pos + 1 + n ELSE Len(lz.data))

Lznt1Returns ==
  /\ lz.at = "chunks" /\ (~More \/ (More /\ ChunkHeader = 0))
  /\ lz' = [lz EXCEPT !.at = "returned"]

StoredChunk ==
  /\ lz.at = "chunks" /\ More /\ ChunkHeader < 0
  /\ lz' = [lz EXCEPT !.out = @ \o NextCells(-ChunkHeader), !.pos = @ + 1 - ChunkHeader]

OpenChunk ==
  /\ lz.at = "chunks" /\ More /\ ChunkHeader > 0
  /\ lz' = [lz EXCEPT !.at = "groups", !.chunk = NextCells(ChunkHeader), !.cursor = 0,
                      !.start = Len(lz.out), !.pos = @ + 1 + ChunkHeader]

InChunk == Len(lz.out) - lz.start

Left(n) == lz.cursor + n <= Len(lz.chunk)
Cell(k) == lz.chunk[k + 1] % 2 ^ (PairBits \div 2)

\* The chunk is full between two groups of items, not inside one.
ReadFlags ==
  /\ lz.at = "groups" /\ Left(1) /\ InChunk < ChunkSize
  /\ lz' = [lz EXCEPT !.at = "items", !.flags = Cell(lz.cursor), !.bit = 0, !.cursor = @ + 1]

EndChunk ==
  /\ lz.at = "groups" /\ ~(Left(1) /\ InChunk < ChunkSize)
  /\ lz' = [lz EXCEPT !.at = "chunks"]

InGroup == lz.at = "items" /\ lz.bit < PairBits \div 2
Flagged == (lz.flags \div 2 ^ lz.bit) % 2 = 1

EndGroup ==
  /\ lz.at = "items"
  /\ ~InGroup \/ ~Left(IF Flagged THEN 2 ELSE 1)
  /\ lz' = [lz EXCEPT !.at = "groups"]

PlainByte ==
  /\ InGroup /\ ~Flagged /\ Left(1)
  /\ lz' = [lz EXCEPT !.out = Append(@, Cell(lz.cursor)), !.cursor = @ + 1, !.bit = @ + 1]

-----------------------------------------------------------------------------
\* while iterator >= 0x10: one bit more for the distance, one less for the length.
Shift ==
  PairBits - LeastOffset
    - (CHOOSE k \in 0 .. PairBits :
         /\ (InChunk - 1) \div 2 ^ k < 2 ^ LeastOffset
         /\ \A j \in 0 .. k - 1 : (InChunk - 1) \div 2 ^ j >= 2 ^ LeastOffset)

Pair       == Cell(lz.cursor) + 2 ^ (PairBits \div 2) * Cell(lz.cursor + 1)
PairLength == (Pair % 2 ^ Shift) + 3
PairOffset == (Pair \div 2 ^ Shift) + 1

\* A copy also reads what it has itself written.
Copied ==
  [k \in 1 .. PairLength |-> lz.out[Len(lz.out) - PairOffset + 1 + ((k - 1) % PairOffset)]]

BackReference ==
  /\ InGroup /\ Flagged /\ Left(2) /\ PairOffset <= InChunk
  /\ lz' = [lz EXCEPT !.out = @ \o Copied, !.cursor = @ + 2, !.bit = @ + 1]

Lznt1Refuses ==
  /\ InGroup /\ Flagged /\ Left(2) /\ PairOffset > InChunk
  /\ lz' = [lz EXCEPT !.at = "refused"]

Lznt1Step ==
  \/ Lznt1Returns \/ StoredChunk \/ OpenChunk \/ ReadFlags \/ EndChunk \/ EndGroup
  \/ PlainByte \/ BackReference \/ Lznt1Refuses
===============================================================================
