------------------------------- MODULE Unpack -------------------------------
(***************************************************************************)
(* The compressed wrappers of the folder's artifacts, each a way to cut    *)
(* its bytes into calls of xpress.decompress: one stream (MAM), a chain of *)
(* chunks that state the length of the next (PfB, xpress.decompress_pfb),  *)
(* blocks of a size nobody states (MEM0 and MEM\xb0, agdb._blocked), and     *)
(* Vista's own format (MEMO, module Lznt1).                                *)
(* The cells are those after the magic; a number of 4 bytes is one cell.   *)
(***************************************************************************)
EXTENDS Xpress, Lznt1

CONSTANTS
  MaxOutput, \* MAX_DECOMPRESSED_BYTES
  MemSizes   \* MEMB0_BLOCK_SIZES, in the order they are tried

ASSUME UnpackAssumption ==
  /\ BlockSize \in Nat /\ MemSizes \in Seq(Nat) /\ MemSizes # <<>>

\* A compressed file, sound or not, begins with the size it declares, which is not signed.
IsWrapped(given) ==
  /\ given.cells \in Seq(Int)
  /\ given.kind # "none" /\ given.cells # <<>> => given.cells[1] \in Nat

VARIABLES
  wrapped,  \* [kind, cells, means]: the file, and (history) what was compressed into it
  un,       \* where the unpacking is
  sizes,    \* block sizes still to try
  rawPos,   \* cells of the file read
  chunkLen, \* stated length of the next chunk
  payload   \* what came out so far

decoders   == <<xpressVars, lz>>
unpackVars == <<wrapped, un, sizes, rawPos, chunkLen, payload>>

UnpackInit ==
  /\ wrapped = <<>> /\ un = "idle" /\ sizes = <<>> /\ rawPos = 0 /\ chunkLen = 0 /\ payload = <<>>

Unpack(file) ==
  /\ wrapped' = file /\ un' = "open"
  /\ sizes' = <<>> /\ rawPos' = 0 /\ chunkLen' = 0 /\ payload' = <<>>

Raw     == wrapped.cells
Total   == Raw[1]
Missing == Total - Len(payload)
Has(n)  == rawPos + n <= Len(Raw)

UnpackFails ==
  /\ un' = "failed"
  /\ UNCHANGED <<wrapped, sizes, rawPos, chunkLen, payload, decoders>>

\* The stream of the file starts at this cell.
StreamAt(cell, stage) ==
  /\ rawPos' = cell /\ un' = stage
  /\ UNCHANGED <<wrapped, payload, decoders>>

\* One call of xpress.decompress, over n cells.
DecodeNext(n, size, stage) ==
  /\ Decompress(SubSeq(Raw, rawPos + 1, rawPos + n), size)
  /\ chunkLen' = n /\ un' = stage
  /\ UNCHANGED <<wrapped, sizes, rawPos, payload, lz>>

Decoding == un \in {"mam", "chunk", "block"}

Decode == Decoding /\ XpressStep /\ UNCHANGED <<unpackVars, lz>>

-----------------------------------------------------------------------------
\* An uncompressed database, and container.load of a MAM container.

Uncompressed ==
  /\ un = "open" /\ wrapped.kind = "none"
  /\ payload' = Raw /\ un' = "done"
  /\ UNCHANGED <<wrapped, sizes, rawPos, chunkLen, decoders>>

MamRefused ==
  /\ un = "open" /\ wrapped.kind = "MAM"
  /\ Len(Raw) < 2 \/ (Len(Raw) >= 2 /\ Total > MaxOutput)
  /\ UnpackFails

OpenMam ==
  /\ un = "open" /\ wrapped.kind = "MAM" /\ Len(Raw) >= 2 /\ Total <= MaxOutput
  /\ Decompress(Tail(Raw), Total)
  /\ un' = "mam"
  /\ UNCHANGED <<wrapped, sizes, rawPos, chunkLen, payload, lz>>

MamDecoded ==
  /\ un = "mam" /\ xp = "returned"
  /\ payload' = out /\ un' = "done"
  /\ UNCHANGED <<wrapped, sizes, rawPos, chunkLen, decoders>>

\* The error of the decoder ends the file, unless another block size is left.
DecoderFails ==
  /\ un \in {"mam", "chunk"} /\ xp = "refused"
  /\ UnpackFails

-----------------------------------------------------------------------------
\* decompress_pfb

PfbRefused ==
  /\ un = "open" /\ wrapped.kind = "PfB"
  /\ Len(Raw) < 2 \/ (Len(Raw) >= 2 /\ Total \notin 1 .. MaxOutput)
  /\ UnpackFails

OpenPfb ==
  /\ un = "open" /\ wrapped.kind = "PfB" /\ Len(Raw) >= 2 /\ Total \in 1 .. MaxOutput
  /\ chunkLen' = Raw[2]
  /\ UNCHANGED sizes
  /\ StreamAt(2, "chain")

Final == Missing <= BlockSize

\* A chunk of no bytes would be read for ever; only the last one may run past the
\* end of the file, which its stated length does when it is undefined.
Readable(n) == n > 0 /\ (Final \/ Has(n))

ChunkRefused == un = "chain" /\ ~Readable(chunkLen) /\ UnpackFails

Chunk ==
  /\ un = "chain" /\ Readable(chunkLen)
  /\ DecodeNext(IF Has(chunkLen) THEN chunkLen ELSE Len(Raw) - rawPos,
                IF Final THEN Missing ELSE BlockSize, "chunk")

ChunkDecoded ==
  /\ un = "chunk" /\ xp = "returned" /\ Len(payload \o out) < Total /\ Has(chunkLen + 2)
  /\ payload' = payload \o out
  /\ chunkLen' = Raw[rawPos + chunkLen + 2]
  /\ rawPos' = rawPos + chunkLen + 2 /\ un' = "chain"
  /\ UNCHANGED <<wrapped, sizes, decoders>>

TrailerCut ==
  /\ un = "chunk" /\ xp = "returned" /\ Len(payload \o out) < Total /\ ~Has(chunkLen + 2)
  /\ UnpackFails

LastChunk ==
  /\ un = "chunk" /\ xp = "returned" /\ Len(payload \o out) >= Total
  /\ payload' = payload \o out /\ un' = "done"
  /\ UNCHANGED <<wrapped, sizes, rawPos, chunkLen, decoders>>

-----------------------------------------------------------------------------
\* agdb._blocked

Blocked    == wrapped.kind \in {"MEM0", "MEMB0"}
HeaderSize == IF wrapped.kind = "MEM0" THEN 1 ELSE 2

BlocksRefused ==
  /\ un = "open" /\ Blocked
  /\ Raw = <<>> \/ (Raw # <<>> /\ Total > MaxOutput)
  /\ UnpackFails

OpenBlocks ==
  /\ un = "open" /\ Blocked /\ Raw # <<>> /\ Total <= MaxOutput
  /\ sizes' = IF wrapped.kind = "MEM0" THEN <<BlockSize>> ELSE MemSizes
  /\ UNCHANGED chunkLen
  /\ StreamAt(HeaderSize, "blocks")

MoreBlocks == Has(1) /\ Missing > 0
BlockLen   == Raw[rawPos + 1]
BlockFits  == BlockLen > 0 /\ Has(1 + BlockLen)

NextBlock ==
  /\ un = "blocks" /\ MoreBlocks /\ BlockFits
  /\ Decompress(SubSeq(Raw, rawPos + 2, rawPos + 1 + BlockLen),
                IF Head(sizes) < Missing THEN Head(sizes) ELSE Missing)
  /\ un' = "block"
  /\ UNCHANGED <<wrapped, sizes, rawPos, chunkLen, payload, lz>>

BlockDecoded ==
  /\ un = "block" /\ xp = "returned"
  /\ payload' = payload \o out
  /\ rawPos' = rawPos + 1 + BlockLen /\ un' = "blocks"
  /\ UNCHANGED <<wrapped, sizes, chunkLen, decoders>>

SizeFails ==
  \/ un = "blocks" /\ MoreBlocks /\ ~BlockFits
  \/ un = "block" /\ xp = "refused"
  \/ un = "blocks" /\ ~MoreBlocks /\ Missing > 0

\* last_error = exc; continue
NextSize ==
  /\ SizeFails /\ Len(sizes) > 1
  /\ sizes' = Tail(sizes) /\ payload' = <<>>
  /\ rawPos' = HeaderSize /\ un' = "blocks"
  /\ UNCHANGED <<wrapped, chunkLen, decoders>>

NoSizeFits == SizeFails /\ Len(sizes) = 1 /\ UnpackFails

BlocksDecoded ==
  /\ un = "blocks" /\ Missing = 0
  /\ un' = "done"
  /\ UNCHANGED <<wrapped, sizes, rawPos, chunkLen, payload, decoders>>

-----------------------------------------------------------------------------
\* MEMO: no ceiling, but what comes out has the declared length.
MemoUnreadable == un = "open" /\ wrapped.kind = "MEMO" /\ Raw = <<>> /\ UnpackFails

OpenMemo ==
  /\ un = "open" /\ wrapped.kind = "MEMO" /\ Raw # <<>>
  /\ Lznt1(Tail(Raw), Total)
  /\ un' = "memo"
  /\ UNCHANGED <<wrapped, sizes, rawPos, chunkLen, payload, xpressVars>>

DecodeMemo == un = "memo" /\ Lznt1Step /\ UNCHANGED <<unpackVars, xpressVars>>

MemoDecoded ==
  /\ un = "memo" /\ lz.at = "returned" /\ Len(lz.out) = Total
  /\ payload' = lz.out /\ un' = "done"
  /\ UNCHANGED <<wrapped, sizes, rawPos, chunkLen, decoders>>

MemoFails ==
  /\ un = "memo"
  /\ lz.at = "refused" \/ (lz.at = "returned" /\ Len(lz.out) # Total)
  /\ UnpackFails

UnpackStep ==
  \/ Decode \/ Uncompressed \/ MamRefused \/ OpenMam \/ MamDecoded \/ DecoderFails
  \/ PfbRefused \/ OpenPfb \/ ChunkRefused \/ Chunk \/ ChunkDecoded \/ TrailerCut \/ LastChunk
  \/ BlocksRefused \/ OpenBlocks \/ NextBlock \/ BlockDecoded \/ NextSize \/ NoSizeFits
  \/ BlocksDecoded
  \/ MemoUnreadable \/ OpenMemo \/ DecodeMemo \/ MemoDecoded \/ MemoFails

-----------------------------------------------------------------------------
UnpackTypeOK ==
  /\ XpressTypeOK
  /\ un \in {"idle", "open", "mam", "chain", "chunk", "blocks", "block", "memo", "done", "failed"}
  /\ un \notin {"idle", "open", "failed"} /\ wrapped.kind # "none" => Len(payload) <= Total

\* A truncated or a corrupt file does not pass for a shorter one.
DeclaredSize == un = "done" /\ wrapped.kind # "none" => Len(payload) = Total

\* xpress.py:18-24 and agdb.py:68-69 ("the right one is the one that consumes the input
\* exactly"): what is unpacked is what was compressed, byte for byte and as much of
\* it as the file declares, whatever order bits and bytes are mixed in, however the
\* matches overlap, and whichever wrong block sizes were tried before; and a file
\* that is whole is never refused.
UnpackedExactly ==
  /\ un = "done" => IsPrefix(payload, wrapped.means)
  /\ DeclaredSize
  /\ un = "failed" => ~wrapped.whole
===============================================================================
