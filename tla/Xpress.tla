------------------------------- MODULE Xpress -------------------------------
(***************************************************************************)
(* xpress.decompress: LZ77 with Huffman codes, block by block.  A register *)
(* of two words holds the next bits; the extra bytes of a long match come  *)
(* off the same input the register is refilled from, so every step has to  *)
(* take its bits and bytes in the one order the encoder wrote them in.     *)
(*                                                                         *)
(* The widths are constants: a word has 16 bits in the code, there are 256 *)
(* literals, a length nibble of 15 announces extra bytes and a block ends  *)
(* after 65536 bytes.  The input is a sequence of cells: a byte each, or   *)
(* the 256 bytes of the k-th Huffman table as the one cell -k.             *)
(***************************************************************************)
EXTENDS Integers, Sequences, FiniteSets

CONSTANTS
  WordBits,    \* bits of one refill
  Literals,    \* symbols below this are literals
  LongNibble,  \* the length nibble that announces extra bytes
  BlockSize,   \* output of one block
  HuffmanTable \* HuffmanTable[k][s]: bit length of s, for the symbols that have a code

\* A table states a length of up to 15 bits for some of its 512 symbols.
ASSUME XpressAssumption ==
  /\ WordBits \in Nat \ {0} /\ Literals \in Nat /\ LongNibble \in Nat
  /\ \A k \in DOMAIN HuffmanTable :
       /\ DOMAIN HuffmanTable[k] \subseteq 0 .. Literals + WordBits * (LongNibble + 1) - 1
       /\ \A s \in DOMAIN HuffmanTable[k] : HuffmanTable[k][s] \in 1 .. WordBits - 1

VARIABLES
  stream,    \* the input
  outSize,   \* how much output is wanted
  xp,        \* where the decoder is
  pos,       \* cells read
  nextBits,  \* the register
  extraBits, \* bits in it beyond the first word
  lengths,   \* the table of this block
  blockEnd,  \* output length at which this block ends
  match,     \* the match at hand: [symbol, length, distance]
  out        \* the output so far

bitVars    == <<pos, nextBits, extraBits>>
xpressVars == <<stream, outSize, xp, bitVars, lengths, blockEnd, match, out>>

NoMatch == [symbol |-> 0, length |-> 0, distance |-> 0]

XpressInit ==
  /\ stream = <<>> /\ outSize = 0 /\ xp = "idle" /\ pos = 0 /\ nextBits = 0 /\ extraBits = 0
  /\ lengths = <<>> /\ blockEnd = 0 /\ match = NoMatch /\ out = <<>>

\* decompress(data, out_size)
Decompress(data, size) ==
  /\ stream' = data /\ outSize' = size /\ xp' = "block" /\ pos' = 0 /\ out' = <<>>
  /\ nextBits' = 0 /\ extraBits' = 0 /\ lengths' = <<>> /\ blockEnd' = 0 /\ match' = NoMatch

-----------------------------------------------------------------------------
\* The input, by offset.

ByteValues == 2 ^ (WordBits \div 2)

Room(n)  == pos + n <= Len(stream)
Byte(k)  == stream[k + 1] % ByteValues
Word(k)  == Byte(k) + ByteValues * Byte(k + 1)
Dword(k) == Word(k) + 2 ^ WordBits * Word(k + 2)

Shifted(n) == (nextBits * 2 ^ n) % 2 ^ (2 * WordBits)

Enough(n) ==
  /\ nextBits' = Shifted(n) /\ extraBits' = extraBits - n
  /\ UNCHANGED pos

Refill(n) ==
  /\ Room(2)
  /\ nextBits' = Shifted(n) + Word(pos) * 2 ^ (n - extraBits)
  /\ extraBits' = extraBits - n + WordBits
  /\ pos' = pos + 2

\* Mutant of TakeBits: a register that has just run empty is refilled at once.
TakeBitsEagerly(n) ==
  \/ extraBits > n /\ Enough(n)
  \/ extraBits <= n /\ Refill(n)

\* n bits leave the register, which is refilled when it falls short of a word.
TakeBits(n) ==
  \/ extraBits >= n /\ Enough(n)
  \/ extraBits < n /\ Refill(n)

CanTake(n) == extraBits >= n \/ Room(2)

-----------------------------------------------------------------------------
\* _build_decoding_table: a symbol of bit length n has 2^(15-n) entries, and the
\* symbols are in order of bit length and then of value.

TableSize == 2 ^ (WordBits - 1)

Span(n) == 2 ^ (WordBits - 1 - n)

TableEntries(codes, symbols) == {e \in symbols \X (1 .. TableSize) : e[2] <= Span(codes[e[1]])}
EntriesOf(codes, symbols)    == Cardinality(TableEntries(codes, symbols))

\* Neither "table overflows" nor "incomplete Huffman code".
Complete(codes) == EntriesOf(codes, DOMAIN codes) = TableSize

FirstEntry(codes, s) ==
  EntriesOf(codes, {t \in DOMAIN codes : codes[t] < codes[s] \/ (codes[t] = codes[s] /\ t < s)})

SymbolAt(codes, index) ==
  CHOOSE s \in DOMAIN codes :
    FirstEntry(codes, s) <= index /\ index < FirstEntry(codes, s) + Span(codes[s])

-----------------------------------------------------------------------------
\* raise InvalidCompressedData
XpressRefuses ==
  /\ xp' = "refused"
  /\ UNCHANGED <<stream, outSize, bitVars, lengths, blockEnd, match, out>>

\* The bytes at pos are a table only where the encoder wrote one; others make no
\* complete code.
TableCell == stream[pos + 1]
HasTable  == -TableCell \in DOMAIN HuffmanTable

OpenBlock ==
  /\ xp = "block" /\ Len(out) < outSize
  /\ Room(5) /\ HasTable /\ Complete(HuffmanTable[-TableCell])
  /\ lengths' = HuffmanTable[-TableCell]
  /\ nextBits' = Word(pos + 1) * 2 ^ WordBits + Word(pos + 3)
  /\ pos' = pos + 5 /\ extraBits' = WordBits
  /\ blockEnd' = Len(out) + BlockSize /\ xp' = "symbol"
  /\ UNCHANGED <<stream, outSize, match, out>>

BlockRefused ==
  /\ xp = "block" /\ Len(out) < outSize
  /\ \/ ~Room(5)
     \/ Room(5) /\ ~HasTable
     \/ Room(5) /\ HasTable /\ ~Complete(HuffmanTable[-TableCell])
  /\ XpressRefuses

XpressReturns ==
  /\ xp = "block" /\ Len(out) >= outSize
  /\ out' = SubSeq(out, 1, outSize) /\ xp' = "returned"
  /\ UNCHANGED <<stream, outSize, bitVars, lengths, blockEnd, match>>

InBlock == xp = "symbol" /\ Len(out) < blockEnd /\ Len(out) < outSize

EndBlock ==
  /\ xp = "symbol" /\ ~InBlock
  /\ xp' = "block"
  /\ UNCHANGED <<stream, outSize, bitVars, lengths, blockEnd, match, out>>

Symbol == SymbolAt(lengths, nextBits \div 2 ^ (WordBits + 1))

Literal ==
  /\ InBlock /\ Symbol < Literals
  /\ TakeBits(lengths[Symbol])
  /\ out' = Append(out, Symbol)
  /\ UNCHANGED <<stream, outSize, xp, lengths, blockEnd, match>>

\* Inside the loop output is still wanted, so symbol 256 is a match as well.
Match ==
  /\ InBlock /\ Symbol >= Literals
  /\ TakeBits(lengths[Symbol])
  /\ match' = [NoMatch EXCEPT !.symbol = Symbol - Literals]
  /\ xp' = "length"
  /\ UNCHANGED <<stream, outSize, lengths, blockEnd, out>>

SymbolRefused == InBlock /\ ~CanTake(lengths[Symbol]) /\ XpressRefuses

Nibble     == match.symbol % (LongNibble + 1)
OffsetBits == match.symbol \div (LongNibble + 1)

\* The length is at hand, cells of it were read.
HasLength(n, cells) ==
  /\ match' = [match EXCEPT !.length = n + 3]
  /\ pos' = pos + cells /\ xp' = "offset"
  /\ UNCHANGED <<stream, outSize, nextBits, extraBits, lengths, blockEnd, out>>

NibbleLength == xp = "length" /\ Nibble < LongNibble /\ HasLength(Nibble, 0)

ByteLength ==
  /\ xp = "length" /\ Nibble = LongNibble /\ Room(1) /\ Byte(pos) < ByteValues - 1
  /\ HasLength(Byte(pos) + LongNibble, 1)

Escaped == xp = "length" /\ Nibble = LongNibble /\ Room(1) /\ Byte(pos) = ByteValues - 1

WordLength ==
  /\ Escaped /\ Room(3) /\ Word(pos + 1) >= LongNibble
  /\ HasLength(Word(pos + 1), 3)

\* A word of zero: the length is a u32.
DwordLength ==
  /\ Escaped /\ Room(7) /\ Word(pos + 1) = 0 /\ Dword(pos + 3) >= LongNibble
  /\ HasLength(Dword(pos + 3), 7)

LengthRefused ==
  /\ \/ xp = "length" /\ Nibble = LongNibble /\ ~Room(1)
     \/ Escaped /\ ~Room(3)
     \/ Escaped /\ Room(3) /\ Word(pos + 1) \in 1 .. LongNibble - 1
     \/ Escaped /\ Room(3) /\ Word(pos + 1) = 0 /\ ~Room(7)
     \/ Escaped /\ Room(7) /\ Word(pos + 1) = 0 /\ Dword(pos + 3) < LongNibble
  /\ XpressRefuses

Distance == nextBits \div 2 ^ (2 * WordBits - OffsetBits) + 2 ^ OffsetBits

Offset ==
  /\ xp = "offset" /\ CanTake(OffsetBits) /\ Distance <= Len(out)
  /\ TakeBits(OffsetBits)
  /\ match' = [match EXCEPT !.distance = Distance]
  /\ xp' = "copy"
  /\ UNCHANGED <<stream, outSize, lengths, blockEnd, out>>

OffsetRefused ==
  /\ xp = "offset" /\ (~CanTake(OffsetBits) \/ Distance > Len(out))
  /\ XpressRefuses

\* for k in range(match_length), also from what the match itself has written.
CopyByte ==
  /\ xp = "copy"
  /\ out' = Append(out, out[Len(out) - match.distance + 1])
  /\ match' = IF match.length = 1 THEN NoMatch ELSE [match EXCEPT !.length = @ - 1]
  /\ xp' = IF match.length = 1 THEN "symbol" ELSE "copy"
  /\ UNCHANGED <<stream, outSize, bitVars, lengths, blockEnd>>

XpressStep ==
  \/ OpenBlock \/ BlockRefused \/ XpressReturns \/ EndBlock
  \/ Literal \/ Match \/ SymbolRefused
  \/ NibbleLength \/ ByteLength \/ WordLength \/ DwordLength \/ LengthRefused
  \/ Offset \/ OffsetRefused \/ CopyByte

XpressTypeOK ==
  /\ xp \in {"idle", "block", "symbol", "length", "offset", "copy", "returned", "refused"}
  /\ pos \in 0 .. Len(stream)
  /\ nextBits \in 0 .. 2 ^ (2 * WordBits) - 1 /\ extraBits \in 0 .. WordBits
===============================================================================
