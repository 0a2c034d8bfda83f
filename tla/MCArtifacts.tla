----------------------------- MODULE MCArtifacts -----------------------------
(* The folders `artifacts` is given: compressed files written by an encoder,  *)
(* databases and traces damaged in one place, files that cannot be read, and  *)
(* what several artifacts of one machine, or of two, say of its volumes.      *)
EXTENDS Cli

-----------------------------------------------------------------------------
\* The encoder of [MS-XCA] 2.1.4.3.  Two words are open at any time; bits go to the
\* first, and the extra bytes of a length to the end of what is there.

Cells(n) == <<n % ByteValues, (n \div ByteValues) % ByteValues>>
Put(cells, p, n) == [cells EXCEPT ![p + 1] = Cells(n)[1], ![p + 2] = Cells(n)[2]]

OpenTable(e, k) ==
  [e EXCEPT !.cells = @ \o <<-k, 0, 0, 0, 0>>, !.first = Len(e.cells) + 1,
            !.second = Len(e.cells) + 3, !.word = 0, !.free = WordBits, !.end = e.size + BlockSize]

CloseTable(e) == [e EXCEPT !.cells = Put(@, e.first, e.word * 2 ^ e.free)]

PutBits(e, n, v) ==
  IF e.free >= n THEN [e EXCEPT !.word = @ * 2 ^ n + v, !.free = @ - n]
  ELSE LET m == n - e.free
       IN  [e EXCEPT !.cells = Put(@, e.first, e.word * 2 ^ e.free + v \div 2 ^ m) \o <<0, 0>>,
                     !.first = e.second, !.second = Len(e.cells),
                     !.free = WordBits - m, !.word = v % 2 ^ m]

PutSymbol(e, k, s) ==
  LET codes == HuffmanTable[k] IN PutBits(e, codes[s], FirstEntry(codes, s) \div Span(codes[s]))

PutToken(e, k, t) ==
  LET o == IF e.size >= e.end THEN OpenTable(CloseTable(e), k) ELSE e
      s == PutSymbol(o, k, t.symbol)
  IN  [PutBits([s EXCEPT !.cells = @ \o t.extra], t.bits, t.value) EXCEPT !.size = @ + t.len]

NoCells == [cells |-> <<>>, first |-> 0, second |-> 0, word |-> 0, free |-> 0, size |-> 0, end |-> 0]

Encode(k, tokens) ==
  CloseTable(FoldLeft(LAMBDA e, t : PutToken(e, k, t), OpenTable(NoCells, k), tokens)).cells

Repeat(o, t) == FoldLeft(LAMBDA p, i : Append(p, p[Len(p) - t.dist + 1]), o, [i \in 1 .. t.len |-> i])
Means(tokens) == FoldLeft(LAMBDA o, t : IF t.dist = 0 THEN Append(o, t.symbol) ELSE Repeat(o, t), <<>>, tokens)

-----------------------------------------------------------------------------
\* Tokens: a literal, and a match of some length n, at distance 2^bits + v.

Lit(s) == [symbol |-> s, extra |-> <<>>, bits |-> 0, value |-> 0, len |-> 1, dist |-> 0]

LengthBytes(n) ==
  CASE n < LongNibble -> <<>>
    [] n < LongNibble + ByteValues - 1 -> <<n - LongNibble>>
    [] OTHER -> <<ByteValues - 1>> \o Cells(n)

Copy(bits, v, n) ==
  [symbol |-> Literals + bits * (LongNibble + 1) + (IF n < LongNibble THEN n ELSE LongNibble),
   extra |-> LengthBytes(n), bits |-> bits, value |-> v, len |-> n + 3, dist |-> 2 ^ bits + v]

\* The length as a u32, which the format allows for a short one as well.
CopyDword(bits, v, n) ==
  [Copy(bits, v, n) EXCEPT !.extra = <<ByteValues - 1, 0, 0>> \o Cells(n) \o <<0, 0>>]

\* Complete codes of two literals and the matches used; one code is not complete.
Tables ==
  <<(0 :> 1) @@ (1 :> 2) @@ (2 :> 3) @@ (9 :> 3),
    (0 :> 2) @@ (1 :> 2) @@ (2 :> 2) @@ (11 :> 3) @@ (9 :> 3), (0 :> 1) @@ (1 :> 2)>>

Tokens(k) ==
  {Lit(0), Lit(1), Copy(0, 0, 0)} \cup {Copy(1, v, n) : v \in {0, 1}, n \in {3, 5, 6}}
    \cup {CopyDword(1, 1, 4)} \cup (IF k = 2 THEN {Copy(2, v, 1) : v \in {0, 3}} ELSE {})

Valid(tokens) ==
  \A k \in DOMAIN tokens : tokens[k].dist <= Len(Means(SubSeq(tokens, 1, k - 1)))

Streams(k) ==
  {s \in {<<Lit(0), t>> : t \in Tokens(k)} \cup {<<Lit(1), Lit(0), t, u>> : t, u \in Tokens(k)} : Valid(s)}

Packed(kind, cells, means) == [kind |-> kind, cells |-> cells, means |-> means, whole |-> TRUE]

Mam(k, s) == Packed("MAM", <<Len(Means(s))>> \o Encode(k, s), Means(s))

\* A chain of chunks, each but the last of BlockSize bytes.
Chunks(k, s, t) ==
  LET a == Encode(k, s) b == Encode(k, t) all == Means(s) \o Means(t)
  IN  Packed("PfB", <<Len(all), Len(a)>> \o a \o <<7, Len(b)>> \o b, all)
OneChunk(k, s) == Packed("PfB", <<Len(Means(s)), Len(Encode(k, s))>> \o Encode(k, s), Means(s))

\* Blocks of one size, after a header of one cell or of two.
Block(k, s) == <<Len(Encode(k, s))>> \o Encode(k, s)
Blocks(kind, k, ss) ==
  LET all == FlattenSeq([j \in DOMAIN ss |-> Means(ss[j])])
  IN  Packed(kind, (IF kind = "MEM0" THEN <<Len(all)>> ELSE <<Len(all), 0>>)
                       \o FlattenSeq([j \in DOMAIN ss |-> Block(k, ss[j])]), all)

\* The same file without its last cells, or with a declared size n.
CutShort(f, n)       == [f EXCEPT !.cells = SubSeq(@, 1, Len(@) - n), !.whole = FALSE]
Declaring(f, n) == [f EXCEPT !.cells[1] = n, !.whole = (1 <= n /\ n <= Len(f.means))]

Four  == {<<Lit(0), Copy(0, 0, 0)>>, <<Lit(1), Lit(0), Lit(0), Lit(1)>>}
Eight == {<<Lit(1), Lit(0), Copy(1, 0, 3)>>, <<Lit(0), Copy(0, 0, 0), Lit(1), Copy(0, 0, 0)>>}
Rests == {<<Lit(1)>>, <<Lit(0), Lit(1), Lit(1)>>}

\* LZNT1, from [MS-XCA] 2.5: where U bytes of the chunk are done, a distance has the
\* least number of bits that holds U, and the length the rest of the pair.
OffsetBitsAt(u) == Min({m \in LeastOffset .. PairBits : 2 ^ m >= u})
LengthBitsAt(u) == PairBits - OffsetBitsAt(u)

Back(dist, len) == [Lit(0) EXCEPT !.len = len, !.dist = dist]

PutItem(e, t) ==
  LET g == IF e.bit = 0 THEN [e EXCEPT !.cells = Append(@, 0), !.flagged = Len(e.cells) + 1] ELSE e
      v == (t.dist - 1) * 2 ^ LengthBitsAt(e.size) + t.len - 3
  IN  [g EXCEPT
         !.cells = IF t.dist = 0 THEN Append(@, t.symbol) ELSE [@ EXCEPT ![g.flagged] = @ + 2 ^ g.bit] \o Cells(v),
         !.bit = (@ + 1) % (PairBits \div 2), !.size = @ + t.len]

Lznt1Chunk(tokens) ==
  LET e == FoldLeft(PutItem, [cells |-> <<>>, flagged |-> 0, bit |-> 0, size |-> 0], tokens)
  IN  <<Len(e.cells)>> \o e.cells
StoredAs(bytes) == <<-Len(bytes)>> \o bytes

Memo(cells, means) == Packed("MEMO", <<Len(means)>> \o cells, means)

\* Items that fit: into what is written, the bits of a length, and the chunk.
FitsChunk(tokens) ==
  \A k \in DOMAIN tokens :
    LET u == Len(Means(SubSeq(tokens, 1, k - 1)))
    IN  tokens[k].dist <= u /\ u + tokens[k].len <= ChunkSize
          /\ (tokens[k].dist > 0 => tokens[k].len - 3 < 2 ^ LengthBitsAt(u))

MemoItems == {Lit(0), Lit(1)} \cup {Back(d, n) : d \in 1 .. 4, n \in 3 .. 5}

Starts == {<<Lit(1)>>, <<Lit(1), Lit(0)>>, <<Lit(1), Lit(0), Lit(0)>>, <<Lit(1), Lit(0), Lit(0), Lit(1)>>}
OneMemo == {t \in UNION {{s \o <<x>>, s \o <<x, y>>} : s \in Starts, x, y \in MemoItems} : FitsChunk(t)}
FullChunk == <<Lit(1), Back(1, 5), Lit(0), Lit(1)>>

MemosOk ==
  {Memo(Lznt1Chunk(t), Means(t)) : t \in OneMemo}
    \cup {Memo(Lznt1Chunk(FullChunk) \o Lznt1Chunk(t) \o end, Means(FullChunk) \o Means(t)) :
           t \in {<<Lit(1), Lit(0)>>, <<Lit(0), Back(1, 3)>>}, end \in {<<>>, <<0>>}}
    \cup {Memo(StoredAs(<<1, 0, 1>>) \o Lznt1Chunk(t), <<1, 0, 1>> \o Means(t)) : t \in {<<Lit(1), Back(1, 4)>>}}

SomeMemo == Memo(Lznt1Chunk(<<Lit(1), Lit(0), Back(2, 3)>>) \o StoredAs(<<1, 1>>), <<1, 0, 1, 0, 1, 1, 1>>)

\* Cut, of another length than declared, and with a distance past the chunk's start.
MemosDamaged ==
  {CutShort(SomeMemo, n) : n \in 1 .. 6}
    \cup {[SomeMemo EXCEPT !.cells[1] = n, !.whole = FALSE] : n \in {0, 4, 6, 9}}
    \cup {[SomeMemo EXCEPT !.cells[2] = n, !.whole = FALSE] : n \in {0, 5, 9}}
    \cup {[Memo(c, <<>>) EXCEPT !.cells[1] = n, !.whole = FALSE] : n \in {3, 7},
           c \in {<<3, 1, 0, 0>>, Lznt1Chunk(<<Lit(1), Lit(0)>>) \o <<4, 2, 1, 1, 2>>}}

ChainsOk == {Chunks(k, s, t) : k \in {1, 2}, s \in Four, t \in Four \cup Rests}
BlocksOk ==
  {Blocks("MEM0", k, <<s, t>>) : k \in {1, 2}, s \in Four, t \in Rests}
    \cup {Blocks("MEMB0", k, <<s, t>>) : k \in {1, 2}, s \in Four \cup Eight, t \in Rests}
    \cup {Blocks("MEMB0", 1, <<s, t, u>>) : s, t \in Four, u \in Rests}

Damaged(sound) ==
  {CutShort(f, n) : f \in sound, n \in {1, 4, 6}}
    \cup {Declaring(f, n) : f \in sound, n \in {0, MaxOutput + 1, 3}}

SomeChain  == Chunks(1, <<Lit(0), Copy(0, 0, 0)>>, <<Lit(1)>>)
SomeBlocks == Blocks("MEMB0", 1, <<<<Lit(0), Copy(0, 0, 0)>>, <<Lit(1)>>>>)
SomeMam    == Mam(1, <<Lit(1), Lit(0), Copy(1, 0, 3)>>)

\* The first chunk, or block, states that it has no bytes, or too many; the table is no
\* complete code; the match starts before the output; too short for a header.
Odd ==
  {[SomeChain EXCEPT !.cells[2] = n, !.whole = FALSE] : n \in {0, 40}}
    \cup {[SomeBlocks EXCEPT !.cells[3] = n, !.whole = FALSE] : n \in {0, 40}}
    \cup {[SomeMam EXCEPT !.cells[2] = c, !.whole = FALSE] : c \in {-3, 1}}
    \cup {[Packed("MAM", <<6>> \o Encode(1, <<Copy(1, 0, 3)>>), <<>>) EXCEPT !.whole = FALSE]}
    \cup {[Packed(k, <<>>, <<>>) EXCEPT !.whole = FALSE] : k \in {"MAM", "PfB", "MEM0", "MEMO"}}

-----------------------------------------------------------------------------
\* Databases.  Two volumes with three files, sound, and damaged in one place.

Device(n)     == <<"DEVICE", n>>
OfVolume(r)   == [volume |-> <<r>>, path |-> <<>>, ok |-> FALSE, stride |-> 1, shown |-> r.device]
OfFile(p)     == [volume |-> <<>>, path |-> p, ok |-> TRUE, stride |-> 1, shown |-> p]
Junk          == [OfFile(<<>>) EXCEPT !.ok = FALSE]
Volume(d, s, n) == [device |-> d, serial |-> s, created |-> 1, declared |-> n]

V1 == OfVolume(Volume(Device("DEV1"), "s1", 2))
V2 == OfVolume(Volume(Device("DEV2"), "s2", 1))
F1 == OfFile(<<"DEVICE", "DEV1", "A">>)
F2 == OfFile(<<"DEVICE", "DEV1", "B">>)
F3 == OfFile(<<"DEVICE", "DEV2", "A">>)

SoundHeader ==
  [small |-> FALSE, sizeTrue |-> TRUE, volumeKnown |-> TRUE, fileKnown |-> TRUE, probe |-> "none",
   subKnown |-> TRUE, volumes |-> 2, files |-> 3, sources |-> 0, sourceKnown |-> TRUE, sourceRoom |-> 0]

Database(header, items) ==
  [kind |-> "none", cells |-> <<>>, means |-> <<>>, whole |-> TRUE, header |-> header, items |-> items]

SoundItems == <<V1, F1, F2, V2, F3>>

ItemsDamaged ==
  {[SoundItems EXCEPT ![k].ok = FALSE] : k \in {2, 3, 5}}
    \cup {[SoundItems EXCEPT ![k].stride = n] : k \in {2, 3, 5}, n \in {2, 3}}
    \cup {[SoundItems EXCEPT ![k].volume[1].declared = n] : k \in {1, 4}, n \in 0 .. 4}
    \cup {[SoundItems EXCEPT ![k].shown = <<>>] : k \in {3, 5}}
    \cup {[SoundItems EXCEPT ![3].shown = @ \o <<"JOINED">>]}
    \cup {InsertAt(SoundItems, k, j) : k \in {2, 3, 4, 6}, j \in {Junk, [V2 EXCEPT !.shown = <<>>]}}
    \cup {SubSeq(SoundItems, 1, n) : n \in 0 .. 4}
    \cup {<<V1, Junk, Junk, F1, F2, V2, F3>>, <<V1, F1, F2, V2, F3, V2, F3>>}

Headers ==
  {SoundHeader}
    \cup {[SoundHeader EXCEPT !.subKnown = FALSE, !.volumes = n] : n \in 1 .. 3}
    \cup {[SoundHeader EXCEPT !.volumes = n] : n \in 0 .. 3}
    \cup {[SoundHeader EXCEPT !.volumes = 0, !.files = 0]}
    \cup {[SoundHeader EXCEPT !.files = n] : n \in {0, 2, 4}}
    \cup {[SoundHeader EXCEPT !.fileKnown = FALSE, !.probe = o] : o \in {"match", "none", "raises"}}
    \cup {[SoundHeader EXCEPT !.volumeKnown = FALSE], [SoundHeader EXCEPT !.sizeTrue = FALSE],
          [SoundHeader EXCEPT !.small = TRUE]}
    \cup {[SoundHeader EXCEPT !.sources = m, !.sourceKnown = b, !.sourceRoom = n] :
            m \in {MaxSources, MaxSources + 1}, b \in BOOLEAN, n \in {1, 2, 3}}

DatabasesGiven ==
  {Database([SoundHeader EXCEPT !.volumes = 1, !.files = 2], [SoundItems EXCEPT ![2].stride = 3])} \cup
  {Database(SoundHeader, i) : i \in ItemsDamaged \cup {SoundItems}}
    \cup {Database([SoundHeader EXCEPT !.subKnown = FALSE], i) : i \in ItemsDamaged}
    \cup {Database(h, i) : h \in Headers, i \in {SoundItems, <<>>}}

\* A compressed file that is nothing but compressed.
NoItems == [header |-> [SoundHeader EXCEPT !.small = TRUE], items |-> <<>>]

-----------------------------------------------------------------------------
\* Traces.

Record(n, p) == [name |-> n, parent |-> p, chars |-> "text"]

SoundTable == <<Record("DEVICE", 0), Record("DEV1", 1), Record("A", 2), Record("B", 3)>>

Trace(table) ==
  [bounds |-> TRUE, table |-> table, rest |-> FALSE, io |-> FALSE, array |-> TRUE, sections |-> <<0, 0>>,
   blocks |-> <<>>]

TablesDamaged ==
  {[SoundTable EXCEPT ![k].parent = p] : k \in DOMAIN SoundTable, p \in {0, 4, 9}}
    \cup {[SoundTable EXCEPT ![k].chars = c] : k \in DOMAIN SoundTable, c \in {"lossy", "binary"}}
    \cup {SoundTable \o <<Record("C", 4)>>, Reverse(SoundTable)}

Read(n, tick) == [name |-> n, bytes |-> 4, when |-> tick]
Zeroed        == [name |-> 0, bytes |-> 0, when |-> 0]

\* Two sections at once, the second beginning before the first ends.
Reads == <<<<Read(1, 2), Read(3, 5)>>, <<Read(3, 6), Zeroed>>, <<Read(9, 1), Read(1, 4)>>>>

Traced(c1, c2, n) ==
  [Trace(SoundTable) EXCEPT !.io = TRUE, !.sections = <<c1, c2>>, !.blocks = SubSeq(Reads, 1, n)]

TracesGiven ==
  {Trace(t) : t \in TablesDamaged \cup {SoundTable, <<>>}}
    \cup {[Trace(SoundTable) EXCEPT !.bounds = FALSE], [Trace(SoundTable) EXCEPT !.rest = TRUE]}
    \cup {Traced(c[1], c[2], c[3]) : c \in {<<3, 2, 3>>, <<2, 0, 1>>, <<0, 2, 1>>, <<3, 2, 2>>, <<4, 3, 3>>, <<0, 0, 0>>}}
    \cup {[Traced(c, 0, c) EXCEPT !.array = FALSE] : c \in {0, 1}}

Holding1(inner) == OneChunk(1, <<Lit(0)>>) @@ [inner |-> inner]

-----------------------------------------------------------------------------
\* Files and folders.

NewFile(name, kind, in) ==
  [name |-> name, kind |-> kind, opens |-> "yes", size |-> 1, holds |-> 1, dated |-> TRUE, in |-> in]

Directory(under, given) == [under |-> under, lists |-> TRUE, files |-> given]
InFolder(given) == [root |-> "dir", dirs |-> <<Directory(1, given)>>, truth |-> {}]

LayoutOf(lines) == NewFile("Layout.ini", "layout", [section |-> TRUE, lines |-> lines])
DbFile(name, d) == NewFile(name, "superfetch", d)
BootFile(name, inner) == NewFile(name, "readyboot", Holding1(inner))

PackedFolders ==
  {InFolder(<<DbFile("Ag.db", f @@ NoItems)>>) : f \in {Mam(k, s) : <<k, s>> \in
      {<<k, s>> \in {1, 2} \X (Streams(1) \cup Streams(2)) : s \in Streams(k)}}
      \cup BlocksOk \cup MemosOk \cup MemosDamaged \cup Damaged({SomeBlocks, SomeMam}) \cup {f \in Odd : f.kind # "PfB"}}
    \cup {InFolder(<<NewFile("Trace1.fx", "readyboot", f @@ [inner |-> [Trace(<<>>) EXCEPT !.bounds = FALSE]])>>) :
      f \in ChainsOk \cup Damaged({SomeChain}) \cup {f \in Odd : f.kind = "PfB"}}

DbFolders   == {InFolder(<<DbFile("Ag.db", d)>>) : d \in DatabasesGiven}
BootFolders == {InFolder(<<BootFile("Trace1.fx", t)>>) : t \in TracesGiven}

\* A ring after n events, written one by one, and two that are in no order.
RingOf(slots, n) ==
  [header |-> TRUE, whole |-> TRUE, count |-> n,
   slots |-> [k \in 1 .. slots |-> Max({m \in 0 .. n : m = 0 \/ (m - k) % slots = 0})]]
Ring(n) == RingOf(2, n)
Rings == {Ring(n) : n \in 0 .. 5} \cup {RingOf(3, n) : n \in 2 .. 7}
           \cup {[Ring(1) EXCEPT !.count = 5], [Ring(3) EXCEPT !.count = 1],
                 [Ring(2) EXCEPT !.whole = FALSE], [Ring(2) EXCEPT !.header = FALSE]}
RingFile(r) == NewFile("PfPre_0.mkd", "pfpre", r)

SomeFiles ==
  {LayoutOf(<<<<"C:", "A">>, <<"Version">>, <<"UNC", "SRV", "A">>>>), RingFile(Ring(3)),
   NewFile("note.txt", "unrecognised", <<>>), NewFile("A.pf", "prefetch", <<>>), DbFile("Ag.db", Database(SoundHeader, SoundItems)),
   BootFile("Trace1.fx", Trace(SoundTable))}

\* What the file system says of one of them.
Said(f) ==
  {f, [f EXCEPT !.opens = "no"], [f EXCEPT !.opens = "special"]}
    \cup {[f EXCEPT !.size = n, !.holds = m, !.dated = b] :
            n, m \in {MaxArtifact, MaxArtifact + 1}, b \in BOOLEAN}

FileFolders ==
  {InFolder(<<g>>) : g \in UNION {Said(f) : f \in SomeFiles} \cup {RingFile(r) : r \in Rings}}
    \cup {[root |-> r, dirs |-> <<>>, truth |-> {}] : r \in {"missing", "file"}}
    \cup {[InFolder(<<NewFile("note.txt", "unrecognised", <<>>)>>) EXCEPT
             !.dirs = @ \o <<[Directory(1, <<RingFile(Ring(1))>>) EXCEPT !.lists = b],
                             Directory(2, <<NewFile("b.txt", "unrecognised", <<>>)>>)>>] : b \in BOOLEAN}

-----------------------------------------------------------------------------
\* One machine: C: is DEV1 and D: is DEV2.  Another with a Windows of its own.

Stock == {<<"WINDOWS", "N">>, <<"WINDOWS", "K">>}
Own   == {<<"APP", "P">>, <<"APP", "Q">>, <<"USERS", "U">>}
Data  == {<<"DATA", "X">>, <<"DATA", "Y">>, <<"$MFT">>}
Other == {<<"GAME", "P">>, <<"GAME", "Q">>}

On(root, tails)  == {root \o t : t \in tails}
Dev1 == <<"Device", "Dev1">>
Dev2 == <<"DEVICE", "DEV2">>

InSomeOrder(given) == FoldSet(LAMBDA x, s : Append(s, x), <<>>, given)

Lines(c, d) == InSomeOrder(On(<<"C:">>, c) \cup On(<<"D:">>, d))

\* D: may hold a copy of what is on C:; a letter may be spelt small.
Layouts ==
  {Lines(Stock \cup Own, {}), Lines(Stock \cup Own, Data), Lines(Stock \cup Own, Stock \cup Own),
   Lines(Stock, {<<"$MFT">>}), Lines(Stock, Data), InSomeOrder(On(<<"c:">>, Own)) \o Lines(Stock, {})}

\* A record for each folder and each file, behind that of its folder.
TableOf(given) ==
  LET nodes == FlattenSeq([n \in 1 .. MaxDepth |->
                 InSomeOrder({SubSeq(p, 1, n) : p \in {q \in given : Len(q) >= n}})])
  IN  [k \in DOMAIN nodes |->
         Record(Last(nodes[k]), IF Len(nodes[k]) = 1 THEN 0 ELSE SelectInSeq(nodes, LAMBDA q : q = Front(nodes[k])))]

AllTraces(sets) == [k \in DOMAIN sets |-> BootFile(ToString(k), Trace(TableOf(sets[k])))]

\* The traces of this machine: whole, of both volumes, in two spellings, of too little
\* of C:, with one or two files of C: on the other volume as well.
HomeTraces ==
  {<<On(Dev1, Stock \cup Own)>>, <<On(Dev1, Stock \cup Own), On(Dev2, Data)>>,
   <<On(Dev1, Stock \cup {<<"APP", "P">>}), On(<<"DEVICE", "DEV1">>, Own)>>,
   <<On(Dev1, {<<"APP", "P">>, <<"USERS", "U">>})>>, <<On(Dev1, Stock), On(Dev2, Data)>>,
   <<On(Dev1, Stock \cup Own) \cup On(Dev2, {<<"WINDOWS", "N">>})>>,
   <<On(Dev1, Stock \cup Own) \cup On(Dev2, Stock)>>, <<On(Dev2, {<<"$MFT">>})>>}
AwayTraces == {<<On(<<"Device", "Dev9">>, Stock \cup Other)>>, <<>>}

States(name, r) ==
  DbFile(name, Database([SoundHeader EXCEPT !.volumes = 1, !.files = 1],
                        <<OfVolume([r EXCEPT !.declared = 1]), OfFile(<<"A", "B">>)>>))

Swept(name, strings) ==
  DbFile(name, Database([SoundHeader EXCEPT !.volumeKnown = FALSE],
                        [k \in DOMAIN strings |-> OfFile(strings[k])]))

R1 == Volume(Device("DEV1"), "s1", 1)
Small == Volume(<<"Device", "Dev1">>, "s1", 1)
Named == Volume(<<"VOLUME{1-s1}">>, "s1", 1)

DbLists ==
  {<<>>, <<States("a", R1)>>, <<States("a", R1), States("b", Small)>>,
   <<States("a", R1), States("b", [R1 EXCEPT !.serial = "s9"])>>,
   <<States("a", [R1 EXCEPT !.device = Device("DEV2")])>>,
   <<States("a", Named)>>, <<States("a", Named), States("b", Named)>>,
   <<Swept("a", <<<<"VOLUME{1-s1}">>, <<"X">>>>)>>,
   <<Swept("a", <<<<"VOLUME{1-s1}", "X">>, <<"VOLUME{1-s1}", "Y">>>>)>>,
   <<States("a", Named), States("b", [Named EXCEPT !.device = <<"OTHER">>])>>,
   <<Swept("a", <<<<"VOLUME{9-s1}", "X">>>>)>>, <<States("a", R1), Swept("b", <<<<"VOLUME{9-s1}">>, <<"X">>>>)>>,
   <<States("a", Named), States("b", [R1 EXCEPT !.device = Device("DEV2"), !.serial = "00000000"])>>}

Collected(lines, traces, dbs, truth) ==
  [InFolder(<<LayoutOf(lines)>> \o AllTraces(traces) \o dbs) EXCEPT !.truth = truth]

Home == {<<"C:", "DEV1">>, <<"D:", "DEV2">>}

VolumeFolders ==
  {Collected(l, t, <<>>, Home) : l \in Layouts, t \in HomeTraces}
    \cup {Collected(l, t, <<>>, {}) : l \in Layouts, t \in AwayTraces}
    \cup {Collected(l, t, d, Home) : l \in {Lines(Stock \cup Own, {}), Lines(Stock \cup Own, Data)},
            t \in {<<On(Dev1, Stock \cup Own)>>, <<On(Dev1, Stock \cup Own), On(Dev2, Data)>>},
            d \in DbLists}

AllFolders == PackedFolders \cup DbFolders \cup BootFolders \cup FileFolders \cup VolumeFolders

-----------------------------------------------------------------------------
Spellings == ("Device" :> "DEVICE") @@ ("Dev1" :> "DEV1") @@ ("Dev9" :> "DEV9") @@ ("c:" :> "C:")
Drive     == {"c:", "C:", "D:"}
General   == {"$MFT", "SYSTEM VOLUME INFORMATION"}
Roots     == {"WINDOWS", "PROGRAM FILES", "USERS"}
Volumes1  == ("VOLUME{1-s1}" :> [serial |-> "s1", created |-> 1])
               @@ ("VOLUME{9-s1}" :> [serial |-> "s1", created |-> MaxCreated + 1])
Sizes     == <<12, 8, 4>>
===============================================================================
