# Verification of Prefetch-Parser

TLA+ models of the parts of the Prefetch parser where the order of steps, failures and
interruptions decides whether the evidence that comes out is right, with TLC configurations and
TLAPS proofs. File and line references are to the repository.

## 1. Inventory

| Component | State | Operations | Hard because |
|---|---|---|---|
| Evidence database, writing (`prefetch_core/store.py`) | the SQLite file; per process: transaction, savepoint, records added | `add_all`, `add`, `_add`, `_delete`, `commit`, `close`, `add_artifact(s)` | several processes, failing statements, full disk, Ctrl-C, kill |
| Evidence database, opening (`Store.__init__`, `_migrate`) | tables and columns, `user_version`, `timeline` view | create, upgrade, stamp, rebuild view, refuse | every statement commits by itself; several builds |
| Output files (`output.py`, `export.py`) | target files, temporaries | `atomic_write`, `atomic_write_pair`, `write_artifact_csv` | crash between fsync and rename, two renames for one promise |
| Parser (`__init__.py`, `container.py`, `scca.py`, `errors.py`, `model.py`) | one record under construction, `Bounds` coverage | `parse_file`, `decompress`, `parse`, per-section stages | hostile or damaged input, one stage failing must not cost another |
| Alternate data streams (`ads.py`) | findings and problems of a scan | `list_streams`, `scan_file`, `scan_tree`, `parse_findings` | unreadable directories and streams must not read as clean |
| XPRESS decompression (`xpress.py`) | bit register, input position, output | `decompress`, `decompress_pfb` | bits and bytes come off one input in an order the format only implies; every number is the file's own |
| Folder artifacts (`artifacts.py`, `agdb.py`) | the artifact being parsed, the artifact list, volume identities | `scan_folder`, `parse_artifact` and its four parsers, `agdb.parse`, `correlate_volumes` | undocumented formats: probes that may be wrong, fallbacks that must not mix with what failed; conflicting evidence must be withheld, not guessed |
| Command line (`pfcli/__main__.py`) | three outputs of a run, exit code | `parse`, `info`, `ads`, `artifacts` | one destination failing must not cost the others |
| Grid and filters (`pfgui/model.py`, `filterpopup.py`, `__main__.py`) | rows, proxy restrictions, widgets, header marks, saved views | search, tick, apply, clear, save/restore view, load | widgets and proxy are two copies of one state joined by signals |
| Loading, tags, notes (`pfgui/__main__.py`) | rows, annotations, loaded paths, artifacts | `load`, `_load_artifacts`, `_tag_selected`, `_export_artifacts` | `processEvents` re-enters the window in the middle of a load |

Interactions. The CLI and the GUI both call the parser and write through `output.py`; the CLI
writes the database. Processes meet in the file system only: in the SQLite file, under SQLite's
locks, and in the names of output files. Inside the GUI everything runs on one thread, and the
only concurrency is re-entrancy through `QApplication.processEvents`.

What makes each part correct: the database holds whole records, one per source, and never loses
one it had; an open store can be written to; an output file is complete or the old one; a filter
is never invisible; analyst-authored tags and notes survive; what is unpacked is what was packed;
every file of a folder is accounted for; a drive letter is the right one or missing. The code promises these in comments;
the properties quote them.

## 2. Modules

Each detailed module has an `MC` module that only names the constants of its TLC instances.
Theorems are in modules of their own: `StoreProofs`, `StoreOpenProofs`, `OutputFileProofs`,
`GuiFiltersProofs`, `GuiLoadProofs`, `ParserProofs` (of `Bounds` and `Parser`), `CliProofs` (of
`AdsScan` and `Cli`) and `ArtifactsProofs` (of `Unpack`, `ReadyBoot`, `SuperFetch`, `FolderScan` and
`Volumes`, as `Cli` runs them). Constants carry the assumptions the proofs use, and TLC evaluates them in every run.

**`Store`** (core). One action per SQLite statement group of `add_all` → `add` → `_add` →
`_delete`/INSERTs → `RELEASE` → `COMMIT` → `close`. `pc[w]` is where process `w` is; `db` is the
file after every journal is rolled back; `view[w]`/`save[w]` are what `w`'s open transaction sees
and what `SAVEPOINT record` would restore; `lock[w]` is its file lock, and `"none"` also means that
the transaction has neither changes nor a snapshot. Records are a source key (or `NoKey`, SQL's
NULL, for a record without a path), a version that tells two parses apart, and a number of
children; the child tables are merged, because what matters is whether all of a row's children are
there. SQLite is external: rollback journal (`PRAGMA journal_mode = DELETE`), deferred `BEGIN`, one
RESERVED lock, `COMMIT` needs every other SHARED lock gone, ids without AUTOINCREMENT are used
again. `StatementFails` has both outcomes the code's comments name: the transaction as it was, or
gone altogether (full disk). `Interrupt` has one disjunct per place a KeyboardInterrupt is handled
differently; `UndoInterruptible` switches the one place the code does not guard.

**`Ledger`** is the abstract promise: per source the version last ingested, and a pile of records
without a source; it changes by publishing. **`StoreRefinement`** maps a `Store` state to it (the
version of a source is that of its row *with all children*) and states `ImplementsLedger`.

**`StoreOpen`** models `Store.__init__`: `CREATE TABLE IF NOT EXISTS` per table, `user_version`,
`PRAGMA table_info`, `ALTER TABLE` per column, the stamp, and the view's DROP and CREATE. Each is a
transaction of its own (`isolation_level = None`, `executescript`), so all interleavings of several
processes running several builds are steps of the model, and so are a failure or death between any
two statements. `INDEXES` only read columns that exist by then and are part of `Stamp`'s step.

**`OutputFile`** models `atomic_write` (a plan of one target) and `atomic_write_pair` (two):
temporaries, body, fsync of each, renames, `finally`. A content is the number of the export that
wrote it, whether it is whole and whether it was fsynced; a power loss keeps any subset of the
renames since the last one (no directory is fsynced) and truncates what was never synced.
`contested` is a history variable: per exporter, the names others have renamed onto since it began.

**`Bounds`** is the reader every field of a prefetch file goes through: the range check, the sorted
list of spans, the sort-and-merge when a read goes backwards (one iteration a step), and `gaps()`.

**`Parser`** is one call of `parse_file` over `Bounds`: stat, limited read, the choice and fallback
of decompressors, then `_parse_body` read by read; `pc` names the read that comes next, `Wanted` its
range and `Skips` the loops that are over. A length is counted in structures (a header, an array
entry, a block), so an ordinary file has ten; the numbers a damaged file may state are arbitrary
integers. What the decoders return is an input (`box`, `os`, `pure`, `written`, `slack`). `onRecord`
is a history variable: the bytes whose content the record holds, which is less than what was read
when a local never reaches the record. Another process may append to the file between the stat and
the read. A file's times are an input too: where one is no `datetime`, `_stamp_source` raises, inside
`parse_file`'s handler or behind it (`Escapes`, `StampRaises`).

**`AdsScan`** is `scan_tree` and `scan_file`: `os.walk` directory by directory, the entries of each,
the stream list, and one action per way a stream can turn out. The tree, what its entries refuse
and what the streams hold are inputs; that `os.walk` cannot list a directory may happen at any one.
An entry whose times are no `datetime` refuses like one whose enumeration fails, through the handler
of `scan_tree`. `examined` and `unlisted` are history variables. `IsPlace` is what the constants
assume of a tree.

The folder's artifacts are a chain of modules, each of which extends the one before and runs it as
its own sub-step, as the functions call each other: `Xpress` and `Lznt1` - `Unpack` - `ReadyBoot`
and `SuperFetch` - `FolderScan` - `Volumes` - `Cli`.

**`Xpress`** is `xpress.decompress` itself, bit by bit: the register, its refill, the code table and
the check that it is complete, literals, matches and their extra bytes, the copy that overlaps what
it writes. A *cell* stands for 16 bits of input; the register has two words of `WordBits` bits, a
match length escapes at `LongNibble`, and a block of output has `BlockSize` bytes - the constants of
the format, made small. The arithmetic that only depends on them is the code's.

**`Lznt1`** is `agdb._lznt1`, for Vista's databases, which the repository has no sample of: stored and
compressed chunks, groups of items behind a flag byte, and the division of a pair that moves with
what is written (`Shift`, computed as the code does; the encoder uses the format's definition).

**`Unpack`** is the wrappers: one MAM stream, `decompress_pfb`'s chain of chunks that state the
length of the next, `agdb._blocked`'s blocks of a size that is tried in turn, and `MEMO`. `wrapped.means` is a
history variable: what was compressed into the file. The decoder takes as many steps as it has
symbols, so a wrong block size may decode some blocks before it fails.

**`ReadyBoot`** is `parse_readyboot`: the name table up to the first record that cannot be one, the
path of each record by its chain of parents, one parent a step, and the I/O trace by sections and blocks, one event a step. What the
payload's bytes mean - which records, which events - is the input `inner`; parents are numbers of
records, and any other number is a place where no record starts.

**`SuperFetch`** is `agdb.parse` and `parse_superfetch`: the header's counts, the probe for the entry
size, the walk over volumes and files, the scan that stands in when the walk's sum differs, the
sweep over what is left. An *item* is whatever starts at a place of the payload: a volume record, a
file entry, or nothing; `stride` says where the next place is, `shown` what the sweep sees there.

**`FolderScan`** is `scan_folder` and `parse_artifact`: `os.walk` from one directory to the next
(`dirpath`; one that does not list has no files), and per file the reasons not to parse it, in the order of the code (not regular, not readable, grown
since `stat`, unknown, too large), then the four parsers. `Layout.ini` and the `PfPre` ring are one
step each. A file's own time is taken last; one that is no `datetime` ends the command (`DateRaises`).
`IsFolder` says what any folder is: no two files have one path.

**`Volumes`** is `correlate_volumes`: path sets by device and by letter, the claim of a letter, the
claim withdrawn, what databases state and mention of a volume, the one record that names a device, the one volume of the
folder; and, before all that, the exception of a swept volume name whose hex digits are a date past
`MaxCreated` (`Overflows`), in the code year 9999. `folder.truth` is a history variable: the letters on the machine the folder came from.

**`MCArtifacts`** holds an *encoder* for each of the two, written from the format and not from the
decoder: it turns literals and matches into the bits and bytes of a stream, so that the decoder is
checked against the meaning of its input. It also builds the chains, blocks, databases, traces and folders of the run.

**`Cli`** extends `AdsScan` and `Volumes` to a whole `pfcli parse`, `ads` or `artifacts`: `main`'s
refusals, the search (`discover` file by file with its de-duplication, or either scan), the database, the CSV or
the pair, the exit code. What an output's name means is three things in the code and in the model:
the name given, its resolved path, and the file it is (hard links). Writing is a step that works or
fails; how is `Store` and `OutputFile`. An exception nothing catches (`ParseRaises`,
`CorrelationRaises`, `FolderNotScanned`) is a traceback and exit code 1. `info` and `capabilities` only print.

**`GuiFilters`** keeps the proxy's restrictions and the widgets as separate variables, as the code
does, and has one action per signal handler. `Qt` is external where the code relies on it:
`textChanged`/`toggled` fire only on a change, a `Qt.Popup` takes all input. A load that brings rows
is two steps, because `processEvents` runs in between. Sorting and column visibility are left out.
Searches are compared after `strip().lower()` (`Searched`).

**`GuiLoad`** models `load` with a stack of loads in progress (`processEvents` may start another
before one ends), the annotations dictionary, the artifacts kept for export and `loaded_paths`.
`ParseRaises` and `ScanRaises` end a load by an exception, which Qt prints while the window goes on;
that a nested one ends the outer load too is two such steps.
`typed` is a history variable: what the analyst last entered for a file. A load takes one path; the
code's list of paths only unites what is scanned. `progress.wasCanceled()` before the first file is
always false (no event has been pumped), so `load`'s `if not rows: return` is unreachable and has no
action; a later Cancel makes `FinishParsing` take a non-empty part of the files.

Definitions whose names start with the name of another and that carry the comment "Mutant of" are
deliberately broken variants. They are in no specification; each shows that a property notices a
plausible bug.

## 3. Runs

`CHECK_DEADLOCK FALSE` is set wherever the number of runs, loads, opens or exports is bounded, or
the program ends: the system may stop there. `GuiFilters` never stops and is checked for deadlock.

| Run | Question | Bounds, and why they are enough |
|---|---|---|
| `store` | With failures, a full disk, an interrupt and kills anywhere: does the file hold whole records, one per source (`NoPartialRecord`, `OneRowPerSource`), is no row ever lost (`NothingLost`), does `add_all` returning mean stored (`OkMeansStored`), is it a `Ledger` (`ImplementsLedger`), does every run end and unlock (`EveryRunEnds`)? | 2 processes, 2 runs each way, 2 sources, 2 versions, up to 2 children, `commit_every` 2, 1 interrupt: first ingest, re-ingest after every ending, a commit in mid-run, a source listed twice, pathless records. The lock protocol is pairwise, so a third process adds no case |
| `store_undo_interrupt` | **violated** `NoPartialRecord`: an interrupt in the except block | 1 process, `UndoInterruptible` on, otherwise as `store` |
| `open_mixed` | Is a stamp ever ahead of the schema (`StampMeansComplete`); has an open store its columns (`OpenMeansUsable`); does re-opening alter nothing (`ReopenAltersNothing`)? | 4 opens by 2 processes of different builds on 7 kinds of file, failures and deaths between any two statements |
| `open_race` | **violated** `NoOpenRaces`: both of two opens should succeed | 2 opens of one build, no failures |
| `output_crash` | Does a reader ever see a half-written file (`TargetsWhole`), does a failed export publish nothing and the summary never precede its paths (`NothingPublishedEarly`), does ok mean published (`OkMeansPublished`)? | 2 exporters, 3 exports over the CSV and the pair, a kill, a power loss, failing renames: an export over another's target, before, during and after a crash |
| `parser` | A record of every input whose times are dates (`EveryInputProducesRow`), whose gaps (`GapsAreUnread`), verdict (`VerdictMatchesProblems`), residue (`UnreadIsAccounted`), decoder (`DecoderIsHonest`) and access time (`AccessIsNotOurs`) are right, within memory (`MemoryIsBounded`), and no parse lost to trace chains (`BadCountLosesNothing`)? | one file with a structure of each kind, and that file with any one or two of its numbers replaced by another (negative, into every other structure, past the end), cut or extended; containers under every pairing of decoders; what a disk may answer to stat and open; times inside and outside `datetime`'s years. Residue limits of 2 regions and 3 bytes are reached and passed |
| `parser_hidden_tail` | **violated** `EveryByteReported` | the sound file, other versions, tails of each kind |
| `cli_commands` | Is nothing that was looked at lost (`EntriesAccounted`, `FindingsExact`), is a lying size bounded (`ReadBounded`), are the outputs what was announced (`OutputsAsAnnounced`) and does the exit code say what was left out, as far as the code keeps that promise (`ExitCodeIsTrue`), is each file parsed once (`EachFileOnce`)? Of `artifacts`: is what is unpacked what was packed (`UnpackedExactly`), is every name, path and read of a trace accounted for (`TraceAccounted`), every volume and file of a database (`RecordsAccounted`), every file of the folder (`FilesAccounted`); is a letter the right one (`LettersMatchEvidence`) and a serial stated by the evidence (`StatedIdentities`)? Does every command end (`CommandEnds`)? | trees of two directories and two files, with each kind of stream beside a hidden prefetch in either order, enumerations cut at any point, a link back to the root; outputs that are one name, one path or one file; overlapping, missing and unlistable arguments; files and entries whose times are no dates. For `artifacts`, the folders of the next paragraph |
| `ads_false_clean` | **violated** `CleanMeansLooked` | the same trees without links, so that the violation is `os.walk`'s silence and not a link |
| `filters_session` | Is a row ever hidden by something the window does not show (`NoHiddenFilter`)? Does the popup offer values that show rows (`OfferedValuesMatch`) and Apply show exactly what was ticked (`ApplyShowsTicked`)? | 2 rows, 2 columns (one is the tag), 1 saved view, 2 loads over folders with 2, 1 and 0 files, also re-entrant: one row each way of every restriction |
| `load_nested` | Does anything but tagging change what is known of a file (`RescanKeepsAnnotations`)? | 3 loads, nested and cancelled, over two folders sharing a file, one without `.pf` files and a mistyped path; 2 taggings |
| `load_lost_tags` | **violated** `TagsSurvive` | 3 loads, not nested |

The folders of `cli_commands`. *Compressed files:* every valid pair of tokens over two code tables
(shortest and longest codes, matches that overlap, lengths in the nibble, in a byte, in a word and in
a double word), chains of two chunks, two and three blocks; each cut short in three places, with a
false declared size, with a chunk or block of no bytes or of too many, with a code that is not
complete. LZNT1 files of one or two items after one to four bytes, chunks that are stored, full, or
followed by another, cut, and with distances past the start; `PairBits` 4, `LeastOffset` 1 and
`ChunkSize` 8 give three divisions of a pair, and each is reached on both sides of its boundary. `WordBits` 4, `Literals` 2, `LongNibble` 3, `BlockSize` 4: a token crosses the refill of the
register at every bit, and a length passes each escape; `MemSizes` 12, 8, 4: two wrong sizes are tried
before the right one. `MaxOutput` 20. *Traces:* a table of four records with each parent, in turn,
replaced by none, a loop and a place without a record, each name lossy or binary, the table reversed;
I/O sections of 0 to 4 events in blocks of `PerBlock` 2 that fit, overrun (`MaxIoEvents` 6) or fall
short; `MaxDepth` 4 is reached and passed. *Databases:* two volumes with three files and every single
record damaged, displaced, hidden from the sweep, inserted or cut off, and every number of the header
false, 0 and 0 with a file behind them included, with `ScanWindow` 2, `MaxRecords` 2 and `MaxSources` 2
(source records up to one above it). *Folders:* each kind of file refused, special, at and above
`MaxArtifact` 3, or grown after `stat`; directories that do not list; rings of two slots with 0 to 5
events and of three with 2 to 7. *Volumes:* two devices, two letters, six layouts by eight sets of traces - system files only,
both volumes, a copy of one on the other, two spellings - the traces of another machine, and
sets of databases that agree, contradict or repeat each other, or name a volume of a date past
`MaxCreated` 8. `MinMatch` is the code's 50 %;
`MaxOther` is 20 % instead of 2 %, because one path of five is the smallest share such sets have;
`MinShared` 2 and `MinSpecific` 1. Damage is one place at a time. `LettersMatchEvidence` compares with
the letters the folder's machine really had. It holds of these folders and is not proved: with
a full copy whose original left no trace, no evidence in the folder could tell, and the code does not
claim to. `ExitCodeIsTrue` and `RecordsAccounted` leave out what the code does not keep of its documentation,
and their comments say what (section 6): unlisted directories and a 120 that hides skipped entries, a
header that declares no files.

The type invariants run are those of `Store`, `Parser` and `Cli` (which contains those of the
folder's modules); that of `StoreOpen` is part of what `StoreOpenProofs` proves.

`OfferedValuesMatch` and `ApplyShowsTicked` speak of popups opened after the last change of the
rows: a popup that was open while the rows changed under it shows old values (section 6).
`RescanKeepsAnnotations` excludes the load that `load_lost_tags` shows to lose them.
`cli_commands` runs on a file system that tells names apart; section 6 says what Windows changes.

Fairness. `Store`'s `FairSpec` assumes weak fairness of a running process's own next step. No
statement blocks for ever: `sqlite3.connect` has a busy timeout of 5 s after which the waiting
statement raises (`StatementFails`, `CommitFails`, `CloseFails`), so some step of the process is
always enabled and will be taken. Nothing is assumed of starts, interrupts and kills. `Parser` and
`Cli` assume that the one thread that runs them goes on: `WF_vars(ParseFile)` leaves out the
other process's `Grow`, and `Cli`'s `WF_vars(Next)` is one sequential program; the file types whose
`open` could block are refused before it (`StatRefuses`), and that is what makes
`EveryInputProducesRow` more than an assumption.

Every violation is a finding of `PROJECT.json` with the line it contradicts. Those of the store, the
opening race, the hidden tail and the false clean scan were reproduced against the real modules; the
GUI's were derived from the code only (Qt was not available to run it).

## 4. Proofs

All theorems are checked by `tlapm` to the last leaf, for every value of the constants that
satisfies the modules' assumptions.

**Store.** `TypeCorrect` needs `Counting` (while a record is being added there is one, and no more
children than it has were inserted). `NoPartialRecord` is not inductive: the file is whole because
what is committed is whole, so the invariant `SafeInv` says of every process, by where it is, what its
transaction holds: a good image in `ready`, `due` and `leaving`; one that misses only children of
the rows being replaced in `emptied`; one with a single half-filled row in `filling`; and that
`save` is good in all of these, which is why `ROLLBACK TO` suffices. `COMMIT` is reachable only from
the first group (`CommitPublishesGood`). That is where `~UndoInterruptible` is needed, and
`store_undo_interrupt` shows that without it the theorem is false. `IdempotentIngest` needs no
such condition: a row goes in only where its transaction saw its source absent or made it so, and what it
saw cannot change under its lock (`UniqueInv`), wherever a Ctrl-C lands. `NoRowLost` adds `KeptInv`: what a transaction will publish, compared with the file,
loses no row but those its pending INSERT replaces - it relies on the file not changing while another
process holds a lock (`FileMovesAlone`), which is what the SHARED lock of the first SELECT is for.

`StoreIsLedger` is the refinement: every row of the file is whole, so each is a ledger entry
(`NoPartialRecord`); a row leaves only for its successor, so no source loses its entry
(`NothingLostStep`); and what a connection has made is finite (`FiniteInv`), so the records without a
source can be counted. `ReturnMeansStored` needs to know where a record of a running job is:
in what its connection sees, which with no transaction open is the file. Its `DoneInv` excuses the
rows of the one record that is between DELETE and its last child; other processes may replace what a
periodic commit has published, and never remove it.

**StoreOpen.** `OpenInv` says what a process knows of the file from where it is in `__init__`
(`Knows`): tables visited are created, tables compared are complete, and past the loop the whole
schema is. Columns are only ever added (`ColumnsStay`), so nothing another process does falsifies
that (`KnowledgeStays`). `StampIsHonest`, `OpenStoreUsable` and `ReopenIsNoOp` follow.
`AloneNeverRaces` is the other side of `open_race`: as long as no two processes are in `__init__` at
once, what a process read is still what the file holds (`UpToDate`), and none races - whatever the
builds, the failures and the deaths between.

**OutputFile.** `IInv`: no two exports that run have one number and no file has a number still to
come (`SerialsInv`), a plan names a target once (`PlansInv`), and `TempsInv` says by place what is
certain of the temporaries: all of them whole in `syncing`, whole and synced in `publishing`. What is
renamed is therefore whole and synced, and what a power loss puts back was (`FilesInv`):
`NoHalfFile` for any number of exporters, kills and losses. `NoEarlyFile` is the order of the renames.
`SuccessIsPublished` adds `MovedInv`: what has been renamed is under its name, or another exporter
has renamed onto that name since - which the code does not exclude, and the property excepts.

**GuiFilters.** `IInv` is `TypeOK`, `NoHiddenFilter` and `TickedListed` (only listed values are ticked);
the first two lean on each other, since a header mark is recomputed from the proxy by every handler that
changes it. `ApplyIsExact` and `OffersMatch` compare the grid after Apply with the other restrictions, which the popup left alone.

**GuiLoad.** `RescansKeep` is false as an isolated step: a load overwrites annotations with
what it remembered earlier. `RememberedIsCarried` says why that is harmless: what is remembered
is never empty and a row of that file carries an annotation as well, so that the last
`_remember` before a row goes copies the row's. `TagsOutliveLoads` is the other side of
`load_lost_tags`: in a session in which no folder without `.pf` files is loaded, a file once tagged
stays known as tagged, because every other step keeps what is known (`KnownStays`).

**Bounds** (`ParserProofs`). `GapsComplete`: for reads of any order, overlap and number, `gaps()` is exactly what no
read touched. `BoundsInv` says that the spans - those merged so far followed by those still to merge
- are in order and together cover what was touched; `Joined` keeps both, and for a sorted list the
cursor of `gaps()` is the end of all spans before it.

**Parser.** The parser reads through `Bounds` and never touches the spans otherwise, so every step is
a `Bounds` step or leaves it alone, and `ParserGaps` carries over. `ParserInv` adds what the places
have in common: a parse that is still in the body has no fatal problem and no failed stage
(`FatalIsFailed`), and the record is stamped with the stat taken before the read. The lemmas
`Continues` and `Fails` prove it for the two shapes a step can have, and every action cites one.
`VerdictAgrees`, `TraceChainsNeverFatal`, `MemoryCeiling` and `StampPredatesRead` follow.

`DecoderStated`: before `load` returns no decoder is stated, and no later stage touches it.
`ResidueComplete`: gaps are disjoint, so those before the cursor are the ones `_residue` has looked at
(`Passed`), and each of these is retained or its bytes are in the count - as a set's cardinality, which
needs that the gaps are finite and their bytes disjoint (`BytesAdd`).

**AdsScan and Cli** (`CliProofs`). A place is a tree of any shape (`IsPlace`): there is one top,
everything else is in a directory, and every non-empty set of entries has one whose parent is not in it, which is how
"no directory is in itself" is said without recursion. From that, what is above an
entry is itself and what is above its parent, and nothing is above what it is under (`NoCircle`).
`ScanInv` has four parts. `AtHand`: nothing is at hand between two entries, and the streams still to
look at are the last ones. `Once`: an entry given is in exactly one of the targets, the
entry at hand, the examined and the skipped, nothing still to visit is above it, and of
the directories to visit none is under another; without that last part a second visit could not be
excluded. `Coverage`: an entry the walk should come to has been given or is under a directory still to visit.
`FindingsInv`: findings are those of the entries examined, the local ones those of the streams looked
at so far, and no two are the same. `EveryEntryAccounted`, `FoundExactly` and `ReadStaysBounded` follow.
`CleanWhenListed` is the other side of `ads_false_clean`: when every directory listed and no link is among
what should be looked at, what is above an entry was walked into up to the top (`AllReached`), and a
scan that returns has looked everywhere.

`OutputsInv` says by place which outputs are decided and what their files hold; that two outputs are in
one file would break it, and `Collide` - evaluated once, in `main` - excludes that, because the
assumption `IsRequest` makes of a file two paths name that it exists by then.
`DiscoverInv` says that what was yielded are files of the arguments come to, no two with one real path,
and that every file behind has its real path in `seen`. `ExitCodeTells` joins what each code says of
outputs and records (`CodeTells`, part of `OutputsInv`) with the account of the search it ended:
0 of `ads` with `EntriesAccounted`, 0 of `parse` with `EachFileOnce`, and 2 with `UnlookedInv`, that
nothing is looked at before the search begins nor by one that lacks its backend.

**FolderScan** (`ArtifactsProofs`). `WalkInv`: a file `os.walk` lists is *coming* (in a later directory, pending
or at hand) and has no entry, or was dealt with: it has its one entry, which is honest, or is left to `parse`. That an entry
is of one file only is `IsFolder`, the assumption that no two files have one path. While a parser runs, the file at hand
was read whole and is of the parser's kind, which is why what the parser found may be told.
`RingSignals` is the lemma on the `PfPre` ring: written in order, it goes backwards just where the last
round ends, which is inside the ring unless that round is complete. `EveryFileAccounted` follows. The
folder is one `os.walk` sees unchanged; `MaxArtifact` is any natural number.

**Unpack** (`ArtifactsProofs`). `UnpackedAsDeclared` is the part of `UnpackedExactly` that needs no encoder, and
holds for corrupt files as well. `UnpackInv` says what each call of the decoder was asked for: the
whole in `mam`, a block or what is missing in `chunk`, at most what is missing in `block`; `DecoderStep`
that it returns as much. So a chunk that is not the last one leaves something missing, and the last one
nothing. `IsWrapped` is the assumption that the declared size, a `u32`, is not negative.

**Xpress** (lemmas in `CliProofs`, `CommandTyped` in `ArtifactsProofs`). Of any input, sound or not. The
register: `Filled` says that the bits still to be filled are zero - it is a multiple of a power of two - so
a word that comes in fits below what is left, what the code does with `|=` the model does with `+`, and
nothing leaves two words (`TakeKeeps`). The table: the entries of a code's symbols, in the code's order,
follow each other without a gap (`EntriesAdd`), so in a complete one each index is some symbol's
(`SymbolIs`), and the symbol of a match leaves its distance fewer bits than a word has (`OffsetBitsFit`).
`2 ^ n` is reached through the library's count of the subsets of a set, the one fact it has on powers
(`Power`, `PowerOfSum`). The wrappers hand the decoder parts of the file and never read behind it
(`RawInv`); with where each other part of the command can be, that is `TypeOK` of `Cli`. The lengths of
a Huffman table are what a nibble can state (`XpressAssumption`).

**ReadyBoot** (`ArtifactsProofs`). `TraceIsAccounted` compares the parser with definitions of the
payload that do not follow it. `BootInv` says, by place, how far each of its loops is. Names: those read are
the first of the table (`NamesRead`). Paths: the records passed in a chain are the end of every way
from a root to the record it began at (`Climbed`), so a chain given up - for a loop, for a place
where no record starts, or at `MaxDepth` - has no such way within `MaxDepth` (`NoLoop`: a way has no record
twice), and `broken` is the number of these records (`PathsInv`). Reads: what is counted are the
events of the blocks passed and of the one at hand (`IoPlace`, `EventsSeen`), and a further one adds one to the
count of its name and stretches the clock (`Summed`).

**SuperFetch** (`ArtifactsProofs`). `DatabaseIsAccounted`: `DbInv` says what has been verified of
each file entry given, and that while a walk agrees with the header (`Straight`) the record last read is the
one that owns the entry at the cursor (`ReadsUnder`). It is why files cannot be given to another
volume unless the walk was abandoned, and then the scan replaces all of it. The scan takes, of the
entries that verify behind a record, as many as it declares, in order, so those it takes of another
record are there because its own were fewer (`OwnFiles`). A string of the sweep is within a path, or is
announced, wherever files were parsed; where the header declares none the theorem says nothing.

**Volumes** (`ArtifactsProofs`). `LettersAreEarned`: `LettersDistinct`, `MatchesTold`, and that what a
letter and its device share is not only what every Windows has. `OneDeviceMatches` is the argument: a
device has at least `MinMatch` of a letter's paths and any other at most `MaxOther`, which is less
(`VolumeAssumption`); and `MinShared` excludes the letter without paths. It needs that these can be counted
(`PathsCount`), so `RowsInv` carries that a `Layout.ini` names finitely many. Nothing is found after the
scan has returned, so what was correlated stays what the files say.

What the code intersects is what lines of both artifacts name (`SharedIsBothName`), which needs that
every path of a trace or a layout is a sequence with a first component (`PathsShaped`, from
`BootInv`), so the theorem can speak of the lines and not of the sets computed from them. That the
letter is the one the machine had no artifact can prove: it is the assumption of
`artifacts.py:731-749`, about evidence and not about the program, and stays with TLC
(`LettersMatchEvidence`).

`IdentitiesStated`: rows are one per statement (`StatedOnce`); a letter and a serial come together only from the
one statement that names the device, or from the only volume the folder mentions (`BoundAlone`,
`LetterAndSerial`). A mention carries its place, so two mentions that say the same are still two. The assumption
that capitals have no capitals (`UpperAssumption`) makes `Normalised` a fixed point, without
which two spellings could be two devices.

Where a proof needs induction over a natural number - the length of a chain, the blocks of a
section - it takes the least counterexample, which is a set and not an operator and so can be named in these
provers (`LeastNat`, from `WFMin`).

Each violated claim but one has its exact condition proved: `NoPartialRecord` holds when the except block is
not interrupted (`AtomicRecords`), and `NoOpenRaces`, `TagsSurvive` and `CleanMeansLooked` as stated
above. `EveryByteReported` has no such condition that is not the claim itself.

Only model-checked:

- liveness (`EveryRunEnds`, `EveryInputProducesRow`, `CommandEnds`): beyond the prover;
- `LettersMatchEvidence`, that a letter is the device's own: a fact about the evidence;
- the rest of `UnpackedExactly`: that a decoder inverts its encoder, for every input. The encoder is the
  run's (`MCArtifacts`), not the program's, and folds over sequences of bits and bytes.

## 5. What is not modelled, and the plan

Not modelled. *By nature:* binary layouts (which bytes hold which field), CSV escaping, widget
layout, detail panes, Windows path prefixes, packaging, tests; `info` and `capabilities`, which print
and keep no state. *Of components that are modelled:* `add_artifact(s)` of the database repeats the
control of `add` and `add_all` over the `artifact` tables in runs of its own, so that what `Store`
shows carries over by reading `artifact` for `prefetch`, but it has no model. Of the folder's
artifacts: `decompress_mam` (nothing calls it), timestamps, the facts printed and `io_by_path`'s pairing with paths.

Done: (1) `Store` with `Ledger` - the evidence itself - and `StoreOpen`; (2) `OutputFile`; (3)
`GuiFilters` and `GuiLoad`; (4) `Bounds` and `Parser`; (5) `AdsScan` and `Cli`; (6) proofs of the
store and its refinement, the opening, the output files, the grid, the loading, the reader, the parser,
the stream scan, the decoder's bounds, the unpacking, the traces, the databases, the folder scan, the
letters and identities, and the command line; (7) the folder's artifacts, from the bits of `Xpress` to
the letters of `Volumes`.

Left, in order:

1. `add_artifacts` as further jobs of `Store`, with tables as a part of the key.
2. `Pairing`: `_resolve_paths` of `scca.py` in place of the input `candidates` of `Parser`.
3. `join_list`/`split_list` of the export: one inverts the other.

## 6. Known departures

What the code does otherwise than its comments or a reader might expect. Those with a run are
findings; the others were seen while modelling, are in the model where it reaches them, and are
listed so that nobody takes a property for more than it says.

*Database.* A full disk makes SQLite roll back the whole transaction, so `close()` keeps none of the
batch although `store.py:493-495` says a partial run is kept (also 524-525). Between the view's DROP
and CREATE the `timeline` does not exist for other readers (252-253). An older build lowers the stamp
a newer one wrote (281-283, 454).

*Output files.* The two renames of a pair are two: when the second fails, or two exporters
interleave, the files are of two exports (`output.py:61`, `86-88`; `export.py:156` promises one).

*Grid.* Ticking every offered value stores no filter, so a value that appears later is shown
(`filterpopup.py:123-125`). A saved view is applied by clearing the proxy and then setting the
widgets, which signal only a change: when the search box or the tagged-only box already shows what
the view asks for, that restriction is not restored (`__main__.py:266-274`), although 278 warns of a
view "misrepresented as fully restored". A load clears the proxy's filters and leaves the search box,
the check box and the header marks showing them (477). A popup open during a load offers values of rows that
are gone, and 8-9 of `filterpopup.py` says that nothing offered can produce an empty result.

*Loading.* A note cannot be emptied (`model.py:128`, `255`). A mistyped path is reported as scanned
and empty (`__main__.py:392-395`, `697-698`). The artifacts of an outer load overwrite those of a load
nested in it.

*Parser.* Metrics are read into a local: when a later stage fails before `FILENAMES` pairs them, or
`VOLUMES` fails after the 5a path was read, they are on no record although read (`errors.py:18`;
`scca.py:116-117`). `container.py:102-104` and `204-205` say the caller compares what ntdll wrote with
the declared size; none does. A negative offset of the trace chains ends the parse despite
`scca.py:253-254`. A metric's name offset is checked against the file and not the string block
(`scca.py:285-287`). `parse_file` raises `ValueError` or `OverflowError`, and gives no row, for a file whose
access, modification or birth time is outside the years of a `datetime` (`__init__.py:120-124`; 85-87: "every
input produces a row"). One such file ends `pfcli parse` with a traceback and nothing written, and a
load of the window before its rows come. `parse_artifact` raises for the same reason (artifacts.py:650,
674: only `OSError` is caught) and ends `artifacts`; `scan_tree` catches it and skips the entry. Seen
with the real modules.

*Searching.* `os.walk` without `onerror` passes over what it cannot list in `scan_tree`
(`ads.py:420`, the finding), in `_walk` (`pfcli/__main__.py:103`) and in `scan_folder`; with
`--no-recurse` the same directory is a traceback. A link to a directory is never examined: it is
no file and is not followed (`ads.py:421` says `os.walk` yields every directory). A stream's times
are attributed to the carrier also when `os.stat` of it failed (`ads.py:64-67`: "'unavailable' is not
'carrier'").

*Decompression.* A match is bounded by the block and not by `out_size`, so what is decoded past it is
cut off; the end-of-stream check of `xpress` cannot be reached. `agdb.py:68-69` says that the right block
size is the one that consumes the input exactly; the code checks that the output is complete.
`_lznt1` does not check the signature of a chunk header and has no ceiling on what is declared; a
chunk that is cut short is seen only by the total.

*Databases.* The header is believed. A declared count that is too high makes the scan give the first
volume the second one's files and report no problem; counts of 0 and 0 read as a database that holds
nothing, "structural", without a problem, whatever the sweep would show (`agdb.py:46`: "never reported
as empty", 527-530: the paths are kept); `RecordsAccounted` excepts that case; an undocumented
entry size smaller than a layout's offsets makes the probe raise `struct.error` out of `parse` and
ends the command, although 561 says "A malformed artifact is a finding, never a crash". The walk
does not check that it ended inside the payload. All three were seen with the real module.

*Folders and traces.* A folder whose root cannot be listed is "no non-.pf artifacts found" with exit
code 0 (`artifacts.py:693`, 703). A `.pf` that could not be read, or grew, is in this report and in
that of `parse` (605-607 says it is left to `parse`). A ring filled a whole number of times is reported
as having signals that disagree (145-148). A path with two name records keeps the reads of the last
one in the database and the CSV.

*Volumes.* A database that names a volume whose hex date lies past year 9999 (`artifacts.py:870`) raises
`OverflowError` out of `correlate_volumes` and ends `artifacts` with nothing written, and a load of the
window with its artifacts kept and not shown; seen with the real module. Two letters that claim one device are both dropped before the code asks whether exactly
one letter is left, so a third may be bound to the folder's only volume (`artifacts.py:919`, 964).
One volume named by two databases counts twice and is not bound. That the letter is right assumes
that no volume holds another's own software.

*Command line.* Streams that could not be read are counted as "recovered" (`pfcli/__main__.py:572`)
and exit with 0. A directory that cannot be listed counts for nothing, so that `ads` and `artifacts` exit
with 0 of a folder they saw nothing of (62-66 of `DOCUMENTATION.md`), and 120 hides the 1 of skipped
entries (58); `ExitCodeIsTrue` says what is left of the page. Two outputs whose names
differ only in case and do not exist yet are one file on Windows and pass both collision checks
(742-758). A search that finds nothing leaves an earlier run's outputs in place.
