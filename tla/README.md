# libgetar: specifications and proofs

libgetar stores simulation trajectories as records in an archive: a tar, zip or sqlite file, or a directory. This
directory holds TLA+ models of its code, TLC configurations that check them on small instances, and proofs checked by
TLAPS. Line numbers refer to `src/`, the repository; `PROJECT.json` maps every definition to the lines it models.

    tlc -workers 2 -config TarArchive_refines.cfg MCTarArchive    # one run
    tlapm TarArchiveProofs.tla                                    # one module of proofs

## 1. The system

| Part | State | Operations | Interacts with |
|---|---|---|---|
| `Record` (src/Record.cpp) | group, name, index, behavior, format, resolution | parse a path, build a path, set or clear the index | used by the front end and the callers |
| `GTAR` and `BulkWriter` (src/GTAR.cpp, GTAR.hpp) | `m_archive`, the cache `m_records`; a BulkWriter holds a reference to its archive | construct (stat, then open), write, read, typed reads, queries, begin and end of bulk writes, close | one backend object; calls are synchronous |
| `TarArchive` | the `fstream`, its position as the code believes it, the end of the records, the index | scan, write, read, flush, close | the file system, through a stdio buffer |
| `ZipArchive` | miniz's reader or writer: the directory and the place where the next record goes; the index by name | open in three ways, write, read, close | the file system, through miniz and a stdio buffer; other processes with the file |
| `SqliteArchive` | one connection, nine prepared statements, the list of names, a compression buffer | create tables, list, write in chunks, bulk transaction, read, close | other processes, through sqlite's locks |
| `DirArchive` | the names found and written, the directories made | open and search, write, read, close | the file system, call by call; other processes in the directory |
| `SharedArray` (src/SharedArray.hpp) | a shim on the heap: target, length, count | copy, assign, swap, release, disown | the result of every read; numpy arrays keep one alive |
| Python binding (gtar/_gtar.pyx) | generators over records, the lifetime of wrapped objects | recordsNamed, framesWithRecordsNamed, staticRecordNamed, getRecord | the front end |
| Tools (gtar/cat.py, copy.py, fix.py, read.py) | the name of a temporary file, the file that each path is taken from | copy records from archives to an archive, rebuild one that is damaged | archives of the front end, renames, the zip program |

The code starts no threads and waits for no events. What is hard in it:

* **One stream for everything.** The tar backend seeks only when two of its own counters differ, so after every mix of
  reads, buffered writes and refused writes the counters must agree with a stream that is not asked.
* **Death of the process.** Each backend keeps a part of its file in memory (stdio buffer, transaction, central
  directory). What a later process finds must be explained by what was written before.
* **Several processes.** Sqlite archives are shared. Each call of `sqlite3_step` can return `SQLITE_BUSY`, and the
  code answers differently at each place: it repeats, ignores, throws, or takes it for the end of the rows. A
  directory is shared with no locks at all, and a zip file is appended to under the eyes of its readers.
* **Caches.** The index of the backends and `m_records` of the front end are filled once and kept up by hand.
* **Lifetimes.** An archive can be closed or destroyed under its BulkWriter, its generators, and its typed reads.
* **Files in several steps.** The tools choose a name, fill it, compare it and rename it, with other processes in
  between and with a `finally` clause that must work after an exception at any of these steps.
* **Formats with limits.** A tar header splits a path at 99 characters and holds eleven octal digits of a size.
  Records are found by the names of directories, which callers choose.

What makes each part correct:

* tar: a read returns the last write, in this session and in a later one; a flush makes the writes before it
  permanent; a death keeps a prefix of them; records already stored never change;
* zip: an archive is a document: what close saved is found whole or not at all, and those who read it while another
  process appends read what they opened;
* sqlite: transactions are atomic and isolated, a call ends, nothing is held between calls;
* directory: paths do not interfere, a read that no write overlaps is right, a search misses nothing that was there;
* the front end: the cache names exactly the paths of the archive; queries find every frame and no other; opening for
  append loses nothing;
* records: a path can be rebuilt from its record, and another index changes the index only;
* shared arrays: the count is the number of handles, nothing is used after it is freed, and the last handle frees it;
* tools: a file the user has is replaced by a whole output or not at all, but for a close that failed unnoticed, and no
  temporary file is left.

`PROJECT.json` lists the hazards, each at its line and with the properties aimed at it.

## 2. Modules

| Module | Models | Built on |
|---|---|---|
| `CellFile` | a file as cells that can be overwritten or extended anywhere | |
| `Archive` | what a backend promises the front end (Archive.hpp): a map that survives the process, the pending writes, a damaged record | |
| `TarArchive` | the tar backend, one action per operation, the scan one header per step | `CellFile` |
| `TarArchiveRecords` | what an independent reading of a tar file finds, properties that compare with it, and what theorems about it take for granted | `TarArchive` |
| `TarArchiveRefinement` | the mapping from the tar backend to `Archive` | `TarArchiveRecords`, `Archive` |
| `TarArchiveProofs` | theorems about `TarArchive`, and that it implements `Archive` | `TarArchiveRefinement` |
| `Document` | what the zip backend promises several processes: a document that is saved whole | |
| `ZipArchive` | the zip backend over miniz, several processes with one file | `CellFile` |
| `ZipArchiveRefinement` | the mapping from the zip backend to `Document` | `ZipArchive`, `Document` |
| `ZipArchiveProofs` | theorems about `ZipArchive`, and that it implements `Document` | `ZipArchiveRefinement`, `RecordLemmas` |
| `SharedStore` | what connections to one database promise each other: whole transactions | |
| `SqliteArchive` | the sqlite backend, one action per step that another connection can notice | |
| `SqliteArchiveRefinement` | the mapping from the sqlite backend to `SharedStore` | `SqliteArchive`, `SharedStore` |
| `SqliteArchiveProofs` | theorems about `SqliteArchive` and its refinement | `SqliteArchiveRefinement` |
| `Registers` | what the directory backend promises: each path is a safe register | |
| `DirArchive` | the directory backend, one action per step that another process can notice | `CellFile` |
| `DirArchiveRefinement` | the mapping from the directory backend to `Registers`, and what a search finds | `DirArchive`, `Registers` |
| `DirArchiveProofs` | theorems about `DirArchive` and its refinement | `DirArchiveRefinement`, `RecordLemmas` |
| `SharedArray` | shims, counts, handles | |
| `SharedArrayProofs` | theorems about `SharedArray` | `SharedArray` |
| `Record` | from a path to a record and back, as operators | |
| `RecordLemmas` | what holds of those operators for paths of any length, and facts about positions and sequences that several proofs rest on | `Record` |
| `RecordParser` | the parser's loop, so that TLC walks through every path | `Record` |
| `Gtar` | the front end and the Python queries | `Record`, and `Archive` as the backend |
| `GtarProofs` | theorems about `RecordParser` and `Gtar` | `Gtar`, `RecordParser`, `RecordLemmas` |
| `Tools` | cat and fix, several processes on the same files, one action per step that another can notice | |
| `ToolsHistory` | what the tools promise about their outputs, with history variables | `Tools` |
| `ToolsProofs` | theorems about `Tools` and `ToolsHistory` | `ToolsHistory`, `RecordLemmas` |
| `MC...` | constants for TLC | |

`Archive` is in the middle: the tar backend is proved to implement it, and the front end is checked and proved over it,
so the front end's results hold over the tar backend without composing the two state spaces. They hold as far as the
refinement does: paths of at most 99 characters, sizes that fit the header, and files and contents as `ArchiveImplemented`
takes them (section 4).

The other three backends keep other promises, and each is compared with its own. A zip archive that is not closed
is lost as a whole, where `Archive` would keep what was flushed. An sqlite archive is shared by transactions. A directory
has no order between its paths. No promise implies another, and the front end promises its callers no more than
the backend it was given.

### How state and actions correspond to the code

**TarArchive.** The file is a sequence of cells; three cells stand for a block of 512 bytes, and a header is three
cells: name and size, magic, prefix. Three is the smallest block that has contents that are empty, shorter than a
block, and exactly one block, and a file that can end inside a header. `m_filePosition`, `m_maxPosition`,
`m_fileNames`, `m_fileOffsets`, `m_fileSizes` and the constructor's `offset` are the members and locals of that name.
The `fstream` is `pos` (its position), `buf` (cells written that are not in the file) and `fail` (failbit or badbit).
A path is a record of prefix, 99 characters of name, and the last character, the one the split loses. `WritePtr` is
the whole of writePtr: seek, header, contents, padding, flush, index. `Crash` puts any prefix of the buffer in the
file, which is a death inside any write or flush; `CrashInClose` is a death between the cells of the trailer. Sizes and
positions are `size_t`: the constructor reads the size's text with `>> oct`, which takes a minus sign and wraps around
(TarArchive.cpp:114-117), so that a header which libgetar did not write may lead the scan back. 2^64 - k is written -k,
which is exact, since everything the scan computes is a sum or a rounding to 512; `Minus` is the set of such sizes.

**ZipArchive.** A local header, a data descriptor, a directory entry and each of the three records that end the
directory are one cell; contents are one cell a byte. `directory` and `position` are what miniz keeps in `m_archive`,
`stream` is the buffer of its FILE: `Stream` writes cells next to those in the buffer, or flushes them and seeks,
after which any number of the oldest cells may have reached the file. `Ends`, `EndOf`, `IsZip64` and `Opens` are how
miniz finds a directory: backwards from the end of the file, within `Reach`. `OpenAppend` reads the directory and
begins to write over it, `WithDirectory` is the finalization that close calls without looking at its result.
`WriteFails`, `CloseFails` and `Die` leave any prefix behind. `MayWrite` is an assumption about callers, not a guard
of the code: nothing locks the file.

**DirArchive.** Nothing is kept open between calls, so a call is several actions, and other processes come between
them. `search` is the stack of calls of searchDirectory, each with the entries it has left: what a directory held
when it was opened, which is one of the things POSIX allows. `StartWrite` makes the directories that the object
has not made before and empties the file; `WriteSome` is a part of the contents; `FinishWrite` does not know whether
all were written. `StartRead` takes the size and `FinishRead` the bytes: if the file is shorter by then, the rest of
the array was never set (`Torn`). Reading a directory as a file asks for the largest size there is, and throws;
this depends on the file system, and is what Linux's answer to a seek in a directory gives.

**SqliteArchive.** `pc` is where each connection is. `filename`, `contents` and `commit` are the three loops of
writePtr, `ending` the loop of endBulkWrites, `listing` the last statement of the constructor, `reading` the rows of a
SELECT, `threw` an exception the caller has caught. The locks of sqlite's rollback journal are external definitions:
`CanShare`, `CanReserve`, `CanCommit`, and the pending lock that a COMMIT which met readers leaves behind. A statement
that met `SQLITE_BUSY` is not over: `busyName` and `busyChunk` say so, and `Bind` fails on it, which the code does
not notice. A content is a sequence of chunks and a flag that says whether it is compressed.

**Gtar.** `object` is the GTAR object, or what became of the process. `Stat` and `Construct` are the two halves of the
constructor. The writes and reads are those of `Archive`, with the record inserted afterwards. Paths are those of
`Record`, so what the cache holds went through the parser. `iter` is the generator of recordsNamed.

**SharedArray.** A handle is a SharedArray or SharedPtr object; a shim is a heap address. Using a shim that is not
allocated sets `misused`, after which nothing is defined and nothing happens. A shim may have no target: readIndividual
of a record that is not there wraps a null pointer (`GTAR.hpp:254`, and `test/test_GTAR.cpp:80` does it). `nullCopied`
is history: a handle of such a shim has been copied.

**Record.** A path is a sequence of directories, a directory a sequence of the pieces between its dots. Characters
other than the slash and the dot do not matter to the parser beyond equality with its keywords.

**Tools.** A name is the name a user gives and the number of underscores the tool has added. `cat` and `fix` are the
locals of each process's call of the two mains, with `pc` the statement it is at; fix calls copy, which is cat
with one input, and both are then there. An archive is whole (`zip64`, or the old `zip32`), or `broken` until it is
closed. `CloseOutFails` is a close whose directory was not written, which `ZipArchive::close` does not look at: cat goes
on as if the archive were whole. `CreateFails`, `CopyFails`, `RenameFails` and `FixRenameFails` are the exceptions that
opening, copying and renaming can raise besides those of a missing file. `unclosed` is history: the tools that run and
had a close fail. `handle` is the name that the file cat has open goes by: a rename moves it, a removal leaves the open file
without one, and another process that opens the name in Write mode empties the same file. The program zip, which
rebuilds a damaged archive, is an external definition that finds any of its records.

## 3. Runs

| Run | What it shows | Bounds, and why they are enough |
|---|---|---|
| `TarArchive_refines` | the backend implements `Archive`; types; the stream is where writePtr believes it is; unflushed cells come after all records; extents lie inside; the index is what the file holds; records in the file never change; the scan advances at each step, and ends | Two short paths and one that fits no header, contents empty, shorter than a block, and one block; no write begins past nine cells, so that a file has up to three records, one can be overwritten, and one read between two others. It starts from no file, an empty one, a foreign one, a V7 one without magic, and an archive with a foreign block for a trailer; no size has a minus sign (`Minus`) |
| `TarArchive_longpath` | departure 1 below | |
| `ZipArchive_refines` | the backend implements `Document`; types; the index leads to the last entry of a path | two processes; two paths and one that miniz refuses; contents empty and of one byte; four cells of records: two records that are not empty do not fit, but one and its overwriting by an empty one do, and a directory longer or shorter than the one that was there. It starts from no file, an empty one, a foreign one, an archive without records, one in the old format, and one whose two records have different directories |
| `DirArchive_refines` | the backend implements `Registers`; types; a search that ends has found every file that was there when it began | two processes; a file, a directory, and a file in it, where callers also write to the directory's name; contents of two bytes, so that a write has an inside, and of one; two names, so that a search is still under way when others write. It starts from nothing, a file in the place of the directory, and an archive with two records |
| `SqliteArchive_free` | types; between calls nothing is held, whatever callers do | two connections, one path, single chunks, compressed and not, and empty contents; immediate writes and reads while the BulkWriter is open, and going on after an exception |
| `SqliteArchive_live` | no mixture of two writes is ever stored, and loops on `SQLITE_BUSY` end | two writers of contents of two chunks each, the least that can be torn |
| `SqliteArchive_refines` | the backend implements `SharedStore`; reads are of the path asked for; a write that returned is stored | two connections, two paths, so that a transaction has two writes of different paths |
| `SqliteArchive_overwrite` | departure 2 | |
| `SharedArray_safety` | until a handle that wraps a null pointer is copied: no use after free, no leak, the count is the number of handles, only the last handle frees | four handles and three addresses: two pairs that share, and an address used again |
| `RecordParser_paths` | a record gives its path back; parsing is idempotent; a new index changes the index only | all paths of up to four directories (one more than any form the parser looks for) out of twelve that are keywords, empty, or of one to four pieces |
| `Gtar_safety` | the cache names exactly the paths of the archive; queries over several names find the frames; a generator yields what is stored when it yields; append keeps what is there | three paths: one name in two frames, another in one; two contents, one unflushed write |
| `Tools_safety` | a file the user has is only replaced by a whole output, and cat's output has every record of every input, both but for a close that failed unnoticed, after which it does not open; temporary files are left by deaths only | two processes, three names, three runs of tools: two at the same time and one that meets what they left; jobs whose output is an input, a file that is missing, and a file that was never closed |

Bounds in the models: `MaxCells` (TarArchive, ZipArchive: no write that would pass this position), `MaxChunks`
(SqliteArchive: the length of a content), `MaxNames` (DirArchive: the names one object lists), `MaxPending` (Gtar: the
writes a BulkWriter leaves in buffers), `MaxDirectories` (RecordParser), `MaxTemps` and `MaxRuns` (Tools: underscores,
tools started). Deadlock is checked except where the system stops: `RecordParser` at a path of full length, `Gtar`
after its process was terminated, `SharedArray` after freed memory was used, `Tools` after the last run.

Symmetry is in contents (`Gtar`: they are only compared), in processes (`ZipArchive`, `DirArchive`, `Tools`: none has
a role), or in connections and paths (`SqliteArchive_refines`), never in a run with a liveness property. Two runs have
a VIEW. No action of `ZipArchive` or `DirArchive` reads `reply`, and none of `DirArchive` tells Write from Append once
the archive is open, so states that differ in these alone have the same steps; properties of steps see the step's own
reply.

### Fairness

* `FairObservedSpec` of `TarArchive_refines`: weak fairness of `Scan`. The loop runs in the caller's thread and waits
  for nobody.
* `SqliteArchive!FairSpec`: weak fairness of each connection's `Step`, the actions that continue a call. A call that
  has begun goes on as the operating system schedules its process. No caller is obliged to make a call, or to survive.
  `WriteEnds` holds with it for immediate writes, because of the exception: a write that meets another's
  lock at its chunks throws, and it holds no lock itself then, or it would not have met the other.
* `SqliteArchive!PatientSpec`: in addition strong fairness of every step that gets out of a loop on `SQLITE_BUSY`, and
  callers that end their BulkWriters. It is more than the code can rely on. It is used only by `SqliteArchive_stuck`,
  to show that even so two connections can wait for each other for ever.

The zip and directory backends and the tools have no loop that waits for another process, and no fairness.

### Where code and documents disagree

Two runs are expected to find a violation:

1. `TarArchive_longpath` (TarArchive.cpp:195). A path longer than 99 characters is stored without its last character.
2. `SqliteArchive_overwrite` (SqliteArchive.cpp:128). Replacing a row of `file_list` leaves the rows of
   `file_contents`. Empty contents over old ones read back the old ones.

The other configurations in this directory demonstrate what follows. They are not among the runs, which are kept few.
A `..._departures.cfg`, and `SqliteArchive_misuse.cfg`, name several properties, one of them active and the others
commented out; TLC finds each violated when it is checked alone. The others check one property.

| Configuration | Property | What it shows |
|---|---|---|
| `TarArchive_departures` | `ScanAdvances` | a size of -1000 in a header leads the scan to the same header again, for ever; with other minus signs it goes back, or fails in a seek (TarArchive.cpp:114-125) |
| | `IntactReadsBack` | after the incomplete record of a dead process was read, the stream stays failed and whole records do not read back |
| | `ReopenReadsBack` | line 222 keeps eleven octal digits: contents of 8 GiB or more have a header with an eighth of their size |
| `SharedArray_departures` | `FreedByLastOwnerAlways` | of two handles that wrap a null pointer the first to go frees the shim of both; line 98 says the last owner does |
| `ZipArchive_garbage` | `ImplementsDocument` | a large write that failed leaves its bytes behind the End that close writes later, which is then out of the reader's reach: close reported nothing, and the archive does not open |
| `ZipArchive_writers` | `AppendersKeep` | two processes append at once: the second to close writes over the first one's records |
| `DirArchive_departures` | `NamesRead` | names found by the search begin with the archive's own directory (line 184), and reading one puts that before it again |
| | `WriteEmpties` | Write mode leaves the old records, where `_gtar.pyx:398` says it overwrites |
| | `DamagedWhileWritten` | a process that dies while it overwrites a record leaves neither the old contents nor the new (`doc/source/backends.rst:60`: "Extremely robust to process death") |
| | `ImplementsRegisters` | two writers of one path leave a mixture of their contents |
| `SqliteArchive_stuck` | `WriteEnds` | a BulkWriter that has read, and an immediate write of another connection, wait for each other (line 317) |
| `SqliteArchive_misuse` | `NeverTorn` | an immediate write commits the BulkWriter's transaction, and a death then leaves half of a later record |
| | `WriteStored` | the write after one that threw stores the one that threw (the constants for it are in the file) |
| `SqliteArchive_departures` | `ListsAll` | an archive opened while another process waits to commit has no files |
| | `ReadsAsked` | the read after one whose decompression failed is of the old path |
| `Gtar_departures` | `AllFramesFound` | of two groups with a record of the same name only one is searched (_gtar.pyx:704) |
| | `ClosedThrows` | typed reads of a closed archive use a null pointer |
| | `Cataloged` | `/a` is listed as `a` |
| | `StaticRecordsExist` | staticRecordNamed of a name that is only in frames reads a path that is not there |
| | `WritersEndWell` | ending a BulkWriter after close throws out of a destructor |
| | `AppendKeeps` | the file appears between stat and open, and append erases it |
| `Tools_departures` | `FixMakesOutput` | fix of a readable zip64 input with another output returns, and there is no output (`fix.py:34`) |
| | `OutputWholeAlways` | a close that failed raises nothing (ZipArchive.cpp:103), and cat renames an archive that does not open over the user's file (`cat.py:38`, :71-72) |
| | `RaisedMakesNothing` | when there was no output, the temporary name is the output's, and an exception leaves a readable part of it |
| | `CatMakesOutput` | two tools with one output choose the same temporary name, and the one that returned has not made its own |

The passing runs exclude exactly the inputs that lead to these, by the constants `TooLong`, `SizeLimit`, `Minus`,
`MixesImmediate`, `ReadsInBulk`, `GoesOnAfterThrow`, `OthersRace`, `Reach`, `OneWriter`, `Apart`, or by the contents and
paths of the instance. `Archive` allows for the second of the table: a session that has read a damaged record is
`broken`. `Registers` allows for the third of the directory: a register that was being written is `Damaged`. Two are not
excluded, and the properties of the passing runs say what holds beside them: a handle of a null pointer that is copied
(`FreedByLastOwner`), and an archive of the tools whose close failed unnoticed (`OutputWhole`, `CatMakesOutput`: it does
not open, where one that opens and has less would be the worse).

## 4. Proofs

TLAPS checks the theorems of seven modules, which rest on the lemmas of an eighth, `RecordLemmas`. The theorems hold for
every value of the constants that satisfies the named assumptions.

**TarArchiveProofs** (from `TarAssumption`; any cells, paths, contents, size limit, initial files, length of history).
`PositionCoherent`, `BufferAtEnd` and `ExtentsInside` are not inductive alone. `IInv` adds `SessionShape`: while the
constructor scans, `offset` is the end of the records found so far and nothing is buffered; an archive that is closed
has nothing of a session left. The argument is the one the code relies on. Every operation that moves the stream
also sets `m_filePosition` to something else than `m_maxPosition`, or leaves the stream at the end of the records
(`WritesAtEnd`). So `writePtr` appends at `m_maxPosition`, the buffer always ends there, and everything before the
buffer is only ever read. `RecordsAreKept` follows with one lemma about the file: writing at position o keeps the
cells before o (`OverlayProperties`). There is a lemma per action, and `NextStep` puts them together.

The rest of the module is about what a later process finds. `Records`, the reading of a file that the properties compare
with, is recursive. `RecordsListsAll` turns it into a statement without recursion: it is the one sequence whose records
begin each where the one before it ends, with a header, and behind whose last there is none (`ListsAll`). That such a
listing exists is shown for the greatest position at which it would fail, as a least element of a set of naturals;
that there is no other (`ListingIsRecords`), for the first record in which two would differ. From then on every change of the file is a
statement about listings: a record at the end of all is one record more (`RecordBehind`), zeros there change nothing, and
of records cut at any cell those remain whose magic was written, the last one perhaps damaged (`CutShort`). `FileInv` is the inductive
invariant over `IInv`: while the constructor scans, the index lists the first records of the file, and `offset` is where
the next header would be (`ScanAgrees`); in a session it lists all those of the flushed file, which end at
`m_maxPosition`, and those of the file itself end where the buffer begins (`OpenAgrees`); and only cells that are no
header lie behind the records (`Tidy`). `IndexIsFile` follows, and `ReopenFinds`: this process and a later one read the same.
The latter is the property that `TarArchive_longpath` finds violated, so that run and theorem together say what is to
blame: the two limits of the header, and nothing else. `ScanMovesOn` says of each step of the scan that it goes to a later
header, or stays and has read one block more of the file: a variant, from which `ScanEnds` would follow.

`ArchiveImplemented` maps each action to its step of `Archive`; the fairness of `FairObservedSpec` is not needed. `ArchiveInv`
adds to `FileInv` that the records in the buffer are whole (`PendingWhole`). What is found in a file to which records were
added is what was found before, with those writes applied in their order (`FoundAfter`), and a step of the stream
either flushes the buffer or leaves the file alone (`PendingFlushOrNot`). The hard case is the death of the process:
`CrashRecords` says that any prefix of the buffer leaves some of its records whole, in their order, and of the next
one nothing, a damaged record, or a record under a path nobody uses, which is what `Archive`'s crash allows.

These take more than `TarAssumption`, all of it about constants and stated in `TarArchiveRecords`: that `Damaged`
stands for no content (`DamagedAssumption`), and

* `Fits`: no path has more than 99 characters, and no content more than eleven octal digits of a size. The code breaks it
  silently (`TarArchive_longpath`, `TarArchive_departures`).
* `NoMinus`: no header of a file that was there before has a size with a minus sign. libgetar writes none. With one, the
  index has extents that begin before the file, and the scan may not end. All theorems of the module take it.
* `NoHeaderBehind`: no file that was there before libgetar opened it has a header behind the end of its records. To append, the
  code writes over what is there and never truncates, so that a shorter record could end right before such a header, and the
  next scan would go on with it. Every file that libgetar wrote is free of it, as `Tidy` says.
* `TornShows`, for `ArchiveImplemented`: a content of which the end is replaced by such cells (zeros, or what was behind
  the records) is no other content that is written, and a header whose prefix is replaced is no header of another path. A
  process that dies there leaves a record of the right size that no reader can tell from a whole one, so that a
  caller who writes both would find the one in the place of the other.

`MCTarArchive` has TLC evaluate them on the instance of `TarArchive_refines`, where they hold (`WithinTheorems`), and on that
of `TarArchive_longpath`, where `Fits` does not (`BeyondTheorems`).

**SharedArrayProofs** (from `SharedArrayAssumption`). The inductive invariant `IInv` is `Counted` until a handle that
wraps a null pointer is copied: `CountIsHolders`, nothing misused, and a shim without a target has one handle. The last
part is what the theorems need of null pointers: `release` takes a missing target for a count of zero, and that is right
only as long as no other handle has the shim. `OneMoves` counts: pointing one handle elsewhere moves one from one count
to another. Assignment is the case with the most branches, since both sides may have the same shim, and either may have
none.

**RecordLemmas, and the records in GtarProofs** (from `ParserAssumption`). A record that some path could have is put together from a
group that does not begin with an empty directory, a directory, an index and a behavior (`IsNormal`). Every path has
such a record (`ParsedIsNormal`), and such a record is the record of its path (`NormalReadsBack`). The condition that
carries the proof is on records in no frame: the last but one directory of their group is not `frames` or `vars`, or the
path would be read as one of a frame. `RecordParser` has a single variable, the path, so each theorem is a statement
about all paths.

**GtarProofs** (from `GtarAssumption`; any paths, contents, bound on pending writes). Seen from the front end an archive
is the set of the paths that a read finds, `Present`. `ApplyHas` says which those are: the stored ones and the pending
ones. `StoreKeeps` is the heart: storing the oldest pending writes, as reads, refused writes, the end of a bulk write
and close may, changes no path's being there, so all of these are `Calm` steps; a write adds its path
(`WriteAdds`). The inductive invariant `GInv` is that the cache is the set of the records of `Present` (`Catalog`),
with what makes that survive a reopening: nothing is pending in a closed archive (`Settled`), and no generator outlives
its object (`NoIterator`). `Absent`, a file that is not there has nothing stored, is for `AppendKeepsAll`.
`CatalogComplete` and `GeneratorYieldsStored` need in addition that a path is the path of its record, which
`PathReadsBack` of `RecordLemmas` gives for paths that do not begin with a slash (`PlainPaths`); with such a path
they fail. `AppendKeepsAll` needs that no other process writes between stat and open (`~OthersRace`); it fails with one.

**ZipArchiveProofs** (from `ZipAssumption`; any processes, paths, contents, initial files). The inductive invariant is
`TypeOK` with `Indexes`: the index each process keeps is `PathMap`, the one a reader builds, of the directory it has in
memory. `PathMapOfAppend` is what makes writing keep it: giving the path the number of files minus one, as writePtr
does, is what another entry at the end of the directory does to the last position of each path. That the types hold
is not obvious either: a read's place in the directory comes from the index (`PathMapFinds`), a directory comes from
whatever the file holds (`OpenedIsDirectory`, from the checks that miniz makes on opening), and what is written lands in
a file that may be shorter or longer than where it goes (`OverlayIsFile`).

`DocumentImplemented` is about what all this is for, and takes three things more. `FilesAssumption`: a file that is there
at first and opens has its records (`Sound`), as one that close saved has. `OneWriter`: `ZipArchive_writers` shows what
becomes of two. And if writes can fail, no content is longer than the `Reach` of the search for the end of the directory:
`ZipArchive_garbage` shows what a longer one that failed leaves behind an archive. The argument is about files cell by
cell. What an editor found is a file g that was saved, with directory d at o, or nothing (`Editable`). Until it closes,
what it has made of g (`Edited`) and what of that is in the file are g with records written over it from o on (`Kin`): the
cells before o are those of g, and no cell after o is of any kind that belongs to a directory but those that were there.
So the search finds g's own end or none (`RemainsOpens`, with `KindsDiffer`), which leads to all of d or to nothing
(`EditedFound`), and once it leads to nothing it stays so (`EditedFades`). Close writes the new directory behind the
records; when all of it is written the file is saved (`AllOfIt`), and when a part is, the last record of the old directory
may still be there, but does not lead to a mixture (`PartOfIt`). That is so because the new directory is never shorter
than the old one, nor begins before it. `DInv` says this of each process that writes (`Editor`), in terms of its stream and
the file (`Streaming`), and of readers that the records they found are before o, where nobody writes: the reason why
they are not disturbed. When nobody edits, their records are before the place where the next append begins (`Idle`).
There is a lemma for each action, which gives the invariant and the step of `Document` that it maps to; `StepMaps` puts
them together.

**SqliteArchiveProofs** (from `SqliteAssumption`; any connections, paths, contents; callers that mix immediate and bulk
writes, read in between, and go on after an exception). `NothingHeld` needs to know for every place in the code why a
connection is in a transaction. `Released`: outside one, it has no lock but a reader's. `Explained`: inside one, there
is a BulkWriter, or an INSERT that was not finished, or a write that goes on. `Begun` is what joins the two: an
immediate write that has come to its chunks is past its BEGIN, and one that is not immediate is under a BulkWriter's.
`TypeOK` needs `InChunks`: that there is a chunk to insert, not only in the arguments but in the content the statement is
bound to, which is another one after a write that threw. For that only the first chunk of an immediate write may meet a
lock, since with the second it has the lock itself. Each action changes one connection; `StepOfOne` says that the others
need no further look.

`NothingIsTorn`, `WritesAreStored`, `ReadsAreOfAsked` and `StoreIsImplemented` are for callers that keep to `AsMeant`: no
immediate writes under a BulkWriter, no use of an archive whose write threw, and contents that all have the same number
of chunks, as all of 1 to 500 million bytes do. The first two are needed, as `SqliteArchive_misuse` shows, and the third,
as `SqliteArchive_overwrite` shows. Their inductive invariant `StoreInv` says of every path in every version of the
tables that it is absent or holds one content (`Whole`), except for the path that a connection is writing, which holds
the first chunks of its argument (`UpTo`) and may hold anything behind them. `Whole` is on rows and chunks, so that what a
read returns, a filter of a sequence, is needed once only: `AbsentReads` and `HeldReads` say what it returns for such a
path. `Locked` joins the versions: a connection with changes of its own has the lock to commit them, so there is only one
such version, and the tables it began with are still the committed ones. `StoreIsImplemented` takes in addition that no
content is empty (`NoneEmpty`), since the read of an empty one is that of a path that is missing. `DraftInv` relates the
draft of `SharedStore` to the tables: the draft over the committed values is what the connection sees, but for the path
it is writing. A commit then makes the draft's values those of the database in one step, and every other step leaves the
database alone.

**DirArchiveProofs** (from `DirAssumption`, `ContentsAssumption`; any processes, names, paths, contents and initial
trees, writes that may fail). Each step is one process's: `Holds` says that the others keep what is theirs, and that what
is there stays, files as files, which is all that a call in progress needs (`Calls`). `PreparedGrows`, that making the
directories above a path takes nothing away, is about a recursive function, and is proved by looking at the least
directory for which it fails. `RegistersImplemented` is for one writer per path at a time (`OneWriter`);
`DirArchive_departures` shows that it is needed. `RInv` says of a file that is being written that it holds what has been
written so far (`WrittenSoFar`), of one that is being read and that no write overlaps that it still has the size that was
found (`SizeTaken`), and of every other that it holds a content, or is `torn` (`Mended`). A step touches the one path it is
about (`Touches`), since two paths are two files (`FilesDiffer`), and the directories made for one are never files of
another. `SearchFindsAll` needs no assumption on writers. Its invariant `Sought` is on the stack of directories being
searched: no entry that is left is another's, or above another or above a name that was found, and each file that was
there is found, or below an entry that is left. Others only add to the tree, so that it lasts while they work.

**ToolsProofs** (from `ToolsAssumption`; any processes, names, paths, jobs, number of underscores and runs). `Typed`
is unconditional. The others are for tools of which none makes names that another uses (`Apart`); `Tools_departures`
shows that two with one output can return without it. `OutputIsWhole` and `CatMakesIt` say `Made`: all that the tool
was to make, or an archive that does not open, and that only if one of the tool's own closes failed (`unclosed`).
`Owned` is the inductive invariant. Its part for each process, `Shape`, says which names it can have (`CatNames`,
`FixNames`: those of its output with underscores, and its inputs), which file it has open (`HandleIs`), that it fills
the output's own name only if there was no output (`OutputNew`), and what the files hold: at `next`, `recordFiles` is
the last of the inputs so far that has each path (`Listed`), the open file has the records that were copied
(`CatData`), and what fix rebuilt has those of its input (`FixData`). Every step of one process is shown to keep its
own part and to change no file but those with its output's name (`Changes`); the parts of the others are on other
names (`OthersShape`), which is all that needs to be said of interleaving. `NoStrays` says of every temporary file
that some process in the middle of a call is going to rename or remove it, so that after a call has ended, by whatever
exception, there is none; it needs that there were none at first (`NoLeftovers`).

Only model-checked: the liveness properties `ScanEnds` and `WriteEnds`, since fairness and ENABLED are out of the reach of
the prover. `ReopenReadsBack` is proved under `Fits` and violated without it. What a recursive definition computes is
proved where a least counterexample will do (`RecordsListsAll`, `PreparedGrows`).

## 5. What is not modelled

* miniz, lz4, sqlite3, libstdc++'s streams, POSIX: as far as the code uses them, as external definitions. They are by
  far the most of the repository's lines, and are vendored. A tar file whose disk is full is not modelled: writes of
  that stream fail only after a read has. The zip and directory backends have it.
* Errors of sqlite other than `SQLITE_BUSY` (a full disk, a damaged database), of which writePtr throws in its last lines
  (SqliteArchive.cpp:336-342). In the front end, exceptions of a constructor other than that of a missing file, such as a
  file that is no archive or may not be opened: they leave the same state, no object.
* Memory that runs out, except for a tar record whose size has a minus sign, of which `new` throws.
* The bytes of contents, compression levels, time stamps, modes, byte order (swapping is a no-op where it was built
  for). Two contents of one size and checksum are taken to be the same.
* Zip archives: the old format's limits on sizes, and paths that miniz changes; the directory's symbolic links, devices,
  and removal of files by other programs.
* Tools: an exception of `os.remove` in a finally clause, which leaves the temporary file; `read.py`, which only opens
  an archive and starts a console; inputs and outputs that are not zip files (fix of
  one raises at once, for it uses a name that is not defined, fix.py:87); several names of one file; outputs that are
  directories; the encoding of names by zip.
* The order of indices, which only sorts the answers of queries, and comparison of Record objects in Python.
* numpy arrays and Python's own reference counts; pickling.
* Write mode of sqlite while others have the file open, which removes the file under them.
* The Java binding, which SWIG generates from the front end; tests, documentation and build files.

## 6. Plan

Every part with state of its own has its module, and every safety property and refinement that a passing run checks is
a theorem, under the hypotheses that section 4 names. What is left would be to weaken those of `StoreIsImplemented` (one
number of chunks, no empty content) as far as departure 2 allows, and `TornShows`, for which `Archive` would have to say
what the bytes of a torn content may be.
