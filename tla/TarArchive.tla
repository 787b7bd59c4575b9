----------------------------- MODULE TarArchive -----------------------------
(***************************************************************************)
(* The tar backend (src/src/TarArchive.cpp): an index built by scanning    *)
(* the file when it is opened, records appended through one buffered       *)
(* fstream that reads share, and a process that may die at any point.      *)
(*                                                                         *)
(* The file is a sequence of cells, Block cells standing for 512 bytes.    *)
(* A header block is the three cells that matter to the scan: the name and *)
(* size fields, the magic, the prefix.  Positions count cells from 0, so   *)
(* the cell at position i is disk[i + 1].                                  *)
(*                                                                         *)
(* Sizes and positions are size_t.  2^64 - k is written -k: the text of a  *)
(* size may have a minus sign, which >> takes for that number, and sums    *)
(* and rounding wrap around, since 2^64 is a multiple of 512.              *)
(***************************************************************************)
EXTENDS CellFile, FiniteSets

CONSTANTS
    Str,        \* pieces of path names
    NoStr,      \* the empty piece
    Path,       \* the paths callers write and read
    TooLong,    \* those among them longer than name and prefix can hold
    Byte,       \* what contents are made of
    Content,    \* the contents callers write
    Magic,      \* "ustar"
    Uninit,     \* a cell of memory nobody wrote
    NoReply,    \* the last operation returned nothing
    Synced,     \* the last operation returned having flushed
    Missing,    \* read() of an unknown path: a null SharedArray
    SizeLimit,  \* the first size the 11 octal digits of a header cannot hold
    Radix,      \* what losing the last digit divides by
    MaxCells,   \* bound: writes stop when the index would pass this position
    Minus,      \* the sizes with a minus sign that headers not of libgetar's may hold
    InitialFiles \* what the file may hold before libgetar opens it

Block == 3

\* A path of more than 99 characters is split: prefix, 99 characters of name,
\* and the last character, which NoStr stands for the absence of.
AnyPath == [prefix : Str, name : Str, last : Str]
Entry   == [name : Str, size : Nat \cup Minus]
Prefix  == [prefix : Str]
Cell    == Byte \cup {Zero, Magic} \cup Entry \cup Prefix

ASSUME TarAssumption ==
    /\ NoStr \in Str
    /\ Path \subseteq AnyPath
    /\ TooLong \subseteq Path
    /\ Content \subseteq Seq(Byte)
    /\ SizeLimit \in Nat \ {0} /\ Radix \in Nat \ {0, 1}
    /\ MaxCells \in Nat
    /\ \A n \in Minus : n \in Int /\ n < 0
    /\ InitialFiles \subseteq Seq(Cell)
    /\ Zero # Magic /\ Zero \notin Entry
    /\ Magic \notin Byte \cup Entry \cup Prefix
    /\ \A r \in {NoReply, Synced, Missing} : r \notin Seq(Cell \cup {Uninit})
    /\ NoReply # Synced /\ NoReply # Missing /\ Synced # Missing

VARIABLES
    disk,           \* the file's cells
    exists,         \* there is a file
    pc,             \* "closed", "scanning" (in the constructor) or "open"
    m_mode,         \* "Read", "Write" or "Append"
    pos,            \* m_file: position of the next read or write
    buf,            \* m_file: cells written, ending at pos, not yet in the file
    fail,           \* m_file: failbit or badbit is set
    offset,         \* the constructor's local
    m_filePosition,
    m_maxPosition,
    m_fileNames,
    m_fileOffsets,
    m_fileSizes,
    reply           \* what the last operation returned

file   == <<disk, exists>>
stream == <<pos, buf, fail>>
index  == <<m_fileNames, m_fileOffsets, m_fileSizes>>
vars   == <<file, pc, m_mode, stream, offset, m_filePosition, m_maxPosition, index, reply>>

-----------------------------------------------------------------------------
(* Cells and headers *)

AtLeast(m, n) == IF m >= n THEN m ELSE n

\* (n + 511)/512*512
Padded(n) == ((n + Block - 1) \div Block) * Block

\* The cell at position o of f, NUL past its end.
CellAt(f, o) == IF o < Len(f) THEN f[o + 1] ELSE Zero

\* The size field keeps the first 11 octal digits.
StoredSize(n) == IF n < SizeLimit THEN n ELSE n \div Radix

\* The prefix and name fields; the last character of a long path is in neither.
StoredPath(p) == [prefix |-> p.prefix, name |-> p.name, last |-> NoStr]

Header(p, n) ==
    << [name |-> StoredPath(p).name, size |-> StoredSize(n)], Magic,
       [prefix |-> StoredPath(p).prefix] >>

\* What one write appends: header, contents, padding to a whole block.
RecordCells(p, c) == Header(p, Len(c)) \o c \o Zeros(Padded(Len(c)) - Len(c))

\* The fields of a header as the scan reads them.
EntryOf(c)  == IF c \in Entry THEN c ELSE [name |-> NoStr, size |-> 0]
PrefixOf(c) == IF c \in Prefix THEN c.prefix ELSE NoStr
PathOf(f, o) == [prefix |-> PrefixOf(CellAt(f, o + 2)),
                 name   |-> EntryOf(CellAt(f, o)).name,
                 last   |-> NoStr]
SizeOf(f, o) == EntryOf(CellAt(f, o)).size

\* Mutant: std::map::insert, which keeps the value of a key already there.
PutInsert(map, p, v) ==
    [q \in DOMAIN map \cup {p} |-> IF q \in DOMAIN map THEN map[q] ELSE v]

\* A std::map with key p set to v.
Put(map, p, v) == [q \in DOMAIN map \cup {p} |-> IF q = p THEN v ELSE map[q]]

\* The file once the stream is flushed.
Flushed == Overlay(disk, pos - Len(buf), buf)

-----------------------------------------------------------------------------
Init ==
    /\ \/ exists = FALSE /\ disk = <<>>
       \/ exists = TRUE  /\ disk \in InitialFiles
    /\ pc = "closed"
    /\ m_mode = "Read"
    /\ pos = 0 /\ buf = <<>> /\ fail = FALSE
    /\ offset = 0
    /\ m_filePosition = 0 /\ m_maxPosition = 0
    /\ m_fileNames = <<>> /\ m_fileOffsets = <<>> /\ m_fileSizes = <<>>
    /\ reply = NoReply

\* The object is gone, and its state with it.
Forget ==
    /\ pc' = "closed"
    /\ m_mode' = "Read"
    /\ pos' = 0 /\ buf' = <<>> /\ fail' = FALSE
    /\ offset' = 0
    /\ m_filePosition' = 0 /\ m_maxPosition' = 0
    /\ m_fileNames' = <<>> /\ m_fileOffsets' = <<>> /\ m_fileSizes' = <<>>
    /\ reply' = NoReply

(* The constructor: open the file, then scan it one header at a time. *)

\* m_file.open: Write truncates; the other modes need a file.
Open(mode) ==
    /\ pc = "closed"
    /\ exists \/ mode = "Write"
    /\ pc' = "scanning"
    /\ m_mode' = mode
    /\ exists' = TRUE
    /\ disk' = IF mode = "Write" THEN <<>> ELSE disk
    /\ reply' = NoReply
    /\ UNCHANGED <<stream, offset, m_filePosition, m_maxPosition, index>>

\* Mutant: recordHeader is not cleared, and past the end of the file keeps the header
\* of the last record.
NotCleared(i) ==
    IF ~fail /\ pos + i < Len(disk) THEN CellAt(disk, pos + i)
    ELSE IF m_fileNames = <<>> THEN Zero
    ELSE CellAt(disk, m_fileOffsets[m_fileNames[Len(m_fileNames)]] - Block + i)

\* What the scan's next read leaves in recordHeader, which was cleared: a
\* stream that failed reads nothing, and the file may end inside the block.
HeaderCell(i) == IF fail THEN Zero ELSE CellAt(disk, pos + i)
HeaderIsZero  == \A i \in 0..(Block - 1) : HeaderCell(i) = Zero
HitsEnd       == fail \/ pos + Block > Len(disk)

\* A block with the magic: index the record and move to the next header.  A
\* header cut short by the end of the file has failed the stream: no seek.  A
\* size with a minus sign leads back, or before the file, where no seek goes.
ScanRecord ==
    LET path == PathOf(disk, pos)
        next == offset + Block + Padded(SizeOf(disk, pos))
    IN  /\ pc = "scanning"
        /\ HeaderCell(1) = Magic
        /\ m_fileNames' = Append(m_fileNames, path)
        /\ m_fileOffsets' = Put(m_fileOffsets, path, offset + Block)
        /\ m_fileSizes' = Put(m_fileSizes, path, SizeOf(disk, pos))
        /\ offset' = next
        /\ fail' = (HitsEnd \/ next < 0)
        /\ pos' = IF HitsEnd THEN Len(disk) ELSE IF next < 0 THEN pos + Block ELSE next
        /\ UNCHANGED <<file, pc, m_mode, buf, m_filePosition, m_maxPosition, reply>>

\* Mutant: the next read starts after `offset', not where the last one ended.
SkipFromOffset == offset + Block

\* Where the stream is after reading one block.
NextBlock == pos + Block

\* A block that is neither a header nor zero: read the next one, unless the
\* file ended.  `offset' stays behind.
ScanSkip ==
    /\ pc = "scanning"
    /\ HeaderCell(1) = Zero
    /\ ~HeaderIsZero
    /\ ~HitsEnd
    /\ pos' = NextBlock
    /\ UNCHANGED <<file, pc, m_mode, buf, fail, offset, m_filePosition, m_maxPosition,
                   index, reply>>

\* The first header is not a tar header: the constructor throws.
ScanThrow ==
    /\ pc = "scanning"
    /\ HeaderCell(1) \notin {Zero, Magic}
    /\ offset = 0
    /\ Forget
    /\ UNCHANGED file

\* Mutants: trust the trailer to be there; forget the size; forget the padding.
EndBeforeTrailer == IF m_fileNames = <<>> THEN 0 ELSE Len(disk) - 2 * Block
EndWithoutSize ==
    IF m_fileNames = <<>> THEN 0 ELSE m_fileOffsets[m_fileNames[Len(m_fileNames)]]
EndWithoutPadding ==
    IF m_fileNames = <<>> THEN 0
    ELSE LET lastName == m_fileNames[Len(m_fileNames)]
         IN  m_fileOffsets[lastName] + m_fileSizes[lastName]

\* The last record's end, where the next record goes.
EndOfRecords ==
    IF m_fileNames = <<>> THEN 0
    ELSE LET lastName == m_fileNames[Len(m_fileNames)]
         IN  m_fileOffsets[lastName] + Padded(m_fileSizes[lastName])

\* End of the scan (a zero block, the end of the file, or a foreign block after
\* some records) and the rest of the constructor.
ScanDone ==
    /\ pc = "scanning"
    /\ \/ HeaderIsZero
       \/ HeaderCell(1) = Zero /\ HitsEnd
       \/ HeaderCell(1) \notin {Zero, Magic} /\ offset # 0
    /\ pc' = "open"
    /\ m_maxPosition' = EndOfRecords
    /\ fail' = (m_mode = "Append" /\ m_maxPosition' < 0)
    /\ pos' = IF m_mode = "Append" /\ m_maxPosition' >= 0 THEN m_maxPosition' ELSE 0
    /\ m_filePosition' = IF m_mode = "Append" THEN m_maxPosition' ELSE 0
    /\ UNCHANGED <<file, m_mode, buf, offset, index, reply>>

-----------------------------------------------------------------------------
(* Operations of an open archive *)

\* writePtr, first half: seek to the end unless m_filePosition is there.  The
\* seek flushes the buffer; a failed stream does not move.
Seeks == m_filePosition # m_maxPosition /\ ~fail
WriteWhereItIs == pos                                   \* mutant: no seekp
WritePosition == IF Seeks THEN m_maxPosition ELSE pos
UnwrittenBuffer == IF Seeks THEN <<>> ELSE buf
SoughtFile == IF Seeks THEN Flushed ELSE disk

\* A write: seek, append the record, flush if immediate, index it.  Nothing
\* looks at the stream's state, so a failed stream is indexed all the same.
WritePtr(p, c, immediate) ==
    LET cells   == RecordCells(p, c)
        delta   == Block + Padded(Len(c))
        unwritten == UnwrittenBuffer \o cells
    IN  /\ pc = "open"
        /\ m_mode # "Read"
        /\ p \notin TooLong
        /\ m_maxPosition + delta <= MaxCells
        /\ IF fail
           THEN UNCHANGED <<disk, stream>>
           ELSE /\ pos' = WritePosition + Len(cells)
                /\ buf' = IF immediate THEN <<>> ELSE unwritten
                /\ disk' = IF immediate
                           THEN Overlay(SoughtFile, pos' - Len(unwritten), unwritten)
                           ELSE SoughtFile
                /\ fail' = FALSE
        /\ m_filePosition' = m_maxPosition + delta
        /\ m_maxPosition' = m_maxPosition + delta
        /\ m_fileNames' = Append(m_fileNames, p)
        /\ m_fileOffsets' = Put(m_fileOffsets, p, m_maxPosition + Block)
        /\ m_fileSizes' = Put(m_fileSizes, p, Len(c))
        /\ reply' = IF immediate THEN Synced ELSE NoReply
        /\ UNCHANGED <<exists, pc, m_mode, offset>>

\* A path that fits no header: writePtr throws, after its seek.
WriteTooLong(p) ==
    /\ pc = "open"
    /\ m_mode # "Read"
    /\ p \in TooLong
    /\ disk' = SoughtFile /\ pos' = WritePosition /\ buf' = UnwrittenBuffer
    /\ m_filePosition' = m_maxPosition
    /\ reply' = NoReply
    /\ UNCHANGED <<exists, pc, m_mode, fail, offset, m_maxPosition, index>>

\* An archive opened for reading: writePtr throws.
WriteReadOnly ==
    /\ pc = "open"
    /\ m_mode = "Read"
    /\ reply' = NoReply
    /\ UNCHANGED <<file, pc, m_mode, stream, offset, m_filePosition, m_maxPosition, index>>

\* endBulkWrites: flush.
EndBulkWrites ==
    /\ pc = "open"
    /\ disk' = Flushed
    /\ buf' = <<>>
    /\ reply' = Synced
    /\ UNCHANGED <<exists, pc, m_mode, pos, fail, offset, m_filePosition, m_maxPosition,
                   index>>

\* Mutant: read does not record where it left the stream.
PositionUntouched(p) == m_filePosition

\* Where a read leaves m_filePosition.
PositionAfterRead(p) == m_fileOffsets[p] + m_fileSizes[p]

\* read of an indexed path: the seek flushes, then size cells are read into new
\* memory.  A file that ends first fails the stream, and nothing clears it.  No
\* memory is as large as a size with a minus sign: new throws, after the seek.
Read(p) ==
    LET start == m_fileOffsets[p]
        size  == m_fileSizes[p]
        short == fail \/ (size > 0 /\ Len(Flushed) < start + size)
    IN  /\ pc = "open"
        /\ p \in DOMAIN m_fileOffsets
        /\ disk' = Flushed
        /\ buf' = <<>>
        /\ reply' = IF size < 0 THEN NoReply
                    ELSE [i \in 1..size |-> IF fail \/ Len(Flushed) < start + i THEN Uninit
                                            ELSE Flushed[start + i]]
        /\ fail' = short
        /\ pos' = IF fail THEN pos ELSE IF short THEN AtLeast(start, Len(Flushed))
                  ELSE start + AtLeast(size, 0)
        /\ m_filePosition' = IF size < 0 THEN m_filePosition ELSE PositionAfterRead(p)
        /\ UNCHANGED <<exists, pc, m_mode, offset, m_maxPosition, index>>

\* read of a path the index does not have.
ReadMissing(p) ==
    /\ pc = "open"
    /\ p \notin DOMAIN m_fileOffsets
    /\ reply' = Missing
    /\ UNCHANGED <<file, pc, m_mode, stream, offset, m_filePosition, m_maxPosition, index>>

\* What close writes after the last record: two zero blocks.
Trailer == IF fail \/ m_mode = "Read" THEN <<>> ELSE Zeros(2 * Block)

\* close, and the destructor, which calls it.
Close ==
    /\ pc = "open"
    /\ disk' = Overlay(Flushed, m_maxPosition, Trailer)
    /\ Forget
    /\ UNCHANGED exists

\* The process dies: some prefix of the buffered cells is in the file.
Crash ==
    /\ pc # "closed"
    /\ \E k \in 0..Len(buf) :
         disk' = Overlay(disk, pos - Len(buf), SubSeq(buf, 1, k))
    /\ Forget
    /\ UNCHANGED exists

\* The process dies inside close, with part of the trailer in the file.
CrashInClose ==
    /\ pc = "open"
    /\ \E k \in 1..Len(Trailer) :
         disk' = Overlay(Flushed, m_maxPosition, SubSeq(Trailer, 1, k))
    /\ Forget
    /\ UNCHANGED exists

-----------------------------------------------------------------------------
Scan == ScanRecord \/ ScanSkip \/ ScanThrow \/ ScanDone

Next ==
    \/ \E mode \in {"Read", "Write", "Append"} : Open(mode)
    \/ Scan
    \/ \E p \in Path, c \in Content, immediate \in BOOLEAN : WritePtr(p, c, immediate)
    \/ \E p \in Path : WriteTooLong(p) \/ Read(p) \/ ReadMissing(p)
    \/ WriteReadOnly
    \/ EndBulkWrites
    \/ Close
    \/ Crash
    \/ CrashInClose

Spec == Init /\ [][Next]_vars

\* The constructor's loop runs in the caller's thread and waits for nobody.
FairSpec == Spec /\ WF_vars(Scan)

-----------------------------------------------------------------------------
(* Properties *)

PartialMap(map, S) == DOMAIN map \subseteq AnyPath /\ map \in [DOMAIN map -> S]

\* Without a minus sign nothing leads before the beginning of the file.
Position == IF Minus = {} THEN Nat ELSE Int

\* The types of the file, the stream and the index (TarArchive.hpp:56-72).
TypeOK ==
    /\ disk \in Seq(Cell) /\ exists \in BOOLEAN
    /\ pc \in {"closed", "scanning", "open"}
    /\ m_mode \in {"Read", "Write", "Append"}
    /\ pos \in Nat /\ buf \in Seq(Cell) /\ fail \in BOOLEAN
    /\ offset \in Position /\ m_filePosition \in Position /\ m_maxPosition \in Position
    /\ m_fileNames \in Seq(AnyPath)
    /\ PartialMap(m_fileOffsets, Position) /\ PartialMap(m_fileSizes, Nat \cup Minus)
    /\ reply \in Seq(Cell \cup {Uninit}) \cup {NoReply, Synced, Missing}

\* writePtr only seeks when m_filePosition differs from m_maxPosition, so when
\* they are equal the stream itself must be at the end of the records, whatever
\* reads, failed seeks and refused writes came before (TarArchive.cpp:176-181).
PositionCoherent ==
    pc = "open" /\ ~fail /\ m_filePosition = m_maxPosition => pos = m_maxPosition

\* Buffered cells always end at the end of the records: a crash can only cut
\* the archive short, never tear a record that was there before
\* (TarArchive.cpp:257-270, doc/source/backends.rst:27-29).
BufferAtEnd ==
    buf # <<>> =>
        /\ pc = "open" /\ ~fail
        /\ pos = m_maxPosition /\ m_filePosition = m_maxPosition
        /\ Len(buf) <= pos

\* The position all indexed extents stay below.
Bound == IF pc = "scanning" THEN offset ELSE m_maxPosition

\* The three index containers agree on the paths they know, and every indexed
\* extent lies before the place of the next record, so that a write can never
\* land inside an older record (TarArchive.cpp:119-123, 133-137, 268-274).
ExtentsInside ==
    /\ DOMAIN m_fileOffsets = {m_fileNames[i] : i \in DOMAIN m_fileNames}
    /\ DOMAIN m_fileSizes = DOMAIN m_fileOffsets
    /\ \A p \in DOMAIN m_fileOffsets : m_fileOffsets[p] + m_fileSizes[p] <= Bound

\* Everything before this position is in the file, the buffer comes after it.
Settled == IF buf = <<>> THEN m_maxPosition ELSE pos - Len(buf)

\* No operation of an open archive, no close and no crash changes a cell of a
\* record that has reached the file (TarArchive.cpp:152-275).
RecordsKept ==
    [][pc = "open" =>
         \A i \in 1..Settled : i <= Len(disk) => i <= Len(disk') /\ disk'[i] = disk[i]]_vars

\* Each turn of the constructor's loop but the last moves `offset' forward, or leaves
\* it and moves the stream forward, and both are inside the file: the loop ends.  A
\* size with a minus sign moves `offset' back (TarArchive.cpp:74-127).
ScanAdvances ==
    [][pc = "scanning" /\ pc' = "scanning" =>
         /\ offset <= pos /\ pos < Len(disk)
         /\ offset' > offset \/ (offset' = offset /\ pos' > pos)]_vars

\* The constructor's loop ends, whether the file is empty, foreign, cut short or
\* without a trailer, unless a size has a minus sign (TarArchive.cpp:74-127).
ScanEnds == pc = "scanning" ~> pc # "scanning"
=============================================================================
