----------------------------- MODULE ZipArchive -----------------------------
(***************************************************************************)
(* The zip backend (src/src/ZipArchive.cpp) over miniz: several processes  *)
(* with one file.  Records are written as they come, the directory that    *)
(* lists them only when the archive is closed, and appending writes over   *)
(* the directory that was there.                                           *)
(*                                                                         *)
(* The file is a sequence of cells, and positions count cells from 0.  A   *)
(* local header, a data descriptor, a directory entry and each record of   *)
(* the end of the directory are one cell; contents are one cell a byte.    *)
(* A directory entry's size and checksum are `content': two contents with  *)
(* the same size and checksum are taken to be the same.                    *)
(***************************************************************************)
EXTENDS CellFile, FiniteSets

CONSTANTS
    Proc,       \* processes
    Path,       \* the paths callers use
    BadPath,    \* those miniz refuses, with a colon for instance
    Byte,       \* what contents are made of
    Content,    \* the contents callers write
    Footer,     \* a data descriptor
    NoReply,    \* the last operation returned nothing
    Missing,    \* read() of an unknown path: a null SharedArray
    Threw,      \* the last operation threw
    Saved,      \* the last operation was a close, and the file took everything
    Reach,      \* how far from the end of a file its End is looked for
    OneWriter,  \* callers open the archive for writing one at a time
    Fails,      \* writing to the file may fail
    MaxCells,   \* bound: writes stop when the records would pass this position
    InitialFiles \* what the file may hold at first

Local   == [local : Path]
Entry   == [path : Path, ofs : Nat, content : Content]
End64   == [entries64 : Nat, dir64 : Nat]
Locator == [end64 : Nat]
End     == [entries : Nat, dir : Nat]
Cell    == Byte \cup {Zero, Footer} \cup Local \cup Entry \cup End64 \cup Locator \cup End
Reply   == Content \cup {NoReply, Missing, Threw, Saved}

\* What reply can be about.
Operation == {<<"open">>, <<"write">>, <<"close">>} \cup {<<"read", p>> : p \in Path}

ASSUME ZipAssumption ==
    /\ BadPath \subseteq Path
    /\ Content \subseteq Seq(Byte)
    /\ Reach \in Nat \ {0} /\ MaxCells \in Nat
    /\ OneWriter \in BOOLEAN /\ Fails \in BOOLEAN
    /\ InitialFiles \subseteq Seq(Cell)
    /\ Zero \notin Byte /\ Footer \notin Byte
    /\ (Local \cup Entry \cup End64 \cup Locator \cup End) \cap (Byte \cup {Footer}) = {}

VARIABLES
    disk,       \* the file's cells
    exists,     \* there is a file
    m_mode,     \* how each process has the archive open, or "closed"
    directory,  \* m_archive: the directory each has in memory
    position,   \* m_archive: where each writes next; when reading, the file's size
    m_path_map,
    stream,     \* m_archive: the stdio buffer, [at |-> position, cells |-> those not written]
    reply       \* whose the last operation was, and what it returned

vars == <<disk, exists, m_mode, directory, position, m_path_map, stream, reply>>

-----------------------------------------------------------------------------
(* Reading a file's directory *)

\* The positions of the End records within reach of the end of f.
Ends(f) == {i \in 1..Len(f) : f[i] \in End /\ Len(f) - i < Reach}

\* The last of them.
EndOf(f) == CHOOSE i \in Ends(f) : \A j \in Ends(f) : j <= i

\* A locator before it makes f a zip64 archive, if it leads to an End64.
HasLocator(f) == EndOf(f) > 2 /\ f[EndOf(f) - 1] \in Locator
IsZip64(f) ==
    /\ HasLocator(f)
    /\ f[EndOf(f) - 1].end64 + 1 \in 1..Len(f)
    /\ f[f[EndOf(f) - 1].end64 + 1] \in End64

EntriesOf(f) == IF IsZip64(f) THEN f[f[EndOf(f) - 1].end64 + 1].entries64 ELSE f[EndOf(f)].entries
StartOf(f) == IF IsZip64(f) THEN f[f[EndOf(f) - 1].end64 + 1].dir64 ELSE f[EndOf(f)].dir
DirectoryOf(f) == LET o == StartOf(f) IN SubSeq(f, o + 1, o + EntriesOf(f))

\* What mz_zip_reader_init_file checks.
Opens(f) ==
    /\ Ends(f) # {}
    /\ HasLocator(f) => f[EndOf(f) - 1].end64 < Len(f)
    /\ StartOf(f) + EntriesOf(f) <= Len(f)
    /\ LET d == DirectoryOf(f)
       IN  \A i \in DOMAIN d : d[i] \in Entry /\ d[i].ofs + 1 + Len(d[i].content) <= Len(f)

-----------------------------------------------------------------------------
(* Records *)

\* What one record adds to the file, and to the directory.
RecordCells(p, c) == <<[local |-> p]>> \o c \o (IF c = <<>> THEN <<>> ELSE <<Footer>>)

\* What close adds: the directory d of a file whose records end at o.
DirectoryCells(d, o) ==
    d \o << [entries64 |-> Len(d), dir64 |-> IF d = <<>> THEN 0 ELSE o],
            [end64 |-> o + Len(d)],
            [entries |-> Len(d), dir |-> IF d = <<>> THEN 0 ELSE o] >>

\* fillPathMap: the last entry of a path wins.  Indices count from 0.
Positions(d, p) == {i \in DOMAIN d : d[i].path = p}
PathMap(d) ==
    [p \in {d[i].path : i \in DOMAIN d} |->
        (CHOOSE i \in Positions(d, p) : \A j \in Positions(d, p) : j <= i) - 1]

\* What extraction finds in f at the place entry e names, and whether it accepts it.
BytesOf(f, e) == SubSeq(f, e.ofs + 2, e.ofs + 1 + Len(e.content))

\* Mutant: no checksum.
SizeOnly(f, e) == Len(BytesOf(f, e)) = Len(e.content)

Checks(f, e) == BytesOf(f, e) = e.content

Extracts(f, e, end) ==
    \/ e.content = <<>>
    \/ /\ e.ofs + 1 \in 1..Len(f)
       /\ f[e.ofs + 1] \in Local
       /\ e.ofs + 1 + Len(e.content) <= end
       /\ e.ofs + 1 + Len(e.content) <= Len(f)
       /\ Checks(f, e)

-----------------------------------------------------------------------------
(* The stdio stream *)

NoStream == [at |-> 0, cells |-> <<>>]

\* The file once the stream of q is flushed.
Flushed(q) == Overlay(disk, stream[q].at, stream[q].cells)

\* q has written cells s at position o: next to those in the buffer, or after a seek,
\* which flushes them.  The oldest k cells then reach the file.
Stream(q, o, s, k) ==
    LET joined == stream[q].at + Len(stream[q].cells) = o
        file   == IF joined THEN disk ELSE Flushed(q)
        at     == IF joined THEN stream[q].at ELSE o
        cells  == IF joined THEN stream[q].cells \o s ELSE s
    IN  /\ k \in 0..Len(cells)
        /\ disk' = Overlay(file, at, SubSeq(cells, 1, k))
        /\ stream' = [stream EXCEPT ![q] = IF k = Len(cells) THEN NoStream
                                           ELSE [at |-> at + k, cells |-> SubSeq(cells, k + 1, Len(cells))]]

-----------------------------------------------------------------------------
Init ==
    /\ \/ exists = FALSE /\ disk = <<>>
       \/ exists = TRUE  /\ disk \in InitialFiles
    /\ m_mode = [q \in Proc |-> "closed"]
    /\ directory = [q \in Proc |-> <<>>]
    /\ position = [q \in Proc |-> 0]
    /\ m_path_map = [q \in Proc |-> <<>>]
    /\ stream = [q \in Proc |-> NoStream]
    /\ reply \in [by : Proc, op : {<<"close">>}, value : {NoReply}]

Writes(q) == m_mode[q] \in {"Write", "Append"}

\* Assumed of callers when OneWriter, for nothing in the code locks the file.
MayWrite == OneWriter => \A q \in Proc : ~Writes(q)

Returns(q, op, r) == reply' = [by |-> q, op |-> op, value |-> r]

\* The constructor has opened the file, with directory d, in memory, and writes at o.
Opened(q, mode, d, o) ==
    /\ m_mode' = [m_mode EXCEPT ![q] = mode]
    /\ directory' = [directory EXCEPT ![q] = d]
    /\ position' = [position EXCEPT ![q] = o]
    /\ m_path_map' = [m_path_map EXCEPT ![q] = PathMap(d)]
    /\ Returns(q, <<"open">>, NoReply)
    /\ UNCHANGED stream

OpenWrite(q) ==
    /\ m_mode[q] = "closed"
    /\ MayWrite
    /\ disk' = <<>> /\ exists' = TRUE
    /\ Opened(q, "Write", <<>>, 0)

OpenRead(q) ==
    /\ m_mode[q] = "closed"
    /\ exists /\ Opens(disk)
    /\ Opened(q, "Read", DirectoryOf(disk), Len(disk))
    /\ UNCHANGED <<disk, exists>>

\* Mutant: at the cell before the old directory.
AppendBefore(f) == StartOf(f) - 1

\* Where appending starts: at the old directory.
AppendAt(f) == StartOf(f)

OpenAppend(q) ==
    /\ m_mode[q] = "closed"
    /\ MayWrite
    /\ exists /\ Opens(disk) /\ IsZip64(disk)
    /\ Opened(q, "Append", DirectoryOf(disk), AppendAt(disk))
    /\ UNCHANGED <<disk, exists>>

\* The constructor throws.
OpenThrows(q, mode) ==
    /\ m_mode[q] = "closed"
    /\ mode = "Append" => MayWrite
    /\ ~ (exists /\ Opens(disk) /\ (mode = "Append" => IsZip64(disk)))
    /\ Returns(q, <<"open">>, Threw)
    /\ UNCHANGED <<disk, exists, m_mode, directory, position, m_path_map, stream>>

-----------------------------------------------------------------------------
\* Mutant: a path keeps its first entry, as std::map::insert would have it.
IndexInserted(map, p, n) == [x \in DOMAIN map \cup {p} |-> IF x \in DOMAIN map THEN map[x] ELSE n - 1]

\* m_path_map[path] = size() - 1
Indexed(map, p, n) == [x \in DOMAIN map \cup {p} |-> IF x = p THEN n - 1 ELSE map[x]]

WritePtr(q, p, c) ==
    LET n == Len(directory[q]) + 1
    IN  /\ Writes(q)
        /\ p \notin BadPath
        /\ position[q] + Len(RecordCells(p, c)) <= MaxCells
        /\ \E k \in 0..(2 * MaxCells) : Stream(q, position[q], RecordCells(p, c), k)
        /\ directory' = [directory EXCEPT ![q] =
                            Append(@, [path |-> p, ofs |-> position[q], content |-> c])]
        /\ position' = [position EXCEPT ![q] = @ + Len(RecordCells(p, c))]
        /\ m_path_map' = [m_path_map EXCEPT ![q] = Indexed(@, p, n)]
        /\ Returns(q, <<"write">>, NoReply)
        /\ UNCHANGED <<exists, m_mode>>

\* An archive opened for reading, or a name miniz refuses.
WriteThrows(q, p) ==
    /\ m_mode[q] # "closed"
    /\ m_mode[q] = "Read" \/ p \in BadPath
    /\ Returns(q, <<"write">>, Threw)
    /\ UNCHANGED <<disk, exists, m_mode, directory, position, m_path_map, stream>>

\* The file cannot take the whole record: some of it is written, and writePtr throws.
WriteFails(q, p, c) ==
    /\ Fails
    /\ Writes(q)
    /\ p \notin BadPath
    /\ position[q] + Len(RecordCells(p, c)) <= MaxCells
    /\ \E n \in 0..(Len(RecordCells(p, c)) - 1), k \in 0..(2 * MaxCells) :
         Stream(q, position[q], SubSeq(RecordCells(p, c), 1, n), k)
    /\ Returns(q, <<"write">>, Threw)
    /\ UNCHANGED <<exists, m_mode, directory, position, m_path_map>>

ReadMissing(q, p) ==
    /\ m_mode[q] # "closed"
    /\ p \notin DOMAIN m_path_map[q]
    /\ Returns(q, <<"read", p>>, Missing)
    /\ UNCHANGED <<disk, exists, m_mode, directory, position, m_path_map, stream>>

\* A record that is not empty is read from the file, after a seek.
Read(q, p) ==
    LET e == directory[q][m_path_map[q][p] + 1]
    IN  /\ m_mode[q] # "closed"
        /\ p \in DOMAIN m_path_map[q]
        /\ IF e.content = <<>> THEN UNCHANGED <<disk, stream>>
           ELSE /\ disk' = Flushed(q)
                /\ stream' = [stream EXCEPT ![q] = NoStream]
        /\ Returns(q, <<"read", p>>, IF ~Extracts(disk', e, position[q]) THEN Threw
                      ELSE IF e.content = <<>> THEN <<>> ELSE BytesOf(disk', e))
        /\ UNCHANGED <<exists, m_mode, directory, position, m_path_map>>

\* The object is gone.
Forget(q, r) ==
    /\ m_mode' = [m_mode EXCEPT ![q] = "closed"]
    /\ directory' = [directory EXCEPT ![q] = <<>>]
    /\ position' = [position EXCEPT ![q] = 0]
    /\ m_path_map' = [m_path_map EXCEPT ![q] = <<>>]
    /\ stream' = [stream EXCEPT ![q] = NoStream]
    /\ Returns(q, <<"close">>, r)
    /\ UNCHANGED exists

\* The file once the first n cells of q's directory follow everything it has written.
Finalized(q, n) ==
    Overlay(Flushed(q), position[q], SubSeq(DirectoryCells(directory[q], position[q]), 1, n))

\* mz_zip_writer_finalize_archive
WithDirectory(q) == Finalized(q, Len(DirectoryCells(directory[q], position[q])))

\* close, and the destructor, which calls it.
Close(q) ==
    /\ m_mode[q] # "closed"
    /\ disk' = IF Writes(q) THEN WithDirectory(q) ELSE disk
    /\ Forget(q, IF Writes(q) THEN Saved ELSE NoReply)

\* close fails to write all of that, or the process dies in the middle of it: in
\* both cases nobody is told.
CloseFails(q) ==
    /\ Fails
    /\ Writes(q)
    /\ \/ \E k \in 0..Len(stream[q].cells) :
            disk' = Overlay(disk, stream[q].at, SubSeq(stream[q].cells, 1, k))
       \/ \E n \in 0..Len(directory[q]) + 2 : disk' = Finalized(q, n)
    /\ Forget(q, NoReply)

\* The process dies: what is in the buffer is lost.
Die(q) ==
    /\ m_mode[q] # "closed"
    /\ UNCHANGED disk
    /\ Forget(q, NoReply)

Next ==
    \E q \in Proc :
        \/ OpenWrite(q) \/ OpenRead(q) \/ OpenAppend(q)
        \/ \E mode \in {"Read", "Append"} : OpenThrows(q, mode)
        \/ \E p \in Path, c \in Content : WritePtr(q, p, c) \/ WriteFails(q, p, c)
        \/ \E p \in Path : WriteThrows(q, p) \/ Read(q, p) \/ ReadMissing(q, p)
        \/ Close(q) \/ CloseFails(q) \/ Die(q)

Spec == Init /\ [][Next]_vars

-----------------------------------------------------------------------------
(* Properties *)

\* The types of the file, the streams and the directories (ZipArchive.hpp:60-72).
TypeOK ==
    /\ disk \in Seq(Cell) /\ exists \in BOOLEAN
    /\ m_mode \in [Proc -> {"closed", "Read", "Write", "Append"}]
    /\ directory \in [Proc -> Seq(Entry)]
    /\ position \in [Proc -> Nat]
    /\ \A q \in Proc : m_path_map[q] \in [DOMAIN m_path_map[q] -> Nat]
    /\ stream \in [Proc -> [at : Nat, cells : Seq(Cell)]]
    /\ reply \in [by : Proc, op : Operation, value : Reply]

\* The index kept as records are written is the one a reader of the directory would
\* build: every path leads to its last entry, after reopening, overwriting and writes
\* that failed (ZipArchive.cpp:148-165).
IndexIsLast == \A q \in Proc : m_path_map[q] = PathMap(directory[q])
=============================================================================
