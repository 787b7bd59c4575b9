-------------------------------- MODULE Gtar --------------------------------
(***************************************************************************)
(* The front end (src/src/GTAR.cpp, and src/gtar/_gtar.pyx, which wraps    *)
(* it): one GTAR object of one process at a time over an archive that      *)
(* keeps the promise of Archive.  The object caches a record for every     *)
(* path; queries answer from that cache, reads go to the archive.          *)
(*                                                                         *)
(* m_records, a map from records without index to sets of indices, is the  *)
(* set of the records with their indices.                                  *)
(***************************************************************************)
EXTENDS Record

CONSTANTS
    Path,           \* paths of archives
    CallerPath,     \* those that callers write
    Value, Missing, Damaged, NoReply, Synced, None,
    MaxPending,     \* bounds the writes a BulkWriter leaves in buffers
    OthersRace,     \* other processes write while the constructor runs
    ReadsTypedClosed, \* callers use readIndividual or readUniform after close
    WriterOutlives  \* callers keep a BulkWriter longer than its archive

ASSUME GtarAssumption ==
    /\ CallerPath \subseteq Path
    /\ \A p \in Path : p \in Seq(Seq(STRING)) \ {<<>>}
    /\ \A p \in CallerPath : GetPath(RecordOf(p)) \in Path
    /\ {Missing, Damaged, NoReply, Synced, None} \cap Value = {}
    /\ Missing # Damaged
    /\ MaxPending \in Nat
    /\ {OthersRace, ReadsTypedClosed, WriterOutlives} \subseteq BOOLEAN

VARIABLES
    session, stored, pending, broken, reply,    \* the archive: see Archive
    exists,     \* the file is there and not empty
    object,     \* the GTAR object, or what became of the process
    asked,      \* the mode the constructor was called with
    realMode,   \* the mode it opens the backend in
    m_records,
    writer,     \* a BulkWriter is alive
    iter        \* the generator recordsNamed returned: the record, the frames to come

archive == <<session, stored, pending, broken, reply>>
vars == <<archive, exists, object, asked, realMode, m_records, writer, iter>>

A == INSTANCE Archive

-----------------------------------------------------------------------------
(* Queries, from the cache *)

\* Mutant: insertRecord keeps the index in the key of the map.
TypesWithIndex == m_records

GetRecordTypes == {WithNullifiedIndex(r) : r \in m_records}

QueryFrames(target) ==
    {r.index : r \in {s \in m_records : WithNullifiedIndex(s) = WithNullifiedIndex(target)}}

\* What a caller finds by asking for the frames of every record type.
Enumerated == UNION {{GetPath(WithIndex(t, f)) : f \in QueryFrames(t)} : t \in GetRecordTypes}

\* The record types with a name, in the groups a filter lets through.
Named(name, groups) == {t \in GetRecordTypes : t.name = name /\ t.group \in groups}

\* Mutant: union instead of intersection.
FramesOfAny(recs) == UNION {QueryFrames(t) : t \in recs}

\* The frames all of some records have.
FramesOfAll(recs) ==
    {f \in FramesOfAny(recs) : \A t \in recs : f \in QueryFrames(t)}

-----------------------------------------------------------------------------
Init ==
    /\ A!Init
    /\ exists \in BOOLEAN
    /\ exists \/ stored = A!Empty
    /\ object = "none"
    /\ asked = "Read" /\ realMode = "Read"
    /\ m_records = {}
    /\ writer = FALSE
    /\ iter = None

\* Mutant: never look for the file.
AlwaysAnew(mode) == IF mode = "Append" THEN "Write" ELSE mode

\* Appending to a file that is missing or empty is writing a new one.
RealMode(mode) == IF mode = "Append" /\ ~exists THEN "Write" ELSE mode

\* The first half of the constructor looks at the file ...
Stat(mode) ==
    /\ object = "none" /\ ~writer
    /\ object' = "opening"
    /\ asked' = mode
    /\ realMode' = RealMode(mode)
    /\ UNCHANGED <<archive, exists, m_records, writer, iter>>

\* ... and the second opens it and makes a record of every path.
Construct ==
    /\ object = "opening"
    /\ A!Open(realMode)
    /\ object' = "open"
    /\ exists' = (exists \/ realMode # "Read")
    /\ m_records' = {RecordOf(p) : p \in {q \in Path : stored'[q] # Missing}}
    /\ UNCHANGED <<asked, realMode, writer, iter>>

\* Most backends throw when there is no file to read.
ConstructThrows ==
    /\ object = "opening"
    /\ realMode = "Read" /\ ~exists
    /\ object' = "none"
    /\ UNCHANGED <<archive, exists, asked, realMode, m_records, writer, iter>>

\* Another process writes an archive of its own at the same place, or to this one.
OtherProcess(p, v) ==
    /\ object \in IF OthersRace THEN {"none", "opening"} ELSE {"none"}
    /\ exists' = TRUE
    /\ stored' = [stored EXCEPT ![p] = v]
    /\ UNCHANGED <<session, pending, broken, reply, object, asked, realMode, m_records, writer,
                   iter>>

-----------------------------------------------------------------------------
(* Writes *)

\* Mutant: a write that leaves the cache alone.
NotInserted(p) == m_records

\* insertRecord
Inserted(p) == m_records \cup {RecordOf(p)}

\* Writes are immediate, or go through a BulkWriter.
Put(p, v, immediate) ==
    /\ object = "open"
    /\ immediate \/ writer
    /\ Len(pending) < MaxPending
    /\ A!WritePtr(p, v, immediate)
    /\ m_records' = Inserted(p)
    /\ UNCHANGED <<exists, object, asked, realMode, writer, iter>>

\* writeStr, writeBytes, writeArray write to the path they are given, writePath and
\* writeRecord to that of its record.
Write(p, v, immediate) == Put(p, v, immediate) \/ Put(GetPath(RecordOf(p)), v, immediate)

\* The backend throws before insertRecord.
WriteThrows ==
    /\ object = "open"
    /\ A!WriteRefused
    /\ UNCHANGED <<exists, object, asked, realMode, m_records, writer, iter>>

BeginBulkWrites ==
    /\ object = "open" /\ ~writer
    /\ writer' = TRUE
    /\ UNCHANGED <<archive, exists, object, asked, realMode, m_records, iter>>

EndBulkWrites ==
    /\ object = "open" /\ writer
    /\ A!EndBulkWrites
    /\ writer' = FALSE
    /\ UNCHANGED <<exists, object, asked, realMode, m_records, iter>>

\* ~BulkWriter of an archive that is closed throws, out of a destructor; of one that
\* is gone it uses freed memory.
EndBulkWritesLate ==
    /\ object \in {"closed", "none"} /\ writer
    /\ object' = "terminated"
    /\ UNCHANGED <<archive, exists, asked, realMode, m_records, writer, iter>>

-----------------------------------------------------------------------------
(* Reads *)

\* A path no archive has is Missing.
ReadAt(p) ==
    IF p \in Path THEN A!Read(p)
    ELSE reply' = Missing /\ UNCHANGED <<session, stored, pending, broken>>

\* readBytes, readStr and readPath
Read(p) ==
    /\ object = "open"
    /\ ReadAt(p) \/ ReadAt(GetPath(RecordOf(p)))
    /\ UNCHANGED <<exists, object, asked, realMode, m_records, writer, iter>>

\* staticRecordNamed reads one of the records with the name, without index.
StaticRecordNamed(t) ==
    /\ object = "open"
    /\ t \in GetRecordTypes
    /\ ReadAt(GetPath(t))
    /\ UNCHANGED <<exists, object, asked, realMode, m_records, writer, iter>>

\* readIndividual and readUniform do not look whether the archive is closed.
ReadTypedClosed ==
    /\ object = "closed"
    /\ ReadsTypedClosed
    /\ object' = "crashed"
    /\ UNCHANGED <<archive, exists, asked, realMode, m_records, writer, iter>>

\* recordsNamed with one name: one of the records with the name, and its frames as
\* they are now.
RecordsNamed(t) ==
    /\ object = "open"
    /\ iter = None
    /\ t \in GetRecordTypes
    /\ iter' = [rec |-> t, frames |-> QueryFrames(t)]
    /\ UNCHANGED <<archive, exists, object, asked, realMode, m_records, writer>>

\* Mutant: the generator reads the record itself.
WithoutFrame(t, f) == t

\* getRecord prefers the index it is given.
InFrame(t, f) == WithIndex(t, f)

\* Its next value.
NextRecord(f) ==
    /\ object = "open"
    /\ iter # None
    /\ f \in iter.frames
    /\ ReadAt(GetPath(InFrame(iter.rec, f)))
    /\ iter' = [iter EXCEPT !.frames = @ \ {f}]
    /\ UNCHANGED <<exists, object, asked, realMode, m_records, writer>>

\* It ends, the caller drops it, or it meets the exception of a closed archive.
DropIterator ==
    /\ iter # None
    /\ iter' = None
    /\ UNCHANGED <<archive, exists, object, asked, realMode, m_records, writer>>

-----------------------------------------------------------------------------
\* m_archive goes away, the cache stays.
Close ==
    /\ object = "open"
    /\ writer => WriterOutlives
    /\ A!Close
    /\ object' = "closed"
    /\ UNCHANGED <<exists, asked, realMode, m_records, writer, iter>>

\* The object goes away, which closes it.
Destroy ==
    /\ object \in {"open", "closed"}
    /\ writer => WriterOutlives
    /\ IF object = "open" THEN A!Close ELSE UNCHANGED archive
    /\ object' = "none"
    /\ m_records' = {} /\ iter' = None
    /\ UNCHANGED <<exists, asked, realMode, writer>>

\* The process dies.  What it has written may be an empty file.
Die ==
    /\ object = "open"
    /\ A!Die
    /\ IF stored' = A!Empty THEN exists' \in BOOLEAN ELSE UNCHANGED exists
    /\ object' = "none"
    /\ m_records' = {} /\ writer' = FALSE /\ iter' = None
    /\ UNCHANGED <<asked, realMode>>

Next ==
    \/ \E m \in A!Mode : Stat(m)
    \/ Construct \/ ConstructThrows
    \/ \E p \in CallerPath, v \in Value : OtherProcess(p, v)
    \/ \E p \in CallerPath, v \in Value, immediate \in BOOLEAN : Write(p, v, immediate)
    \/ WriteThrows
    \/ BeginBulkWrites \/ EndBulkWrites \/ EndBulkWritesLate
    \/ \E p \in CallerPath : Read(p)
    \/ \E t \in GetRecordTypes : StaticRecordNamed(t) \/ RecordsNamed(t)
    \/ ReadTypedClosed
    \/ IF iter = None THEN FALSE ELSE \E f \in iter.frames : NextRecord(f)
    \/ DropIterator
    \/ Close \/ Destroy \/ Die

Spec == Init /\ [][Next]_vars

-----------------------------------------------------------------------------
(* Properties *)

\* The paths a read finds.
Present == {p \in Path : A!Visible[p] # Missing}

\* The types of the front end's own state; an archive is open exactly while the object
\* holds one, and the records queries return "will all have empty indices"
\* (GTAR.hpp:133-134, 171-176, GTAR.cpp:65-100).
TypeOK ==
    /\ exists \in BOOLEAN /\ writer \in BOOLEAN
    /\ object \in {"none", "opening", "open", "closed", "crashed", "terminated"}
    /\ {asked, realMode} \subseteq A!Mode
    /\ m_records \subseteq {RecordOf(p) : p \in Path}
    /\ (session # "closed") <=> (object = "open")
    /\ object = "open" => session = realMode
    /\ Len(pending) <= MaxPending
    /\ iter # None =>
         /\ iter.rec \in GetRecordTypes /\ iter.rec.index = NoText
         /\ iter.frames \subseteq QueryFrames(iter.rec)

\* "Query all of the records in the archive" (GTAR.hpp:133-138): what getRecordTypes
\* and queryFrames enumerate, as gtar/cat.py does to copy an archive, are the paths of
\* the archive, those just written included, none that are not there, each once.
Cataloged ==
    object = "open" /\ ~broken => Enumerated = Present

\* The frames that hold records of all the names, by the paths of the archive.
FramesHolding(names, groups) ==
    LET in(name) == {RecordOf(p).index : p \in
            {q \in Present : RecordOf(q).name = name /\ RecordOf(q).group \in groups}}
    IN  {f \in UNION {in(n) : n \in names} : \A n \in names : f \in in(n)}

Names == {RecordOf(p).name : p \in CallerPath}
Groups == {RecordOf(p).group : p \in CallerPath}

\* Whichever record type is taken for each name, framesWithRecordsNamed finds the right
\* frames.
FindsFrames(names, groups) ==
    \A choice \in [names -> GetRecordTypes] :
        (\A n \in names : choice[n] \in Named(n, groups)) =>
            FramesOfAll({choice[n] : n \in names}) = FramesHolding(names, groups)

\* framesWithRecordsNamed and recordsNamed (_gtar.pyx:644-731) find each frame "which
\* contains records matching each of the given names", when no name belongs to
\* records of two types.
FramesFound ==
    object = "open" /\ ~broken =>
        \A names \in SUBSET Names \ {{}}, groups \in SUBSET Groups :
            (\A n \in names : \A s, t \in Named(n, groups) : s = t) =>
                FindsFrames(names, groups)

\* The same for every name: "(frame, [val[frame] for val in names]) for each frame which
\* contains records matching each of the given names" (_gtar.pyx:682-684).
AllFramesFound ==
    object = "open" /\ ~broken =>
        \A names \in SUBSET Names \ {{}}, groups \in SUBSET Groups :
            (\A n \in names : Named(n, groups) # {}) => FindsFrames(names, groups)

\* recordsNamed gives its frames one at a time, while the caller writes: each value is
\* what the archive holds at that moment, for a record with the name and the frame
\* (_gtar.pyx:726-731).
YieldsStored ==
    [][iter # None /\ iter' # None /\ ~broken' =>
         \A f \in iter.frames \ iter'.frames :
            \E p \in Present :
                /\ RecordOf(p) = WithIndex(iter.rec, f)
                /\ A!Visible[p] \in {reply', Damaged}]_vars

\* "Returns a static record with the given name", or raises "Can't find a static record"
\* (_gtar.pyx:733-750): what staticRecordNamed reads is in the archive.
StaticRecordsExist ==
    object = "open" /\ ~broken => \A t \in GetRecordTypes : GetPath(t) \in Present

\* "A file will be opened for writing, adding to the end of a file if it already exists"
\* (_gtar.pyx:399): opening for append keeps what is there when the file is opened.
AppendKeeps ==
    [][object = "opening" /\ object' = "open" /\ asked = "Append" =>
         \A p \in Path : stored[p] # Missing => stored'[p] = stored[p]]_vars

\* "throw when reading from a closed archive" (test/test_gtar.py:142): no call on a
\* closed object does worse.
ClosedThrows == object # "crashed"

\* "Clean up the BulkWriter data. Causes all writes to be performed." (GTAR.hpp:65-67):
\* the end of a BulkWriter does not end the process.
WritersEndWell == object # "terminated"
=============================================================================
