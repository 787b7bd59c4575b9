---------------------------- MODULE SqliteArchive ----------------------------
(***************************************************************************)
(* The sqlite backend (src/src/SqliteArchive.cpp): several connections to  *)
(* one database, each an archive object of its own process.  Every call of *)
(* sqlite3_step that other connections can notice is one step.             *)
(*                                                                         *)
(* What sqlite does (rollback journal, no busy handler) is modelled by     *)
(* what the backend sees of it: locks and the SQLITE_BUSY they cause, the  *)
(* private copy a transaction works on, and the rule that an INSERT that   *)
(* met SQLITE_BUSY is not over: it keeps its bindings, refuses new ones,   *)
(* blocks COMMIT, and resumes at the next step.                            *)
(***************************************************************************)
EXTENDS Naturals, Sequences, FiniteSets

CONSTANTS
    Conn,           \* connections
    Path,
    Data,           \* what chunks hold
    MaxChunks,      \* most chunks of one content
    Content,        \* what callers write: records [lz4, chunks]
    None, Missing, Damaged, Fails,
    Writers,        \* connections that write
    BulkWriters,    \* connections that use a BulkWriter
    MixesImmediate, \* they also write immediately while it is open
    ReadsInBulk,    \* they also read while it is open
    GoesOnAfterThrow \* callers go on using an archive whose write threw

Row == [size : 0..MaxChunks, lz4 : BOOLEAN]
Chunk == [lz4 : BOOLEAN, data : Data]
Tables == [file_list     : [Path -> Row \cup {None}],
           file_contents : [Path -> [1..MaxChunks -> Chunk \cup {None}]]]
Write == [path : Path, content : Content]
Request == [path : Path, content : Content, immediate : BOOLEAN]

ASSUME SqliteAssumption ==
    /\ MaxChunks \in Nat \ {0}
    /\ \A v \in Content :
         v.lz4 \in BOOLEAN /\ v.chunks \in Seq(Data) /\ Len(v.chunks) <= MaxChunks
    /\ None \notin Write \cup Request \cup Row \cup Chunk \cup Tables \cup Path
    /\ \A r \in {None, Missing, Damaged, Fails} : r \notin Seq(Data)
    /\ Fails # Missing
    /\ BulkWriters \subseteq Writers /\ Writers \subseteq Conn
    /\ {MixesImmediate, ReadsInBulk, GoesOnAfterThrow} \subseteq BOOLEAN

VARIABLES
    db,         \* the tables as committed
    pc,         \* where each connection is in the code
    readonly,   \* m_mode is Read, all that is asked of it after the constructor
    names,      \* m_fileNames, as a set
    auto,       \* autocommit: no BEGIN is in force
    lock,       \* "none", "shared", "reserved" or "pending"
    view,       \* the tables as the connection's own transaction has changed them
    bulk,       \* a BulkWriter is open
    args,       \* the arguments of the write in progress, with `immediate'
    bound,      \* what m_insert_filename_stmt, and the path of ..._contents_stmt, are bound to
    chunkidx,
    busyName,   \* m_insert_filename_stmt met SQLITE_BUSY and was neither finished nor reset
    busyChunk,  \* m_insert_contents_stmt likewise
    asked,      \* the path of the read in progress
    selected,   \* what m_select_contents_stmt is bound to for it
    unreset,    \* the path m_select_contents_stmt is still bound to, not having been reset
    reply       \* what the last read returned

writing == <<args, bound, chunkidx, busyName, busyChunk>>
reading == <<asked, selected, unreset, reply>>
vars == <<db, pc, readonly, names, auto, lock, view, bulk, writing, reading>>

-----------------------------------------------------------------------------
(* Tables: file_list has a row or None for each path, file_contents *)
(* a chunk or None for each path and chunk_idx.                                 *)

Empty == [file_list     |-> [p \in Path |-> None],
          file_contents |-> [p \in Path |-> [i \in 1..MaxChunks |-> None]]]

\* INSERT INTO file_list ... ON CONFLICT REPLACE.  Foreign keys are off unless a
\* connection asks for them: the chunks of the replaced row stay.
WithName(t, p, v) ==
    [t EXCEPT !.file_list[p] = [size |-> Len(v.chunks), lz4 |-> v.lz4]]

\* INSERT INTO file_contents ... ON CONFLICT REPLACE
WithChunk(t, p, i, c) == [t EXCEPT !.file_contents[p][i] = c]

ChunkOf(v, i) == [lz4 |-> v.lz4, data |-> v.chunks[i]]

\* The chunks that SELECT finds for p, in the order of their chunk_idx.
Rows(t, p) ==
    LET there  == {i \in 1..MaxChunks : t.file_contents[p][i] # None}
        Nth(k) == CHOOSE i \in there : Cardinality({j \in there : j <= i}) = k
    IN  [k \in 1..Cardinality(there) |-> t.file_contents[p][Nth(k)]]

\* What read makes of the rows it selects for p.
ValueIn(t, p) ==
    LET row    == t.file_list[p]
        chunks == Rows(t, p)
        data   == [i \in DOMAIN chunks |-> chunks[i].data]
        alike  == \A i \in DOMAIN chunks : chunks[i].lz4 = row.lz4
    IN  IF row = None \/ chunks = <<>> THEN Missing
        ELSE IF row.lz4 /\ (~alike \/ Len(chunks) > row.size) THEN Fails
        ELSE IF alike /\ (Len(chunks) = row.size \/ (Len(chunks) = 1 /\ ~row.lz4)) THEN data
        ELSE Damaged

-----------------------------------------------------------------------------
(* Locks *)

\* The tables a connection sees.
Visible(c) == IF view[c] = None THEN db ELSE view[c]

CanShare(c)   == lock[c] # "none" \/ \A d \in Conn \ {c} : lock[d] # "pending"
CanReserve(c) == \/ lock[c] \in {"reserved", "pending"}
                 \/ \A d \in Conn \ {c} : lock[d] \in {"none", "shared"}
CanCommit(c)  == \A d \in Conn \ {c} : lock[d] = "none"

\* Its transaction becomes the database.
Commit(c, t) ==
    /\ db' = t
    /\ view' = [view EXCEPT ![c] = None]
    /\ lock' = [lock EXCEPT ![c] = "none"]
    /\ auto' = [auto EXCEPT ![c] = TRUE]

\* COMMIT while somebody still reads: SQLITE_BUSY, and nobody new may read.
WaitForReaders(c) ==
    /\ lock' = [lock EXCEPT ![c] = "pending"]
    /\ UNCHANGED <<db, view, auto>>

At(c, from) == pc[c] = from
Goto(c, to) == pc' = [pc EXCEPT ![c] = to]

-----------------------------------------------------------------------------
Init ==
    /\ db = Empty
    /\ pc = [c \in Conn |-> "closed"]
    /\ readonly = [c \in Conn |-> TRUE]
    /\ names = [c \in Conn |-> {}]
    /\ auto = [c \in Conn |-> TRUE]
    /\ lock = [c \in Conn |-> "none"]
    /\ view = [c \in Conn |-> None]
    /\ bulk = [c \in Conn |-> FALSE]
    /\ args = [c \in Conn |-> None] /\ bound = [c \in Conn |-> None]
    /\ chunkidx = [c \in Conn |-> 1]
    /\ busyName = [c \in Conn |-> FALSE] /\ busyChunk = [c \in Conn |-> FALSE]
    /\ asked = [c \in Conn |-> None] /\ selected = [c \in Conn |-> None]
    /\ unreset = [c \in Conn |-> None] /\ reply = [c \in Conn |-> None]

\* The constructor up to the list of files.  Its statements read the schema, and
\* it throws if that is SQLITE_BUSY.  Write removes the file: only modelled when
\* nobody else has it open.
Open(c, m) ==
    /\ At(c, "closed")
    /\ CanShare(c)
    /\ m # "Read" => c \in Writers
    /\ m = "Write" => \A d \in Conn : pc[d] = "closed"
    /\ Goto(c, "listing")
    /\ readonly' = [readonly EXCEPT ![c] = (m = "Read")]
    /\ db' = IF m = "Write" THEN Empty ELSE db
    /\ UNCHANGED <<names, auto, lock, view, bulk, writing, reading>>

\* The rest of the constructor: SQLITE_BUSY ends the loop like SQLITE_DONE.
ListFiles(c) ==
    /\ At(c, "listing")
    /\ Goto(c, "idle")
    /\ names' = [names EXCEPT ![c] =
         IF CanShare(c) THEN {p \in Path : db.file_list[p] # None} ELSE {}]
    /\ UNCHANGED <<db, readonly, auto, lock, view, bulk, writing, reading>>

-----------------------------------------------------------------------------
(* writePtr *)

\* Binding fails, unnoticed, on a statement that is not over.
Bind(c, w) == IF busyName[c] THEN bound[c] ELSE w

\* The bindings, before the first step.
StartWrite(c, p, v, immediate) ==
    /\ At(c, "idle")
    /\ ~readonly[c]
    /\ IF immediate THEN bulk[c] => MixesImmediate ELSE bulk[c]
    /\ args' = [args EXCEPT ![c] = [path |-> p, content |-> v, immediate |-> immediate]]
    /\ bound' = [bound EXCEPT ![c] = Bind(c, [path |-> p, content |-> v])]
    /\ Goto(c, "filename")
    /\ UNCHANGED <<db, readonly, names, auto, lock, view, bulk, chunkidx, busyName, busyChunk,
                   reading>>

\* Mutant: an immediate write without its BEGIN.
NotBegun(c) == auto[c]

\* Autocommit after the BEGIN of an immediate write, which takes no lock and
\* fails unnoticed inside a transaction.
AutoAfterBegin(c) == auto[c] /\ ~args[c].immediate

\* An INSERT that leaves the tables t, in a transaction or as one of its own.
CanInsert(c) == CanReserve(c) /\ (AutoAfterBegin(c) => CanCommit(c))
Insert(c, t) ==
    IF AutoAfterBegin(c)
    THEN Commit(c, t)
    ELSE /\ view' = [view EXCEPT ![c] = t]
         /\ lock' = [lock EXCEPT ![c] = IF @ = "pending" THEN @ ELSE "reserved"]
         /\ auto' = [auto EXCEPT ![c] = FALSE]
         /\ UNCHANGED db

\* Mutant: one chunk too many.
AfterChunkOffByOne(c, k) ==
    IF k <= Len(args[c].content.chunks) THEN "contents"
    ELSE IF args[c].immediate THEN "commit" ELSE "idle"

\* Where writePtr goes when k chunks are inserted.
AfterChunk(c, k) ==
    IF k < Len(args[c].content.chunks) THEN "contents"
    ELSE IF args[c].immediate THEN "commit" ELSE "idle"

\* The end of writePtr resets the statements and remembers the path.
Finish(c) ==
    /\ Goto(c, "idle")
    /\ names' = [names EXCEPT ![c] = @ \cup {args[c].path}]
    /\ args' = [args EXCEPT ![c] = None] /\ bound' = [bound EXCEPT ![c] = None]
    /\ chunkidx' = [chunkidx EXCEPT ![c] = 1]
    /\ busyName' = [busyName EXCEPT ![c] = FALSE]
    /\ busyChunk' = [busyChunk EXCEPT ![c] = FALSE]

\* INSERT INTO file_list
InsertName(c) ==
    /\ At(c, "filename")
    /\ CanInsert(c)
    /\ Insert(c, WithName(Visible(c), bound[c].path, bound[c].content))
    /\ IF AfterChunk(c, 0) = "idle"
       THEN Finish(c)
       ELSE /\ Goto(c, AfterChunk(c, 0))
            /\ busyName' = [busyName EXCEPT ![c] = FALSE]
            /\ UNCHANGED <<names, args, bound, chunkidx, busyChunk>>
    /\ UNCHANGED <<readonly, bulk, reading>>

\* SQLITE_BUSY.  A bulk write tries again; an immediate one overwrites the
\* status and goes on.
InsertNameBusy(c) ==
    /\ At(c, "filename")
    /\ ~CanInsert(c)
    /\ busyName' = [busyName EXCEPT ![c] = TRUE]
    /\ auto' = [auto EXCEPT ![c] = AutoAfterBegin(c)]
    /\ Goto(c, IF args[c].immediate THEN AfterChunk(c, 0) ELSE "filename")
    /\ UNCHANGED <<db, readonly, names, lock, view, bulk, args, bound, chunkidx, busyChunk,
                   reading>>

\* INSERT INTO file_contents.  One that met SQLITE_BUSY resumes with the chunk it was
\* bound to: this one, or the first of a write that threw.
InsertChunk(c) ==
    LET i     == chunkidx[c]
        chunk == IF busyChunk[c] /\ i = 1 THEN ChunkOf(bound[c].content, 1)
                 ELSE ChunkOf(args[c].content, i)
    IN  /\ At(c, "contents")
        /\ CanInsert(c)
        /\ Insert(c, WithChunk(Visible(c), bound[c].path, i, chunk))
        /\ IF AfterChunk(c, i) = "idle"
           THEN Finish(c)
           ELSE /\ Goto(c, AfterChunk(c, i))
                /\ chunkidx' = [chunkidx EXCEPT ![c] =
                                  IF AfterChunk(c, i) = "contents" THEN i + 1 ELSE 1]
                /\ busyChunk' = [busyChunk EXCEPT ![c] = FALSE]
                /\ UNCHANGED <<names, args, bound, busyName>>
        /\ UNCHANGED <<readonly, bulk, reading>>

\* SQLITE_BUSY: a bulk write tries again, an immediate one throws.
InsertChunkBusy(c) ==
    /\ At(c, "contents")
    /\ ~CanInsert(c)
    /\ busyChunk' = [busyChunk EXCEPT ![c] = TRUE]
    /\ Goto(c, IF args[c].immediate THEN "threw" ELSE "contents")
    /\ UNCHANGED <<db, readonly, names, auto, lock, view, bulk, args, bound, chunkidx, busyName,
                   reading>>

\* COMMIT is refused while an INSERT is not over, and while others read.
InsertUnfinished(c) == busyName[c] \/ busyChunk[c]

CommitWrite(c) ==
    /\ At(c, "commit")
    /\ ~InsertUnfinished(c) /\ CanCommit(c)
    /\ Commit(c, Visible(c))
    /\ Finish(c)
    /\ UNCHANGED <<readonly, bulk, reading>>

\* Mutants: give up, or repeat the COMMIT alone.
GiveUp == "idle"
RepeatCommit == "commit"

\* Where a COMMIT that met SQLITE_BUSY leads: the whole write is repeated.
AfterBusyCommit == "filename"

CommitWriteBusy(c) ==
    /\ At(c, "commit")
    /\ InsertUnfinished(c) \/ ~CanCommit(c)
    /\ IF InsertUnfinished(c) THEN UNCHANGED <<db, auto, lock, view>> ELSE WaitForReaders(c)
    /\ Goto(c, AfterBusyCommit)
    /\ UNCHANGED <<readonly, names, bulk, writing, reading>>

\* The caller catches the exception; no statement was reset, BEGIN is in force.
GoOn(c) ==
    /\ At(c, "threw")
    /\ GoesOnAfterThrow
    /\ Goto(c, "idle")
    /\ UNCHANGED <<db, readonly, names, auto, lock, view, bulk, writing, reading>>

-----------------------------------------------------------------------------
(* Bulk writes *)

\* BEGIN; an error is ignored.
BeginBulkWrites(c) ==
    /\ At(c, "idle")
    /\ c \in BulkWriters /\ ~readonly[c] /\ ~bulk[c]
    /\ bulk' = [bulk EXCEPT ![c] = TRUE]
    /\ auto' = [auto EXCEPT ![c] = FALSE]
    /\ UNCHANGED <<db, pc, readonly, names, lock, view, writing, reading>>

\* The BulkWriter goes away.
StartEndBulkWrites(c) ==
    /\ At(c, "idle")
    /\ bulk[c]
    /\ Goto(c, "ending")
    /\ UNCHANGED <<db, readonly, names, auto, lock, view, bulk, writing, reading>>

\* COMMIT, unless an immediate write has committed already.
EndBulkWrites(c) ==
    /\ At(c, "ending")
    /\ auto[c] \/ (~InsertUnfinished(c) /\ (view[c] = None \/ CanCommit(c)))
    /\ IF auto[c] THEN UNCHANGED <<db, view, lock, auto>> ELSE Commit(c, Visible(c))
    /\ bulk' = [bulk EXCEPT ![c] = FALSE]
    /\ Goto(c, "idle")
    /\ UNCHANGED <<readonly, names, writing, reading>>

\* SQLITE_BUSY: try again.
EndBulkWritesBusy(c) ==
    /\ At(c, "ending")
    /\ ~auto[c] /\ ~InsertUnfinished(c) /\ view[c] # None /\ ~CanCommit(c)
    /\ WaitForReaders(c)
    /\ UNCHANGED <<pc, readonly, names, bulk, writing, reading>>

-----------------------------------------------------------------------------
(* read *)

\* The first step of SELECT.  Binding fails if the statement was never reset.
StartRead(c, p) ==
    /\ At(c, "idle")
    /\ bulk[c] => ReadsInBulk
    /\ CanShare(c)
    /\ lock' = [lock EXCEPT ![c] = IF @ = "none" THEN "shared" ELSE @]
    /\ asked' = [asked EXCEPT ![c] = p]
    /\ selected' = [selected EXCEPT ![c] = IF unreset[c] = None THEN p ELSE unreset[c]]
    /\ reply' = [reply EXCEPT ![c] = None]
    /\ Goto(c, "reading")
    /\ UNCHANGED <<db, readonly, names, auto, view, bulk, writing, unreset>>

\* SQLITE_BUSY: reset the statement and throw.
StartReadBusy(c) ==
    /\ At(c, "idle")
    /\ bulk[c] => ReadsInBulk
    /\ ~CanShare(c)
    /\ unreset' = [unreset EXCEPT ![c] = None]
    /\ UNCHANGED <<db, pc, readonly, names, auto, lock, view, bulk, writing, asked, selected, reply>>

\* Mutant: no reset at all.
NeverReset(c, value) == selected[c]

\* What the statement stays bound to: decompression throws before the reset.
BoundAfterRead(c, value) == IF value = Fails THEN selected[c] ELSE None

\* The other steps.  The last ends the read transaction, if it is its own.
FinishRead(c) ==
    /\ At(c, "reading")
    /\ reply' = [reply EXCEPT ![c] = ValueIn(Visible(c), selected[c])]
    /\ lock' = [lock EXCEPT ![c] = IF auto[c] THEN "none" ELSE @]
    /\ unreset' = [unreset EXCEPT ![c] = BoundAfterRead(c, reply'[c])]
    /\ asked' = [asked EXCEPT ![c] = None] /\ selected' = [selected EXCEPT ![c] = None]
    /\ Goto(c, "idle")
    /\ UNCHANGED <<db, readonly, names, auto, view, bulk, writing>>

-----------------------------------------------------------------------------
\* The connection is gone, its transaction rolled back.
Forget(c) ==
    /\ Goto(c, "closed")
    /\ readonly' = [readonly EXCEPT ![c] = TRUE]
    /\ names' = [names EXCEPT ![c] = {}]
    /\ auto' = [auto EXCEPT ![c] = TRUE]
    /\ lock' = [lock EXCEPT ![c] = "none"]
    /\ view' = [view EXCEPT ![c] = None]
    /\ bulk' = [bulk EXCEPT ![c] = FALSE]
    /\ args' = [args EXCEPT ![c] = None] /\ bound' = [bound EXCEPT ![c] = None]
    /\ chunkidx' = [chunkidx EXCEPT ![c] = 1]
    /\ busyName' = [busyName EXCEPT ![c] = FALSE]
    /\ busyChunk' = [busyChunk EXCEPT ![c] = FALSE]
    /\ asked' = [asked EXCEPT ![c] = None] /\ selected' = [selected EXCEPT ![c] = None]
    /\ unreset' = [unreset EXCEPT ![c] = None] /\ reply' = [reply EXCEPT ![c] = None]
    /\ UNCHANGED db

\* close finalizes the statements and closes the connection.
Close(c) == pc[c] \in {"idle", "threw"} /\ Forget(c)

\* The process dies between two steps.
Die(c) == pc[c] \notin {"closed", "idle", "threw"} /\ Forget(c)

-----------------------------------------------------------------------------
\* What a call does once it has begun, in the caller's thread.
Step(c) ==
    \/ ListFiles(c)
    \/ InsertName(c) \/ InsertNameBusy(c)
    \/ InsertChunk(c) \/ InsertChunkBusy(c)
    \/ CommitWrite(c) \/ CommitWriteBusy(c)
    \/ EndBulkWrites(c) \/ EndBulkWritesBusy(c)
    \/ FinishRead(c)

Call(c) ==
    \/ \E m \in {"Read", "Write", "Append"} : Open(c, m)
    \/ \E p \in Path, v \in Content, immediate \in BOOLEAN : StartWrite(c, p, v, immediate)
    \/ \E p \in Path : StartRead(c, p)
    \/ StartReadBusy(c)
    \/ GoOn(c)
    \/ BeginBulkWrites(c) \/ StartEndBulkWrites(c)
    \/ Close(c)

Next == \E c \in Conn : Call(c) \/ Step(c) \/ Die(c)

Spec == Init /\ [][Next]_vars

\* A call that has begun goes on; callers need not make any.
FairSpec == Spec /\ \A c \in Conn : WF_vars(Step(c))

\* The most one could hope for: no loop on SQLITE_BUSY misses its chances for
\* ever, and callers end the BulkWriters they open.
PatientSpec ==
    /\ FairSpec
    /\ \A c \in Conn :
         /\ SF_vars(InsertName(c)) /\ SF_vars(InsertChunk(c))
         /\ SF_vars(CommitWrite(c)) /\ SF_vars(EndBulkWrites(c))
         /\ SF_vars(StartEndBulkWrites(c))

-----------------------------------------------------------------------------
(* Properties *)

\* The types of the state, and that a connection in the middle of a write has
\* arguments for it (SqliteArchive.hpp:51-67, SqliteArchive.cpp:219-345).
TypeOK ==
    /\ db \in Tables
    /\ view \in [Conn -> Tables \cup {None}]
    /\ lock \in [Conn -> {"none", "shared", "reserved", "pending"}]
    /\ names \in [Conn -> SUBSET Path]
    /\ \A f \in {readonly, auto, bulk, busyName, busyChunk} : f \in [Conn -> BOOLEAN]
    /\ chunkidx \in [Conn -> 1..MaxChunks]
    /\ args \in [Conn -> Request \cup {None}]
    /\ bound \in [Conn -> Write \cup {None}]
    /\ \A c \in Conn :
         /\ pc[c] \in {"filename", "contents", "commit", "threw"} => args[c] # None
         /\ pc[c] \in {"closed", "listing"} => args[c] = None
         /\ pc[c] = "contents" => chunkidx[c] <= Len(args[c].content.chunks)
    /\ \A f \in {asked, selected, unreset} : f \in [Conn -> Path \cup {None}]

\* Between its calls, with no BulkWriter open, a connection holds no lock and no
\* transaction, so that nobody waits for it, unless one of its writes has thrown
\* (SqliteArchive.cpp:288-345, 354-359, 439).
NothingHeld ==
    \A c \in Conn :
        pc[c] \in {"closed", "idle"} /\ ~bulk[c] /\ ~InsertUnfinished(c) =>
            auto[c] /\ lock[c] = "none" /\ view[c] = None

\* "Because transactions are atomic, sqlite databases are robust to process death"
\* (doc/source/backends.rst:47-48): whatever connection dies wherever, what the
\* database holds for a path is some content that was written, whole.
NeverTorn ==
    \A p \in Path : ValueIn(db, p) \in {v.chunks : v \in Content} \cup {Missing}

\* When an immediate write returns, its content is in the database for everybody
\* (SqliteArchive.hpp:33-37, test/test_gtar.py:128-136).  Empty contents leave no
\* chunk, and read back like a path that is not there.
WriteStored ==
    [][\A c \in Conn :
         pc[c] = "commit" /\ pc'[c] = "idle" =>
            \/ ValueIn(db', args[c].path) = args[c].content.chunks
            \/ args[c].content.chunks = <<>> /\ ValueIn(db', args[c].path) = Missing]_vars

\* "Read the contents of the given location within the archive"
\* (SqliteArchive.hpp:42-43): a read returns what is there for the path it was
\* asked for, in its own transaction, whatever happened to the statement before.
ReadsAsked ==
    [][\A c \in Conn :
         pc[c] = "reading" /\ pc'[c] = "idle" =>
            reply'[c] = ValueIn(Visible(c), asked[c])]_vars

\* "Unconditionally populate the file list" (SqliteArchive.cpp:152-154): an opened
\* archive knows every path of the database.
ListsAll ==
    [][\A c \in Conn :
         pc[c] = "listing" /\ pc'[c] = "idle" =>
            {p \in Path : db.file_list[p] # None} \subseteq names'[c]]_vars

InWrite(c) == pc[c] \in {"filename", "contents", "commit", "ending"}

\* A write, and the end of a BulkWriter, which "causes all writes to be performed"
\* (GTAR.hpp:65-67), return or throw in the end, whatever the loops on
\* SQLITE_BUSY wait for (SqliteArchive.cpp:288-326, 354-359).
WriteEnds == \A c \in Conn : InWrite(c) ~> ~InWrite(c)
=============================================================================
