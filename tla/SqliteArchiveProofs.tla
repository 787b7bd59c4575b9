------------------------- MODULE SqliteArchiveProofs -------------------------
(***************************************************************************)
(* What holds of the sqlite backend for any number of connections, paths   *)
(* and contents.  Whatever callers do: its types, and that between its     *)
(* calls a connection holds nothing that others wait for.  When they keep  *)
(* to what the runs show to be necessary: that no path is ever half        *)
(* written, that writes are stored and reads return what is there, and     *)
(* that the connections implement SharedStore.                             *)
(***************************************************************************)
EXTENDS SqliteArchiveRefinement, FiniteSetTheorems, TLAPS

-----------------------------------------------------------------------------
(* The inductive invariant *)

Places == {"closed", "listing", "idle", "filename", "contents", "commit", "threw",
           "ending", "reading"}

TableTypes ==
    /\ db \in Tables
    /\ view \in [Conn -> Tables \cup {None}]
    /\ lock \in [Conn -> {"none", "shared", "reserved", "pending"}]
    /\ auto \in [Conn -> BOOLEAN]

WriteTypes ==
    /\ pc \in [Conn -> Places]
    /\ names \in [Conn -> SUBSET Path]
    /\ args \in [Conn -> Request \cup {None}]
    /\ bound \in [Conn -> Write \cup {None}]
    /\ chunkidx \in [Conn -> 1..MaxChunks]
    /\ busyName \in [Conn -> BOOLEAN] /\ busyChunk \in [Conn -> BOOLEAN]

OtherTypes ==
    /\ readonly \in [Conn -> BOOLEAN] /\ bulk \in [Conn -> BOOLEAN]
    /\ asked \in [Conn -> Path \cup {None}]
    /\ selected \in [Conn -> Path \cup {None}]
    /\ unreset \in [Conn -> Path \cup {None}]

\* Outside a transaction a connection holds a lock only while it reads.
Released(c) ==
    auto[c] => view[c] = None /\ lock[c] = (IF pc[c] = "reading" THEN "shared" ELSE "none")

\* A transaction is a BulkWriter's, or one of a write that goes on, or of one that threw.
Explained(c) ==
    ~auto[c] => bulk[c] \/ InsertUnfinished(c) \/ pc[c] \in {"filename", "contents", "commit"}

\* Where an immediate write has come past its BEGIN, and others are under a BulkWriter's.
Begun(c) ==
    /\ pc[c] \in {"filename", "contents"} /\ ~args[c].immediate => bulk[c]
    /\ pc[c] = "contents" /\ args[c].immediate => ~auto[c]
    /\ pc[c] = "commit" => args[c].immediate /\ ~auto[c]
    /\ pc[c] = "threw" => busyChunk[c]
    /\ pc[c] = "ending" => bulk[c]

\* The arguments of a write are kept until it ends.
Requested(c) ==
    /\ pc[c] \in {"filename", "contents", "commit", "threw"} => args[c] # None /\ bound[c] # None
    /\ pc[c] \in {"closed", "listing"} => args[c] = None

HasChunks(w) == Len(w.content.chunks) > 0

\* There is a chunk to insert, in the content that is bound too.  Only its first chunk can
\* meet a lock when a write is immediate, for then it has one itself.
InChunks(c) ==
    /\ pc[c] = "contents" => chunkidx[c] <= Len(args[c].content.chunks) /\ HasChunks(bound[c])
    /\ pc[c] = "contents" /\ args[c].immediate /\ chunkidx[c] # 1 => lock[c] \in {"reserved", "pending"}
    /\ pc[c] # "contents" => chunkidx[c] = 1
    /\ pc[c] \in {"filename", "commit"} /\ HasChunks(args[c]) => HasChunks(bound[c])
    /\ busyName[c] /\ pc[c] \notin {"filename", "contents", "commit"} =>
         bound[c] # None /\ HasChunks(bound[c])

Shape(c) == Released(c) /\ Explained(c) /\ Begun(c) /\ Requested(c) /\ InChunks(c)

IInv == TableTypes /\ WriteTypes /\ OtherTypes /\ \A c \in Conn : Shape(c)

LEMMA Strong ==
    ASSUME IInv
    PROVE  TypeOK /\ NothingHeld
<1>1. \A c \in Conn : Shape(c)
  BY DEF IInv
<1>2. TypeOK
  BY <1>1 DEF IInv, TypeOK, TableTypes, WriteTypes, OtherTypes, Shape, Requested, InChunks
<1>3. NothingHeld
  <2>. SUFFICES ASSUME NEW c \in Conn, pc[c] \in {"closed", "idle"}, ~bulk[c], ~InsertUnfinished(c)
                PROVE  auto[c] /\ lock[c] = "none" /\ view[c] = None
    BY DEF NothingHeld
  <2>. QED
    BY <1>1 DEF Shape, Released, Explained
<1>. QED
  BY <1>2, <1>3

-----------------------------------------------------------------------------
(* Steps of one connection *)

\* A step leaves what Shape looks at as it is.
Same(c) ==
    /\ pc'[c] = pc[c] /\ auto'[c] = auto[c] /\ lock'[c] = lock[c] /\ view'[c] = view[c]
    /\ bulk'[c] = bulk[c] /\ args'[c] = args[c] /\ bound'[c] = bound[c]
    /\ chunkidx'[c] = chunkidx[c] /\ busyName'[c] = busyName[c] /\ busyChunk'[c] = busyChunk[c]

LEMMA SameShape ==
    ASSUME NEW c \in Conn, Shape(c), Same(c)
    PROVE  Shape(c)'
BY DEF Shape, Same, Released, Explained, Begun, Requested, InChunks, HasChunks, InsertUnfinished

\* A step of one connection is of no concern to the others.
LEMMA StepOfOne ==
    ASSUME IInv, NEW c \in Conn, TableTypes', WriteTypes', OtherTypes', Shape(c)',
           \A d \in Conn \ {c} : Same(d)
    PROVE  IInv'
<1>1. ASSUME NEW d \in Conn
      PROVE  Shape(d)'
  <2>1. CASE d = c
    BY <2>1
  <2>2. CASE d # c
    BY <2>2, SameShape DEF IInv
  <2>. QED
    BY <2>1, <2>2
<1>. QED
  BY <1>1 DEF IInv

-----------------------------------------------------------------------------
(* Tables *)

LEMMA ContentOf ==
    ASSUME NEW v \in Content
    PROVE  v.lz4 \in BOOLEAN /\ v.chunks \in Seq(Data) /\ Len(v.chunks) \in 0..MaxChunks
BY SqliteAssumption

LEMMA EmptyIsTables == Empty \in Tables
BY DEF Empty, Tables

LEMMA WithNameIsTables ==
    ASSUME NEW t \in Tables, NEW p \in Path, NEW v \in Content
    PROVE  WithName(t, p, v) \in Tables
<1>. DEFINE row == [size |-> Len(v.chunks), lz4 |-> v.lz4]
<1>1. row \in Row
  BY ContentOf DEF Row
<1>. HIDE DEF row, Row
<1>2. [t EXCEPT !.file_list[p] = row] \in Tables
  BY <1>1 DEF Tables
<1>. QED
  BY <1>2 DEF WithName, row

LEMMA WithChunkIsTables ==
    ASSUME NEW t \in Tables, NEW p \in Path, NEW i \in 1..MaxChunks, NEW x \in Chunk
    PROVE  WithChunk(t, p, i, x) \in Tables
<1>. HIDE DEF Chunk
<1>1. /\ t.file_contents \in [Path -> [1..MaxChunks -> Chunk \cup {None}]]
      /\ t.file_list \in [Path -> Row \cup {None}]
      /\ t = [file_list |-> t.file_list, file_contents |-> t.file_contents]
  BY DEF Tables
<1>2. [t.file_contents[p] EXCEPT ![i] = x] \in [1..MaxChunks -> Chunk \cup {None}]
  BY <1>1
<1>. DEFINE all == [t.file_contents EXCEPT ![p] = [t.file_contents[p] EXCEPT ![i] = x]]
<1>3. all \in [Path -> [1..MaxChunks -> Chunk \cup {None}]]
  BY <1>1, <1>2
<1>4. WithChunk(t, p, i, x) = [file_list |-> t.file_list, file_contents |-> all]
  <2>1. ASSUME NEW rows, NEW chunks
        PROVE  WithChunk([file_list |-> rows, file_contents |-> chunks], p, i, x) =
                 [file_list     |-> rows,
                  file_contents |-> [chunks EXCEPT ![p] = [chunks[p] EXCEPT ![i] = x]]]
    BY DEF WithChunk
  <2>. QED
    BY <1>1, <2>1
<1>. HIDE DEF all
<1>. QED
  BY <1>1, <1>3, <1>4 DEF Tables

LEMMA ChunkOfIsChunk ==
    ASSUME NEW v \in Content, NEW i \in 1..Len(v.chunks)
    PROVE  ChunkOf(v, i) \in Chunk
<1>1. v.lz4 \in BOOLEAN /\ v.chunks[i] \in Data
  BY ContentOf
<1>. QED
  BY <1>1 DEF ChunkOf, Chunk

LEMMA VisibleIsTables ==
    ASSUME TableTypes, NEW c \in Conn
    PROVE  Visible(c) \in Tables
BY DEF TableTypes, Visible

-----------------------------------------------------------------------------
(* The parts that steps are made of *)

SameTables(c) == auto'[c] = auto[c] /\ lock'[c] = lock[c] /\ view'[c] = view[c]

LEMMA CommitHolds ==
    ASSUME TableTypes, NEW c \in Conn, NEW t \in Tables, Commit(c, t)
    PROVE  /\ TableTypes'
           /\ auto'[c] /\ view'[c] = None /\ lock'[c] = "none"
           /\ \A d \in Conn \ {c} : SameTables(d)
<1>. HIDE DEF Tables
<1>. QED
  BY DEF TableTypes, Commit, SameTables

\* An INSERT is in a transaction or commits, and leaves the locks accordingly.
LEMMA InsertHolds ==
    ASSUME TableTypes, NEW c \in Conn, NEW t \in Tables, Insert(c, t)
    PROVE  /\ TableTypes'
           /\ IF AutoAfterBegin(c) THEN auto'[c] /\ view'[c] = None /\ lock'[c] = "none"
              ELSE ~auto'[c] /\ lock'[c] \in {"reserved", "pending"}
           /\ \A d \in Conn \ {c} : SameTables(d)
<1>1. CASE AutoAfterBegin(c)
  BY <1>1, CommitHolds DEF Insert
<1>2. CASE ~AutoAfterBegin(c)
  <2>. HIDE DEF Tables
  <2>1. /\ view' = [view EXCEPT ![c] = t]
        /\ lock' = [lock EXCEPT ![c] = IF lock[c] = "pending" THEN lock[c] ELSE "reserved"]
        /\ auto' = [auto EXCEPT ![c] = FALSE]
        /\ db' = db
    BY <1>2 DEF Insert
  <2>. QED
    BY <1>2, <2>1 DEF TableTypes, SameTables
<1>. QED
  BY <1>1, <1>2

LEMMA WaitHolds ==
    ASSUME TableTypes, NEW c \in Conn, WaitForReaders(c)
    PROVE  /\ TableTypes'
           /\ auto'[c] = auto[c] /\ view'[c] = view[c] /\ lock'[c] = "pending"
           /\ \A d \in Conn \ {c} : SameTables(d)
BY DEF TableTypes, WaitForReaders, SameTables

SameWrite(c) ==
    /\ pc'[c] = pc[c] /\ args'[c] = args[c] /\ bound'[c] = bound[c]
    /\ chunkidx'[c] = chunkidx[c] /\ busyName'[c] = busyName[c] /\ busyChunk'[c] = busyChunk[c]

LEMMA FinishHolds ==
    ASSUME WriteTypes, NEW c \in Conn, args[c] # None, Finish(c)
    PROVE  /\ WriteTypes'
           /\ pc'[c] = "idle" /\ args'[c] = None /\ bound'[c] = None /\ chunkidx'[c] = 1
           /\ ~busyName'[c] /\ ~busyChunk'[c]
           /\ \A d \in Conn \ {c} : SameWrite(d)
<1>1. args[c].path \in Path
  BY DEF WriteTypes, Request
<1>2. 1 \in 1..MaxChunks
  BY SqliteAssumption
<1>. HIDE DEF Request, Write
<1>. QED
  BY <1>1, <1>2 DEF WriteTypes, Finish, Goto, SameWrite, Places

\* A write between its calls: what it was asked for, and where it can go.
LEMMA Asked ==
    ASSUME WriteTypes, NEW c \in Conn, args[c] # None, bound[c] # None
    PROVE  /\ args[c].path \in Path /\ args[c].content \in Content
           /\ args[c].immediate \in BOOLEAN
           /\ bound[c].path \in Path /\ bound[c].content \in Content
           /\ Len(args[c].content.chunks) \in 0..MaxChunks
           /\ Len(bound[c].content.chunks) \in 0..MaxChunks
<1>1. args[c] \in Request /\ bound[c] \in Write
  BY DEF WriteTypes
<1>2. /\ args[c].path \in Path /\ args[c].content \in Content /\ args[c].immediate \in BOOLEAN
      /\ bound[c].path \in Path /\ bound[c].content \in Content
  BY <1>1 DEF Request, Write
<1>. QED
  BY <1>2, ContentOf

-----------------------------------------------------------------------------
(* The steps: opening *)

LEMMA OpenHolds ==
    ASSUME IInv, NEW c \in Conn, NEW m, Open(c, m)
    PROVE  IInv'
<1>1. TableTypes'
  BY EmptyIsTables DEF IInv, TableTypes, Open
<1>2. WriteTypes' /\ OtherTypes' /\ pc'[c] = "listing"
  BY DEF IInv, WriteTypes, OtherTypes, Open, Goto, Places, writing, reading
<1>3. \A d \in Conn \ {c} : Same(d)
  BY DEF IInv, WriteTypes, Open, Goto, Same, writing
<1>4. Shape(c)'
  BY <1>2 DEF IInv, Open, At, writing, HasChunks, InsertUnfinished, Shape, Released, Explained, Begun, Requested, InChunks
<1>. QED
  BY <1>1, <1>2, <1>3, <1>4, StepOfOne

LEMMA ListFilesHolds ==
    ASSUME IInv, NEW c \in Conn, ListFiles(c)
    PROVE  IInv'
<1>1. TableTypes' /\ OtherTypes'
  BY DEF IInv, TableTypes, OtherTypes, ListFiles, reading
<1>2. WriteTypes' /\ pc'[c] = "idle"
  BY DEF IInv, WriteTypes, ListFiles, Goto, Places, writing
<1>3. \A d \in Conn \ {c} : Same(d)
  BY DEF IInv, WriteTypes, ListFiles, Goto, Same, writing
<1>4. Shape(c)'
  BY <1>2 DEF IInv, ListFiles, At, writing, HasChunks, InsertUnfinished, Shape, Released, Explained, Begun, Requested, InChunks
<1>. QED
  BY <1>1, <1>2, <1>3, <1>4, StepOfOne

-----------------------------------------------------------------------------
(* The steps: writing *)

LEMMA StartWriteHolds ==
    ASSUME IInv, NEW c \in Conn, NEW p \in Path, NEW v \in Content, NEW immediate \in BOOLEAN,
           StartWrite(c, p, v, immediate)
    PROVE  IInv'
<1>. DEFINE request == [path |-> p, content |-> v, immediate |-> immediate]
            w == [path |-> p, content |-> v]
<1>1. request \in Request /\ request.content = v /\ request.immediate = immediate
  BY DEF Request
<1>2. w \in Write /\ w.content = v
  BY DEF Write
<1>3. request # None /\ w # None
  BY <1>1, <1>2, SqliteAssumption
<1>4. /\ pc[c] = "idle" /\ (immediate \/ bulk[c])
      /\ args' = [args EXCEPT ![c] = request]
      /\ bound' = [bound EXCEPT ![c] = IF busyName[c] THEN bound[c] ELSE w]
      /\ pc' = [pc EXCEPT ![c] = "filename"]
      /\ UNCHANGED <<db, readonly, names, auto, lock, view, bulk, chunkidx, busyName, busyChunk, reading>>
  BY DEF StartWrite, Bind, Goto, At
<1>. HIDE DEF request, w
<1>5. TableTypes' /\ OtherTypes'
  BY <1>4 DEF IInv, TableTypes, OtherTypes, reading
<1>6. WriteTypes'
  <2>. HIDE DEF Request, Write
  <2>. QED
    BY <1>1, <1>2, <1>4 DEF IInv, WriteTypes, Places
<1>7. pc'[c] = "filename" /\ args'[c] = request /\ bound'[c] = IF busyName[c] THEN bound[c] ELSE w
  BY <1>4 DEF IInv, WriteTypes
<1>8. \A d \in Conn \ {c} : Same(d)
  BY <1>4 DEF IInv, WriteTypes, Same
<1>9. Shape(c)'
  <2>1. Shape(c)
    BY DEF IInv
  <2>. QED
    BY <1>1, <1>2, <1>3, <1>4, <1>7, <2>1 DEF HasChunks, InsertUnfinished, Shape, Released, Explained, Begun, Requested, InChunks
<1>. QED
  BY <1>5, <1>6, <1>8, <1>9, StepOfOne

\* Where writePtr goes when k chunks are inserted.
LEMMA Onward ==
    ASSUME NEW c \in Conn, NEW k
    PROVE  /\ AfterChunk(c, k) \in {"contents", "commit", "idle"}
           /\ AfterChunk(c, k) = "contents" <=> k < Len(args[c].content.chunks)
           /\ AfterChunk(c, k) = "commit" => args[c].immediate
           /\ AfterChunk(c, k) = "idle" => ~args[c].immediate
BY DEF AfterChunk

LEMMA InsertNameHolds ==
    ASSUME IInv, NEW c \in Conn, InsertName(c)
    PROVE  IInv'
<1>1. Shape(c) /\ TableTypes /\ WriteTypes /\ OtherTypes /\ pc[c] = "filename"
  BY DEF IInv, InsertName, At
<1>2. args[c] # None /\ bound[c] # None
  BY <1>1 DEF Shape, Requested
<1>3. WithName(Visible(c), bound[c].path, bound[c].content) \in Tables
  BY <1>1, <1>2, Asked, VisibleIsTables, WithNameIsTables
<1>4. /\ TableTypes'
      /\ IF AutoAfterBegin(c) THEN auto'[c] /\ view'[c] = None /\ lock'[c] = "none"
         ELSE ~auto'[c] /\ lock'[c] \in {"reserved", "pending"}
      /\ \A d \in Conn \ {c} : SameTables(d)
  BY <1>1, <1>3, InsertHolds DEF InsertName
<1>5. OtherTypes' /\ bulk' = bulk
  BY <1>1 DEF OtherTypes, InsertName, reading
<1>6. CASE AfterChunk(c, 0) = "idle"
  <2>1. Finish(c)
    BY <1>6 DEF InsertName
  <2>2. /\ WriteTypes'
        /\ pc'[c] = "idle" /\ args'[c] = None /\ bound'[c] = None /\ chunkidx'[c] = 1
        /\ ~busyName'[c] /\ ~busyChunk'[c]
        /\ \A d \in Conn \ {c} : SameWrite(d)
    BY <1>1, <1>2, <2>1, FinishHolds
  <2>3. \A d \in Conn \ {c} : Same(d)
    BY <1>4, <1>5, <2>2 DEF Same, SameWrite, SameTables
  <2>4. bulk[c]
    BY <1>1, <1>6, Onward DEF Shape, Begun
  <2>5. Shape(c)'
    BY <1>1, <1>4, <1>5, <2>2, <2>4 DEF InsertUnfinished, Shape, Released, Explained, Begun, Requested, InChunks
  <2>. QED
    BY <1>4, <1>5, <2>2, <2>3, <2>5, StepOfOne
<1>7. CASE AfterChunk(c, 0) # "idle"
  <2>1. /\ pc' = [pc EXCEPT ![c] = AfterChunk(c, 0)]
        /\ busyName' = [busyName EXCEPT ![c] = FALSE]
        /\ UNCHANGED <<names, args, bound, chunkidx, busyChunk>>
    BY <1>7 DEF InsertName, Goto
  <2>2. WriteTypes'
    BY <1>1, <2>1, Onward DEF WriteTypes, Places
  <2>3. pc'[c] = AfterChunk(c, 0) /\ ~busyName'[c]
    BY <1>1, <2>1 DEF WriteTypes
  <2>4. \A d \in Conn \ {c} : Same(d)
    BY <1>1, <1>4, <1>5, <2>1 DEF Same, SameTables, WriteTypes
  <2>5. Len(args[c].content.chunks) \in Nat
    BY <1>1, <1>2, Asked
  <2>6. Shape(c)'
    BY <1>1, <1>2, <1>4, <1>5, <1>7, <2>1, <2>3, <2>5, Onward
       DEF AutoAfterBegin, HasChunks, InsertUnfinished, Shape, Released, Explained, Begun, Requested, InChunks
  <2>. QED
    BY <1>4, <1>5, <2>2, <2>4, <2>6, StepOfOne
<1>. QED
  BY <1>6, <1>7

LEMMA InsertNameBusyHolds ==
    ASSUME IInv, NEW c \in Conn, InsertNameBusy(c)
    PROVE  IInv'
<1>1. Shape(c) /\ TableTypes /\ WriteTypes /\ OtherTypes /\ pc[c] = "filename"
  BY DEF IInv, InsertNameBusy, At
<1>2. args[c] # None /\ bound[c] # None
  BY <1>1 DEF Shape, Requested
<1>. DEFINE place == IF args[c].immediate THEN AfterChunk(c, 0) ELSE "filename"
<1>3. /\ busyName' = [busyName EXCEPT ![c] = TRUE]
      /\ auto' = [auto EXCEPT ![c] = AutoAfterBegin(c)]
      /\ pc' = [pc EXCEPT ![c] = place]
      /\ UNCHANGED <<db, readonly, names, lock, view, bulk, args, bound, chunkidx, busyChunk, reading>>
  BY DEF InsertNameBusy, Goto
<1>4. /\ place \in {"filename", "contents", "commit"}
      /\ place = "filename" <=> ~args[c].immediate
      /\ place = "contents" => 0 < Len(args[c].content.chunks)
  BY Onward
<1>. HIDE DEF place
<1>5. AutoAfterBegin(c) \in BOOLEAN /\ (AutoAfterBegin(c) <=> auto[c] /\ ~args[c].immediate)
  BY DEF AutoAfterBegin
<1>6. TableTypes' /\ OtherTypes'
  <2>. HIDE DEF Tables
  <2>. QED
    BY <1>1, <1>3, <1>5 DEF TableTypes, OtherTypes, reading
<1>7. WriteTypes'
  BY <1>1, <1>3, <1>4 DEF WriteTypes, Places
<1>8. \A d \in Conn \ {c} : Same(d)
  BY <1>1, <1>3 DEF Same, WriteTypes, TableTypes
<1>9. pc'[c] = place /\ busyName'[c] /\ auto'[c] = AutoAfterBegin(c)
  BY <1>1, <1>3 DEF WriteTypes, TableTypes
<1>10. Len(args[c].content.chunks) \in Nat
  BY <1>1, <1>2, Asked
<1>11. Shape(c)'
  BY <1>1, <1>2, <1>3, <1>4, <1>5, <1>9, <1>10 DEF HasChunks, InsertUnfinished, Shape, Released, Explained, Begun, Requested, InChunks
<1>. QED
  BY <1>6, <1>7, <1>8, <1>11, StepOfOne

LEMMA InsertChunkHolds ==
    ASSUME IInv, NEW c \in Conn, InsertChunk(c)
    PROVE  IInv'
<1>. DEFINE i == chunkidx[c]
            n == Len(args[c].content.chunks)
            chunk == IF busyChunk[c] /\ i = 1 THEN ChunkOf(bound[c].content, 1)
                     ELSE ChunkOf(args[c].content, i)
<1>1. Shape(c) /\ TableTypes /\ WriteTypes /\ OtherTypes /\ pc[c] = "contents"
  BY DEF IInv, InsertChunk, At
<1>2. args[c] # None /\ bound[c] # None /\ i \in 1..MaxChunks /\ MaxChunks \in Nat
  BY <1>1, SqliteAssumption DEF Shape, Requested, WriteTypes
<1>3. n \in 0..MaxChunks /\ i \in 1..n /\ 1 \in 1..Len(bound[c].content.chunks)
  <2>1. /\ n \in 0..MaxChunks /\ Len(bound[c].content.chunks) \in 0..MaxChunks
    BY <1>1, <1>2, Asked
  <2>2. i <= n /\ Len(bound[c].content.chunks) > 0
    BY <1>1 DEF Shape, InChunks, HasChunks
  <2>. QED
    BY <1>2, <2>1, <2>2
<1>4. chunk \in Chunk
  BY <1>1, <1>2, <1>3, Asked, ChunkOfIsChunk
<1>5. /\ Insert(c, WithChunk(Visible(c), bound[c].path, i, chunk))
      /\ IF AfterChunk(c, i) = "idle"
         THEN Finish(c)
         ELSE /\ pc' = [pc EXCEPT ![c] = AfterChunk(c, i)]
              /\ chunkidx' = [chunkidx EXCEPT ![c] =
                                IF AfterChunk(c, i) = "contents" THEN i + 1 ELSE 1]
              /\ busyChunk' = [busyChunk EXCEPT ![c] = FALSE]
              /\ UNCHANGED <<names, args, bound, busyName>>
      /\ UNCHANGED <<readonly, bulk, reading>>
  BY DEF InsertChunk, Goto
<1>. HIDE DEF i, n, chunk
<1>6. WithChunk(Visible(c), bound[c].path, i, chunk) \in Tables
  BY <1>1, <1>2, <1>4, Asked, VisibleIsTables, WithChunkIsTables
<1>7. /\ TableTypes'
      /\ IF AutoAfterBegin(c) THEN auto'[c] /\ view'[c] = None /\ lock'[c] = "none"
         ELSE ~auto'[c] /\ lock'[c] \in {"reserved", "pending"}
      /\ \A d \in Conn \ {c} : SameTables(d)
  BY <1>1, <1>5, <1>6, InsertHolds
<1>8. OtherTypes' /\ bulk' = bulk
  BY <1>1, <1>5 DEF OtherTypes, reading
<1>9. CASE AfterChunk(c, i) = "idle"
  <2>1. /\ WriteTypes'
        /\ pc'[c] = "idle" /\ args'[c] = None /\ bound'[c] = None /\ chunkidx'[c] = 1
        /\ ~busyName'[c] /\ ~busyChunk'[c]
        /\ \A d \in Conn \ {c} : SameWrite(d)
    BY <1>1, <1>2, <1>5, <1>9, FinishHolds
  <2>2. \A d \in Conn \ {c} : Same(d)
    BY <1>7, <1>8, <2>1 DEF Same, SameWrite, SameTables
  <2>3. bulk[c]
    BY <1>1, <1>9, Onward DEF Shape, Begun
  <2>4. Shape(c)'
    BY <1>1, <1>7, <1>8, <2>1, <2>3 DEF InsertUnfinished, Shape, Released, Explained, Begun, Requested, InChunks
  <2>. QED
    BY <1>7, <1>8, <2>1, <2>2, <2>4, StepOfOne
<1>10. CASE AfterChunk(c, i) # "idle"
  <2>. DEFINE next == IF AfterChunk(c, i) = "contents" THEN i + 1 ELSE 1
  <2>1. /\ pc' = [pc EXCEPT ![c] = AfterChunk(c, i)]
        /\ chunkidx' = [chunkidx EXCEPT ![c] = next]
        /\ busyChunk' = [busyChunk EXCEPT ![c] = FALSE]
        /\ UNCHANGED <<names, args, bound, busyName>>
    BY <1>5, <1>10
  <2>2. /\ next \in 1..MaxChunks
        /\ AfterChunk(c, i) = "contents" => next <= n
        /\ AfterChunk(c, i) # "contents" => next = 1
    BY <1>2, <1>3, Onward DEF n
  <2>. HIDE DEF next
  <2>3. WriteTypes'
    BY <1>1, <2>1, <2>2, Onward DEF WriteTypes, Places
  <2>4. pc'[c] = AfterChunk(c, i) /\ ~busyChunk'[c] /\ chunkidx'[c] = next
    BY <1>1, <2>1 DEF WriteTypes
  <2>5. \A d \in Conn \ {c} : Same(d)
    BY <1>1, <1>7, <1>8, <2>1 DEF Same, SameTables, WriteTypes
  <2>6. AfterChunk(c, i) \in {"contents", "commit"}
    BY <1>10, Onward
  <2>7. Shape(c)'
    BY <1>1, <1>2, <1>7, <1>8, <2>1, <2>2, <2>4, <2>6, Onward
       DEF n, AutoAfterBegin, HasChunks, InsertUnfinished, Shape, Released, Explained, Begun, Requested, InChunks
  <2>. QED
    BY <1>7, <1>8, <2>3, <2>5, <2>7, StepOfOne
<1>. QED
  BY <1>9, <1>10

LEMMA InsertChunkBusyHolds ==
    ASSUME IInv, NEW c \in Conn, InsertChunkBusy(c)
    PROVE  IInv'
<1>1. Shape(c) /\ TableTypes /\ WriteTypes /\ OtherTypes /\ pc[c] = "contents"
  BY DEF IInv, InsertChunkBusy, At
<1>2. args[c] # None /\ bound[c] # None
  BY <1>1 DEF Shape, Requested
<1>. DEFINE place == IF args[c].immediate THEN "threw" ELSE "contents"
<1>3. /\ ~CanInsert(c)
      /\ busyChunk' = [busyChunk EXCEPT ![c] = TRUE]
      /\ pc' = [pc EXCEPT ![c] = place]
      /\ UNCHANGED <<db, readonly, names, auto, lock, view, bulk, args, bound, chunkidx, busyName, reading>>
  BY DEF InsertChunkBusy, Goto
\* An immediate write that has inserted a chunk has the lock.
<1>4. args[c].immediate => chunkidx[c] = 1
  BY <1>1, <1>3 DEF Shape, InChunks, CanInsert, CanReserve, AutoAfterBegin
<1>5. TableTypes' /\ OtherTypes'
  BY <1>1, <1>3 DEF TableTypes, OtherTypes, reading
<1>6. WriteTypes'
  BY <1>1, <1>3 DEF WriteTypes, Places
<1>7. \A d \in Conn \ {c} : Same(d)
  BY <1>1, <1>3 DEF Same, WriteTypes
<1>8. pc'[c] = place /\ busyChunk'[c]
  BY <1>1, <1>3 DEF WriteTypes
<1>9. Shape(c)'
  BY <1>1, <1>2, <1>3, <1>4, <1>8 DEF HasChunks, InsertUnfinished, Shape, Released, Explained, Begun, Requested, InChunks
<1>. QED
  BY <1>5, <1>6, <1>7, <1>9, StepOfOne

LEMMA CommitWriteHolds ==
    ASSUME IInv, NEW c \in Conn, CommitWrite(c)
    PROVE  IInv'
<1>1. Shape(c) /\ TableTypes /\ WriteTypes /\ OtherTypes /\ pc[c] = "commit"
  BY DEF IInv, CommitWrite, At
<1>2. args[c] # None
  BY <1>1 DEF Shape, Requested
<1>3. /\ TableTypes' /\ auto'[c] /\ view'[c] = None /\ lock'[c] = "none"
      /\ \A d \in Conn \ {c} : SameTables(d)
  BY <1>1, CommitHolds, VisibleIsTables DEF CommitWrite
<1>4. /\ WriteTypes'
      /\ pc'[c] = "idle" /\ args'[c] = None /\ bound'[c] = None /\ chunkidx'[c] = 1
      /\ ~busyName'[c] /\ ~busyChunk'[c]
      /\ \A d \in Conn \ {c} : SameWrite(d)
  BY <1>1, <1>2, FinishHolds DEF CommitWrite
<1>5. OtherTypes' /\ bulk' = bulk
  BY <1>1 DEF OtherTypes, CommitWrite, reading
<1>6. \A d \in Conn \ {c} : Same(d)
  BY <1>3, <1>4, <1>5 DEF Same, SameWrite, SameTables
<1>7. Shape(c)'
  BY <1>3, <1>4, <1>5 DEF InsertUnfinished, Shape, Released, Explained, Begun, Requested, InChunks
<1>. QED
  BY <1>3, <1>4, <1>5, <1>6, <1>7, StepOfOne

LEMMA CommitWriteBusyHolds ==
    ASSUME IInv, NEW c \in Conn, CommitWriteBusy(c)
    PROVE  IInv'
<1>1. Shape(c) /\ TableTypes /\ WriteTypes /\ OtherTypes /\ pc[c] = "commit"
  BY DEF IInv, CommitWriteBusy, At
<1>2. pc' = [pc EXCEPT ![c] = "filename"] /\ UNCHANGED <<readonly, names, bulk, writing, reading>>
  BY DEF CommitWriteBusy, AfterBusyCommit, Goto
<1>3. /\ TableTypes' /\ auto'[c] = auto[c]
      /\ \A d \in Conn \ {c} : SameTables(d)
  <2>1. CASE InsertUnfinished(c)
    BY <1>1, <2>1 DEF CommitWriteBusy, TableTypes, SameTables
  <2>2. CASE ~InsertUnfinished(c)
    BY <1>1, <2>2, WaitHolds DEF CommitWriteBusy
  <2>. QED
    BY <2>1, <2>2
<1>4. WriteTypes' /\ OtherTypes' /\ pc'[c] = "filename"
  BY <1>1, <1>2 DEF WriteTypes, OtherTypes, Places, writing, reading
<1>5. \A d \in Conn \ {c} : Same(d)
  BY <1>1, <1>2, <1>3 DEF Same, SameTables, WriteTypes, writing
<1>6. Shape(c)'
  BY <1>1, <1>2, <1>3, <1>4 DEF HasChunks, InsertUnfinished, writing, Shape, Released, Explained, Begun, Requested, InChunks
<1>. QED
  BY <1>3, <1>4, <1>5, <1>6, StepOfOne

LEMMA GoOnHolds ==
    ASSUME IInv, NEW c \in Conn, GoOn(c)
    PROVE  IInv'
<1>1. Shape(c) /\ TableTypes /\ WriteTypes /\ OtherTypes /\ pc[c] = "threw"
  BY DEF IInv, GoOn, At
<1>2. pc' = [pc EXCEPT ![c] = "idle"]
  BY DEF GoOn, Goto
<1>3. TableTypes' /\ WriteTypes' /\ OtherTypes' /\ pc'[c] = "idle"
  BY <1>1, <1>2 DEF TableTypes, WriteTypes, OtherTypes, GoOn, Places, writing, reading
<1>4. \A d \in Conn \ {c} : Same(d)
  BY <1>1, <1>2 DEF Same, WriteTypes, GoOn, writing
<1>5. Shape(c)'
  BY <1>1, <1>3 DEF GoOn, HasChunks, InsertUnfinished, writing, Shape, Released, Explained, Begun, Requested, InChunks
<1>. QED
  BY <1>3, <1>4, <1>5, StepOfOne

-----------------------------------------------------------------------------
(* The steps: bulk writes *)

LEMMA BeginBulkWritesHolds ==
    ASSUME IInv, NEW c \in Conn, BeginBulkWrites(c)
    PROVE  IInv'
<1>1. Shape(c) /\ TableTypes /\ WriteTypes /\ OtherTypes /\ pc[c] = "idle"
  BY DEF IInv, BeginBulkWrites, At
<1>2. TableTypes' /\ WriteTypes' /\ OtherTypes'
  BY <1>1 DEF TableTypes, WriteTypes, OtherTypes, BeginBulkWrites, writing, reading
<1>3. bulk'[c] /\ ~auto'[c]
  BY <1>1 DEF TableTypes, OtherTypes, BeginBulkWrites
<1>4. \A d \in Conn \ {c} : Same(d)
  BY <1>1 DEF Same, TableTypes, OtherTypes, BeginBulkWrites, writing
<1>5. Shape(c)'
  BY <1>1, <1>3 DEF BeginBulkWrites, HasChunks, InsertUnfinished, writing, Shape, Released, Explained, Begun, Requested, InChunks
<1>. QED
  BY <1>2, <1>4, <1>5, StepOfOne

LEMMA StartEndBulkWritesHolds ==
    ASSUME IInv, NEW c \in Conn, StartEndBulkWrites(c)
    PROVE  IInv'
<1>1. Shape(c) /\ TableTypes /\ WriteTypes /\ OtherTypes /\ pc[c] = "idle" /\ bulk[c]
  BY DEF IInv, StartEndBulkWrites, At
<1>2. TableTypes' /\ WriteTypes' /\ OtherTypes' /\ pc'[c] = "ending"
  BY <1>1 DEF TableTypes, WriteTypes, OtherTypes, StartEndBulkWrites, Goto, Places, writing, reading
<1>3. \A d \in Conn \ {c} : Same(d)
  BY <1>1 DEF Same, WriteTypes, StartEndBulkWrites, Goto, writing
<1>4. Shape(c)'
  BY <1>1, <1>2 DEF StartEndBulkWrites, HasChunks, InsertUnfinished, writing, Shape, Released, Explained, Begun, Requested, InChunks
<1>. QED
  BY <1>2, <1>3, <1>4, StepOfOne

LEMMA EndBulkWritesHolds ==
    ASSUME IInv, NEW c \in Conn, EndBulkWrites(c)
    PROVE  IInv'
<1>1. Shape(c) /\ TableTypes /\ WriteTypes /\ OtherTypes /\ pc[c] = "ending"
  BY DEF IInv, EndBulkWrites, At
<1>2. /\ TableTypes' /\ auto'[c] /\ view'[c] = None /\ lock'[c] = "none"
      /\ \A d \in Conn \ {c} : SameTables(d)
  <2>1. CASE auto[c]
    BY <1>1, <2>1 DEF EndBulkWrites, TableTypes, SameTables, Shape, Released
  <2>2. CASE ~auto[c]
    BY <1>1, <2>2, CommitHolds, VisibleIsTables DEF EndBulkWrites
  <2>. QED
    BY <2>1, <2>2
<1>3. WriteTypes' /\ OtherTypes' /\ pc'[c] = "idle"
  BY <1>1 DEF WriteTypes, OtherTypes, EndBulkWrites, Goto, Places, writing, reading
<1>4. \A d \in Conn \ {c} : Same(d)
  BY <1>1, <1>2 DEF Same, SameTables, WriteTypes, OtherTypes, EndBulkWrites, Goto, writing
<1>5. Shape(c)'
  BY <1>1, <1>2, <1>3 DEF EndBulkWrites, HasChunks, InsertUnfinished, writing, Shape, Released, Explained, Begun, Requested, InChunks
<1>. QED
  BY <1>2, <1>3, <1>4, <1>5, StepOfOne

LEMMA EndBulkWritesBusyHolds ==
    ASSUME IInv, NEW c \in Conn, EndBulkWritesBusy(c)
    PROVE  IInv'
<1>1. Shape(c) /\ TableTypes /\ WriteTypes /\ OtherTypes /\ pc[c] = "ending" /\ ~auto[c]
  BY DEF IInv, EndBulkWritesBusy, At
<1>2. /\ TableTypes' /\ auto'[c] = auto[c]
      /\ \A d \in Conn \ {c} : SameTables(d)
  BY <1>1, WaitHolds DEF EndBulkWritesBusy
<1>3. WriteTypes' /\ OtherTypes'
  BY <1>1 DEF WriteTypes, OtherTypes, EndBulkWritesBusy, writing, reading
<1>4. \A d \in Conn \ {c} : Same(d)
  BY <1>2 DEF Same, SameTables, EndBulkWritesBusy, writing
<1>5. Shape(c)'
  BY <1>1, <1>2 DEF EndBulkWritesBusy, HasChunks, InsertUnfinished, writing, Shape, Released, Explained, Begun, Requested, InChunks
<1>. QED
  BY <1>2, <1>3, <1>4, <1>5, StepOfOne

-----------------------------------------------------------------------------
(* The steps: reading, and the end of a connection *)

LEMMA StartReadHolds ==
    ASSUME IInv, NEW c \in Conn, NEW p \in Path, StartRead(c, p)
    PROVE  IInv'
<1>1. Shape(c) /\ TableTypes /\ WriteTypes /\ OtherTypes /\ pc[c] = "idle"
  BY DEF IInv, StartRead, At
<1>2. /\ lock' = [lock EXCEPT ![c] = IF lock[c] = "none" THEN "shared" ELSE lock[c]]
      /\ pc' = [pc EXCEPT ![c] = "reading"]
      /\ UNCHANGED <<db, readonly, names, auto, view, bulk, writing, unreset>>
  BY DEF StartRead, Goto
<1>3. TableTypes'
  <2>. HIDE DEF Tables
  <2>. QED
    BY <1>1, <1>2 DEF TableTypes
<1>4. WriteTypes'
  BY <1>1, <1>2 DEF WriteTypes, Places, writing
<1>5. OtherTypes'
  BY <1>1 DEF OtherTypes, StartRead
<1>6. \A d \in Conn \ {c} : Same(d)
  BY <1>1, <1>2 DEF Same, WriteTypes, TableTypes, writing
<1>7. pc'[c] = "reading" /\ lock'[c] = IF lock[c] = "none" THEN "shared" ELSE lock[c]
  BY <1>1, <1>2 DEF WriteTypes, TableTypes
<1>8. Shape(c)'
  BY <1>1, <1>2, <1>7 DEF HasChunks, InsertUnfinished, writing, Shape, Released, Explained, Begun, Requested, InChunks
<1>. QED
  BY <1>3, <1>4, <1>5, <1>6, <1>8, StepOfOne

LEMMA StartReadBusyHolds ==
    ASSUME IInv, NEW c \in Conn, StartReadBusy(c)
    PROVE  IInv'
<1>1. Shape(c) /\ TableTypes /\ WriteTypes /\ OtherTypes
  BY DEF IInv
<1>2. TableTypes' /\ WriteTypes' /\ OtherTypes'
  BY <1>1 DEF TableTypes, WriteTypes, OtherTypes, StartReadBusy, writing
<1>3. \A d \in Conn : Same(d)
  BY DEF Same, StartReadBusy, writing
<1>. QED
  BY <1>1, <1>2, <1>3, SameShape, StepOfOne

LEMMA FinishReadHolds ==
    ASSUME IInv, NEW c \in Conn, FinishRead(c)
    PROVE  IInv'
<1>1. Shape(c) /\ TableTypes /\ WriteTypes /\ OtherTypes /\ pc[c] = "reading"
  BY DEF IInv, FinishRead, At
<1>2. /\ lock' = [lock EXCEPT ![c] = IF auto[c] THEN "none" ELSE lock[c]]
      /\ pc' = [pc EXCEPT ![c] = "idle"]
      /\ UNCHANGED <<db, readonly, names, auto, view, bulk, writing>>
  BY DEF FinishRead, Goto
<1>3. TableTypes'
  <2>. HIDE DEF Tables
  <2>. QED
    BY <1>1, <1>2 DEF TableTypes
<1>4. WriteTypes'
  BY <1>1, <1>2 DEF WriteTypes, Places, writing
<1>5. OtherTypes'
  <2>1. BoundAfterRead(c, reply'[c]) \in Path \cup {None}
    BY <1>1 DEF OtherTypes, BoundAfterRead
  <2>. QED
    BY <1>1, <1>2, <2>1 DEF OtherTypes, FinishRead
<1>6. \A d \in Conn \ {c} : Same(d)
  BY <1>1, <1>2 DEF Same, WriteTypes, TableTypes, writing
<1>7. pc'[c] = "idle" /\ lock'[c] = IF auto[c] THEN "none" ELSE lock[c]
  BY <1>1, <1>2 DEF WriteTypes, TableTypes
<1>8. Shape(c)'
  BY <1>1, <1>2, <1>7 DEF HasChunks, InsertUnfinished, writing, Shape, Released, Explained, Begun, Requested, InChunks
<1>. QED
  BY <1>3, <1>4, <1>5, <1>6, <1>8, StepOfOne

LEMMA ForgetHolds ==
    ASSUME IInv, NEW c \in Conn, Forget(c)
    PROVE  IInv'
<1>1. TableTypes /\ WriteTypes /\ OtherTypes /\ 1 \in 1..MaxChunks
  BY SqliteAssumption DEF IInv
<1>2. TableTypes' /\ auto'[c] /\ lock'[c] = "none" /\ view'[c] = None
  <2>. HIDE DEF Tables
  <2>. QED
    BY <1>1 DEF TableTypes, Forget
<1>3. WriteTypes' /\ OtherTypes'
  BY <1>1 DEF WriteTypes, OtherTypes, Forget, Goto, Places
<1>4. /\ pc'[c] = "closed" /\ args'[c] = None /\ chunkidx'[c] = 1
      /\ ~busyName'[c] /\ ~busyChunk'[c]
  BY <1>1 DEF WriteTypes, Forget, Goto
<1>5. \A d \in Conn \ {c} : Same(d)
  BY <1>1 DEF Same, WriteTypes, TableTypes, OtherTypes, Forget, Goto
<1>6. Shape(c)'
  BY <1>2, <1>4 DEF HasChunks, InsertUnfinished, Shape, Released, Explained, Begun, Requested, InChunks
<1>. QED
  BY <1>2, <1>3, <1>5, <1>6, StepOfOne

-----------------------------------------------------------------------------
(* The theorems *)

LEMMA InitHolds == Init => IInv
<1>. SUFFICES ASSUME Init PROVE IInv
  OBVIOUS
<1>1. TableTypes
  BY EmptyIsTables DEF Init, TableTypes
<1>2. WriteTypes /\ OtherTypes
  BY SqliteAssumption DEF Init, WriteTypes, OtherTypes, Places
<1>3. \A c \in Conn : Shape(c)
  BY DEF Init, HasChunks, InsertUnfinished, Shape, Released, Explained, Begun, Requested, InChunks
<1>. QED
  BY <1>1, <1>2, <1>3 DEF IInv

LEMMA NextHolds == IInv /\ [Next]_vars => IInv'
<1>. SUFFICES ASSUME IInv, [Next]_vars PROVE IInv'
  OBVIOUS
<1>1. CASE UNCHANGED vars
  <2>1. TableTypes' /\ WriteTypes' /\ OtherTypes'
    BY <1>1 DEF IInv, TableTypes, WriteTypes, OtherTypes, vars, writing, reading
  <2>2. \A c \in Conn : Same(c)
    BY <1>1 DEF Same, vars, writing
  <2>. QED
    BY <2>1, <2>2, SameShape DEF IInv
<1>2. CASE Next
  <2>1. PICK c \in Conn : Call(c) \/ Step(c) \/ Die(c)
    BY <1>2 DEF Next
  <2>2. CASE Call(c)
    BY <2>2, OpenHolds, StartWriteHolds, StartReadHolds, StartReadBusyHolds, GoOnHolds,
       BeginBulkWritesHolds, StartEndBulkWritesHolds, ForgetHolds DEF Call, Close
  <2>3. CASE Step(c)
    BY <2>3, ListFilesHolds, InsertNameHolds, InsertNameBusyHolds, InsertChunkHolds,
       InsertChunkBusyHolds, CommitWriteHolds, CommitWriteBusyHolds, EndBulkWritesHolds,
       EndBulkWritesBusyHolds, FinishReadHolds DEF Step
  <2>4. CASE Die(c)
    BY <2>4, ForgetHolds DEF Die
  <2>. QED
    BY <2>1, <2>2, <2>3, <2>4
<1>. QED
  BY <1>1, <1>2

\* The tables, the locks and the calls keep their types, and a connection in the middle of
\* a write has arguments for it (SqliteArchive.hpp:51-67, SqliteArchive.cpp:219-345).
THEOREM Typed == Spec => []TypeOK
<1>1. IInv => TypeOK
  BY Strong
<1>. QED
  BY <1>1, InitHolds, NextHolds, PTL DEF Spec

\* Between its calls, with no BulkWriter open, a connection has no lock and no transaction,
\* unless one of its writes has thrown: whatever callers mix, and however often others were
\* in the way (SqliteArchive.cpp:288-345, 354-359, 439).
THEOREM NothingIsHeld == Spec => []NothingHeld
<1>1. IInv => NothingHeld
  BY Strong
<1>. QED
  BY <1>1, InitHolds, NextHolds, PTL DEF Spec

-----------------------------------------------------------------------------
(* What callers keep to: no immediate writes under a BulkWriter, no archive     *)
(* is used after its write threw, and all contents have as many chunks, so that *)
(* none is left of an older one: contents of one to 500 million bytes all have  *)
(* one chunk.  Runs show that the theorems below need each of these.            *)

OneLength == \A v, w \in Content : Len(v.chunks) = Len(w.chunks)
AsMeant == MixesImmediate = FALSE /\ GoesOnAfterThrow = FALSE /\ OneLength

-----------------------------------------------------------------------------
(* What tables hold for a path *)

\* The row of content v, and its first k chunks.
UpTo(t, p, v, k) ==
    /\ t.file_list[p] = [size |-> Len(v.chunks), lz4 |-> v.lz4]
    /\ \A i \in 1..k : t.file_contents[p][i] = ChunkOf(v, i)

\* There is no chunk past the end of any content.
Trimmed(t, p) ==
    \A v \in Content, i \in 1..MaxChunks : i > Len(v.chunks) => t.file_contents[p][i] = None

Holds(t, p, v) == UpTo(t, p, v, Len(v.chunks)) /\ Trimmed(t, p)

Absent(t, p) == t.file_list[p] = None /\ \A i \in 1..MaxChunks : t.file_contents[p][i] = None

Whole(t, p) == Absent(t, p) \/ \E v \in Content : Holds(t, p, v)

-----------------------------------------------------------------------------
(* The inductive invariant *)

Writes(c) == pc[c] \in {"filename", "contents", "commit"}
Owns(c) == lock[c] \in {"reserved", "pending"}

\* The statements are bound to the write in progress, and free between writes.
Statements(c) ==
    /\ Writes(c) => bound[c] = [path |-> args[c].path, content |-> args[c].content]
    /\ busyName[c] => Writes(c) \/ pc[c] = "threw"
    /\ busyChunk[c] => pc[c] = "threw"
    /\ pc[c] = "contents" /\ busyName[c] => args[c].immediate

\* A BulkWriter's transaction is open as long as it is, and has no immediate writes in it.
Bulk(c) ==
    /\ bulk[c] => ~auto[c]
    /\ bulk[c] /\ Writes(c) => ~args[c].immediate
    /\ pc[c] \in {"closed", "listing"} => ~bulk[c]

\* A connection with changes has the lock.
Locked(c) == view[c] # None => Owns(c)

\* All paths but that of the write in progress are whole in a connection's own tables.
Others(c) ==
    view[c] # None /\ pc[c] # "threw" =>
        \A p \in Path : Whole(view[c], p) \/ (Writes(c) /\ p = args[c].path /\ Trimmed(view[c], p))

\* How far that write has come.
Progress(c) ==
    /\ pc[c] = "contents" /\ ~busyName[c] =>
         view[c] # None /\ UpTo(view[c], args[c].path, args[c].content, chunkidx[c] - 1)
    /\ pc[c] = "commit" /\ ~busyName[c] =>
         view[c] # None /\ Holds(view[c], args[c].path, args[c].content)

\* SELECT is bound to the path that was asked for.
Selects(c) ==
    /\ unreset[c] = None /\ c \in DOMAIN reply
    /\ pc[c] = "reading" => selected[c] = asked[c] /\ asked[c] # None

Tidy(c) == Statements(c) /\ Bulk(c) /\ Locked(c) /\ Others(c) /\ Progress(c) /\ Selects(c)

Committed == \A p \in Path : Whole(db, p)
OneOwner == \A c, d \in Conn : Owns(c) /\ Owns(d) => c = d

StoreInv == IInv /\ Committed /\ OneOwner /\ \A c \in Conn : Tidy(c)

-----------------------------------------------------------------------------
(* What tables hold: lemmas *)

AlikeAt(t, u, p) == t.file_list[p] = u.file_list[p] /\ t.file_contents[p] = u.file_contents[p]

LEMMA AlikeHolds ==
    ASSUME NEW t, NEW u, NEW p, AlikeAt(t, u, p)
    PROVE  /\ Whole(t, p) => Whole(u, p)
           /\ Trimmed(t, p) => Trimmed(u, p)
           /\ \A v, k : UpTo(t, p, v, k) => UpTo(u, p, v, k)
           /\ ValueIn(t, p) = ValueIn(u, p)
<1>1. t.file_list[p] = u.file_list[p] /\ t.file_contents[p] = u.file_contents[p]
  BY DEF AlikeAt
<1>2. Rows(t, p) = Rows(u, p)
  BY <1>1 DEF Rows
<1>3. ValueIn(t, p) = ValueIn(u, p)
  BY <1>1, <1>2 DEF ValueIn
<1>4. \A v, k : UpTo(t, p, v, k) => UpTo(u, p, v, k)
  BY <1>1 DEF UpTo
<1>5. Trimmed(t, p) => Trimmed(u, p)
  BY <1>1 DEF Trimmed
<1>6. Absent(t, p) => Absent(u, p)
  BY <1>1 DEF Absent
<1>7. Whole(t, p) => Whole(u, p)
  BY <1>4, <1>5, <1>6 DEF Whole, Holds
<1>. QED
  BY <1>3, <1>4, <1>5, <1>7

LEMMA WholeIsTrimmed ==
    ASSUME OneLength, NEW t, NEW p, Whole(t, p)
    PROVE  Trimmed(t, p)
BY DEF Whole, Holds, Absent, Trimmed

LEMMA EmptyIsWhole ==
    ASSUME NEW p \in Path
    PROVE  Whole(Empty, p) /\ ValueIn(Empty, p) = Missing
<1>1. Empty.file_list[p] = None /\ Empty.file_contents[p] = [i \in 1..MaxChunks |-> None]
  BY DEF Empty
<1>. QED
  BY <1>1 DEF Whole, Absent, ValueIn

\* A name is inserted: the write of p begins, and nothing else changes.
LEMMA NameInserted ==
    ASSUME NEW t \in Tables, NEW p \in Path, NEW v \in Content
    PROVE  LET u == WithName(t, p, v)
           IN  /\ \A q \in Path \ {p} : AlikeAt(t, u, q)
               /\ Trimmed(t, p) => Trimmed(u, p)
               /\ UpTo(u, p, v, 0)
<1>. DEFINE row == [size |-> Len(v.chunks), lz4 |-> v.lz4]
            u == [t EXCEPT !.file_list[p] = row]
<1>1. /\ t.file_list \in [Path -> Row \cup {None}]
      /\ t = [file_list |-> t.file_list, file_contents |-> t.file_contents]
  BY DEF Tables
<1>2. /\ u.file_list[p] = row
      /\ \A q \in Path \ {p} : u.file_list[q] = t.file_list[q]
      /\ u.file_contents = t.file_contents
  <2>. HIDE DEF row
  <2>1. u = [file_list |-> [t.file_list EXCEPT ![p] = row], file_contents |-> t.file_contents]
    BY <1>1
  <2>. HIDE DEF u
  <2>. QED
    BY <1>1, <2>1
<1>3. WithName(t, p, v) = u
  BY DEF WithName
<1>. HIDE DEF u
<1>. QED
  BY <1>2, <1>3 DEF AlikeAt, Trimmed, UpTo

\* The next chunk is inserted: the write of p goes on, and nothing else changes.
LEMMA ChunkInserted ==
    ASSUME NEW t \in Tables, NEW p \in Path, NEW v \in Content, NEW i \in 1..Len(v.chunks), OneLength
    PROVE  LET u == WithChunk(t, p, i, ChunkOf(v, i))
           IN  /\ \A q \in Path \ {p} : AlikeAt(t, u, q)
               /\ Trimmed(t, p) => Trimmed(u, p)
               /\ UpTo(t, p, v, i - 1) => UpTo(u, p, v, i)
<1>. DEFINE x == ChunkOf(v, i)
            u == [t EXCEPT !.file_contents[p][i] = x]
<1>. HIDE DEF x, Chunk
<1>0. Len(v.chunks) \in 0..MaxChunks /\ MaxChunks \in Nat
  BY ContentOf, SqliteAssumption
<1>1. /\ t.file_contents \in [Path -> [1..MaxChunks -> Chunk \cup {None}]]
      /\ t = [file_list |-> t.file_list, file_contents |-> t.file_contents]
  BY DEF Tables
<1>. DEFINE chunks == [t.file_contents[p] EXCEPT ![i] = x]
<1>2. /\ chunks[i] = x
      /\ \A j \in 1..MaxChunks : j # i => chunks[j] = t.file_contents[p][j]
  BY <1>0, <1>1
<1>3. u = [file_list |-> t.file_list, file_contents |-> [t.file_contents EXCEPT ![p] = chunks]]
  <2>1. ASSUME NEW rows, NEW all
        PROVE  [[file_list |-> rows, file_contents |-> all] EXCEPT !.file_contents[p][i] = x] =
                 [file_list     |-> rows,
                  file_contents |-> [all EXCEPT ![p] = [all[p] EXCEPT ![i] = x]]]
    OBVIOUS
  <2>. QED
    BY <1>1, <2>1
<1>4. WithChunk(t, p, i, ChunkOf(v, i)) = u
  BY DEF WithChunk, x
<1>. HIDE DEF chunks, u
<1>5. /\ u.file_list = t.file_list
      /\ u.file_contents[p] = chunks
      /\ \A q \in Path \ {p} : u.file_contents[q] = t.file_contents[q]
  BY <1>1, <1>3
<1>6. \A q \in Path \ {p} : AlikeAt(t, u, q)
  BY <1>5 DEF AlikeAt
<1>7. Trimmed(t, p) => Trimmed(u, p)
  <2>. SUFFICES ASSUME Trimmed(t, p), NEW w \in Content, NEW j \in 1..MaxChunks, j > Len(w.chunks)
                PROVE  u.file_contents[p][j] = None
    BY DEF Trimmed
  <2>1. Len(w.chunks) = Len(v.chunks)
    BY DEF OneLength
  <2>2. j # i
    BY <1>0, <2>1
  <2>. QED
    BY <1>2, <1>5, <2>2 DEF Trimmed
<1>8. UpTo(t, p, v, i - 1) => UpTo(u, p, v, i)
  <2>. SUFFICES ASSUME UpTo(t, p, v, i - 1), NEW j \in 1..i
                PROVE  u.file_contents[p][j] = ChunkOf(v, j)
    BY <1>5 DEF UpTo
  <2>1. j \in 1..MaxChunks /\ (j = i \/ j \in 1..(i - 1))
    BY <1>0
  <2>. QED
    BY <1>2, <1>5, <2>1 DEF UpTo, x
<1>. QED
  BY <1>4, <1>6, <1>7, <1>8

LEMMA WrittenIsWhole ==
    ASSUME NEW t, NEW p, NEW v \in Content, UpTo(t, p, v, Len(v.chunks)), Trimmed(t, p)
    PROVE  Holds(t, p, v) /\ Whole(t, p)
BY DEF Holds, Whole

ChunksUpTo(t, p, n) == \A i \in 1..MaxChunks : t.file_contents[p][i] # None <=> i <= n

\* SELECT finds the first n chunks when they are all there is.
LEMMA RowsOfPrefix ==
    ASSUME NEW t, NEW p, NEW n \in 0..MaxChunks, ChunksUpTo(t, p, n)
    PROVE  Rows(t, p) = [k \in 1..n |-> t.file_contents[p][k]]
<1>. DEFINE there == {i \in 1..MaxChunks : t.file_contents[p][i] # None}
            Nth(k) == CHOOSE i \in there : Cardinality({j \in there : j <= i}) = k
<1>0. MaxChunks \in Nat /\ n \in Nat
  BY SqliteAssumption
<1>1. there = 1..n
  BY <1>0 DEF ChunksUpTo
<1>2. \A m \in Nat : Cardinality(1..m) = m
  BY FS_Interval
<1>3. ASSUME NEW i \in 1..n
      PROVE  Cardinality({j \in there : j <= i}) = i
  <2>1. {j \in there : j <= i} = 1..i
    <3>. HIDE DEF there
    <3>. QED
      BY <1>0, <1>1
  <2>2. i \in Nat
    BY <1>0
  <2>. QED
    BY <1>2, <2>1, <2>2
<1>4. ASSUME NEW k \in 1..n
      PROVE  Nth(k) = k
  <2>. DEFINE Upto(i) == Cardinality({j \in there : j <= i})
  <2>1. \A i \in there : Upto(i) = i
    BY <1>1, <1>3
  <2>2. Nth(k) = CHOOSE i \in there : Upto(i) = k
    OBVIOUS
  <2>. HIDE DEF there, Upto, Nth
  <2>. QED
    BY <1>1, <2>1, <2>2
<1>5. Cardinality(there) = n
  BY <1>0, <1>1, <1>2
<1>6. Rows(t, p) = [k \in 1..Cardinality(there) |-> t.file_contents[p][Nth(k)]]
  BY DEF Rows
<1>. HIDE DEF there, Nth
<1>. QED
  BY <1>4, <1>5, <1>6

\* What is read where a content was written.
LEMMA HeldValue ==
    ASSUME NEW t \in Tables, NEW p \in Path, NEW v \in Content, Holds(t, p, v)
    PROVE  ValueIn(t, p) = IF v.chunks = <<>> THEN Missing ELSE v.chunks
<1>. DEFINE n == Len(v.chunks)
            row == t.file_list[p]
<1>1. /\ v.chunks \in Seq(Data) /\ v.lz4 \in BOOLEAN
      /\ n \in 0..MaxChunks /\ MaxChunks \in Nat
  BY ContentOf, SqliteAssumption
<1>2. /\ row = [size |-> n, lz4 |-> v.lz4]
      /\ \A i \in 1..n : t.file_contents[p][i] = ChunkOf(v, i)
      /\ \A i \in 1..MaxChunks : i > n => t.file_contents[p][i] = None
  BY DEF Holds, UpTo, Trimmed
<1>3. \A i \in 1..n : ChunkOf(v, i) \in Chunk /\ ChunkOf(v, i) # None
  BY ChunkOfIsChunk, SqliteAssumption
<1>4. ChunksUpTo(t, p, n)
  BY <1>1, <1>2, <1>3 DEF ChunksUpTo
<1>. DEFINE chunks == [k \in 1..n |-> t.file_contents[p][k]]
<1>5. Rows(t, p) = chunks
  <2>. HIDE DEF n, chunks
  <2>1. n \in 0..MaxChunks
    BY <1>1
  <2>2. Rows(t, p) = [k \in 1..n |-> t.file_contents[p][k]]
    BY <1>4, <2>1, RowsOfPrefix
  <2>. QED
    BY <2>2 DEF chunks
<1>6. row # None /\ row.size = n /\ row.lz4 = v.lz4
  <2>1. [size |-> n, lz4 |-> v.lz4] \in Row
    BY <1>1 DEF Row
  <2>. QED
    BY <1>2, <2>1, SqliteAssumption
<1>7. ASSUME NEW k \in 1..n
      PROVE  chunks[k].data = v.chunks[k] /\ chunks[k].lz4 = v.lz4
  <2>1. chunks[k] = ChunkOf(v, k)
    BY <1>2
  <2>. QED
    BY <2>1 DEF ChunkOf
<1>. DEFINE value == [k \in DOMAIN chunks |-> chunks[k].data]
<1>8. value = v.chunks
  <2>1. v.chunks = [k \in 1..n |-> v.chunks[k]]
    BY <1>1
  <2>. HIDE DEF n
  <2>2. value = [k \in 1..n |-> chunks[k].data]
    OBVIOUS
  <2>. HIDE DEF chunks, value
  <2>. QED
    BY <1>7, <2>1, <2>2
<1>9. /\ DOMAIN chunks = 1..n /\ Len(chunks) = n /\ (chunks = <<>> <=> v.chunks = <<>>)
      /\ \A i \in DOMAIN chunks : chunks[i].lz4 = row.lz4
  <2>1. DOMAIN chunks = 1..n /\ Len(chunks) = n /\ (chunks = <<>> <=> n = 0)
    BY <1>1
  <2>2. v.chunks = <<>> <=> n = 0
    BY <1>1
  <2>. QED
    BY <1>6, <1>7, <2>1, <2>2
<1>10. ValueIn(t, p) =
         LET alike == \A i \in DOMAIN chunks : chunks[i].lz4 = row.lz4
         IN  IF row = None \/ chunks = <<>> THEN Missing
             ELSE IF row.lz4 /\ (~alike \/ Len(chunks) > row.size) THEN Fails
             ELSE IF alike /\ (Len(chunks) = row.size \/ (Len(chunks) = 1 /\ ~row.lz4)) THEN value
             ELSE Damaged
  BY <1>5 DEF ValueIn
<1>. HIDE DEF chunks, row, value, n
<1>11. n \in Nat /\ ~ (n > n)
  BY <1>1
<1>. QED
  BY <1>6, <1>8, <1>9, <1>10, <1>11

\* What is read of a whole path is a content, or that there is none.
LEMMA WholeValue ==
    ASSUME NEW t \in Tables, NEW p \in Path, Whole(t, p)
    PROVE  ValueIn(t, p) \in {v.chunks : v \in Content} \cup {Missing} /\ ValueIn(t, p) # Fails
<1>1. CASE Absent(t, p)
  <2>1. ValueIn(t, p) = Missing
    BY <1>1 DEF Absent, ValueIn
  <2>. QED
    BY <2>1, SqliteAssumption
<1>2. ASSUME NEW v \in Content, Holds(t, p, v)
      PROVE  ValueIn(t, p) \in {w.chunks : w \in Content} \cup {Missing} /\ ValueIn(t, p) # Fails
  <2>1. ValueIn(t, p) = Missing \/ ValueIn(t, p) = v.chunks
    BY <1>2, HeldValue
  <2>2. v.chunks \in Seq(Data)
    BY ContentOf
  <2>. QED
    BY <2>1, <2>2, SqliteAssumption
<1>. QED
  BY <1>1, <1>2 DEF Whole

-----------------------------------------------------------------------------
(* Steps of one connection *)

SameAll(c) ==
    /\ Same(c) /\ DOMAIN reply' = DOMAIN reply
    /\ asked'[c] = asked[c] /\ selected'[c] = selected[c] /\ unreset'[c] = unreset[c]

LEMMA SameTidy ==
    ASSUME NEW c \in Conn, Tidy(c), SameAll(c)
    PROVE  Tidy(c)'
<1>1. Statements(c)' /\ Bulk(c)' /\ Locked(c)' /\ Selects(c)'
  BY DEF Tidy, SameAll, Same, Statements, Bulk, Locked, Selects, Writes, Owns
<1>2. view'[c] = view[c] /\ pc'[c] = pc[c] /\ args'[c] = args[c] /\ Others(c)
  BY DEF SameAll, Same, Tidy
<1>3. Others(c)'
  BY <1>2 DEF Others, Writes
<1>4. Progress(c)'
  BY <1>2 DEF Tidy, SameAll, Same, Progress
<1>. QED
  BY <1>1, <1>3, <1>4 DEF Tidy

\* A step of c keeps the invariant, and is of no concern to the others.
TidyStep(c) == StoreInv' /\ \A d \in Conn \ {c} : SameAll(d)

LEMMA TidyStepOfOne ==
    ASSUME StoreInv, IInv', NEW c \in Conn, Committed', Tidy(c)',
           \A d \in Conn \ {c} : SameAll(d),
           Owns(c)' => Owns(c) \/ \A d \in Conn \ {c} : ~Owns(d)
    PROVE  TidyStep(c)
<1>1. ASSUME NEW d \in Conn
      PROVE  Tidy(d)'
  <2>1. CASE d = c
    BY <2>1
  <2>2. CASE d # c
    BY <2>2, SameTidy DEF StoreInv
  <2>. QED
    BY <2>1, <2>2
<1>2. OneOwner'
  <2>1. \A d \in Conn \ {c} : Owns(d)' <=> Owns(d)
    BY DEF SameAll, Same, Owns
  <2>. QED
    BY <2>1 DEF StoreInv, OneOwner
<1>. QED
  BY <1>1, <1>2 DEF StoreInv, TidyStep

\* A connection that is not open has no transaction.
LEMMA Unopened ==
    ASSUME StoreInv, NEW c \in Conn, pc[c] \in {"closed", "listing"}
    PROVE  auto[c] /\ view[c] = None /\ lock[c] = "none"
BY DEF StoreInv, IInv, Tidy, Bulk, Statements, Writes, InsertUnfinished, Shape, Explained, Released

\* Every INSERT is in a transaction.
LEMMA InTransaction ==
    ASSUME StoreInv, NEW c \in Conn, pc[c] \in {"filename", "contents"}
    PROVE  ~AutoAfterBegin(c)
BY DEF StoreInv, IInv, Shape, Begun, Tidy, Bulk, AutoAfterBegin

\* What a connection sees is whole, but for the path it writes.
LEMMA Seen ==
    ASSUME StoreInv, NEW c \in Conn, pc[c] # "threw"
    PROVE  /\ Visible(c) \in Tables
           /\ \A p \in Path : \/ Whole(Visible(c), p)
                              \/ Writes(c) /\ p = args[c].path /\ Trimmed(Visible(c), p)
<1>1. Visible(c) \in Tables
  BY VisibleIsTables DEF StoreInv, IInv
<1>. QED
  BY <1>1 DEF StoreInv, Committed, Tidy, Others, Visible

Quiet(c) == pc[c] \in {"idle", "reading", "ending", "closed", "listing"}

\* Between writes the statements are free, and everything is whole.
LEMMA QuietTidy ==
    ASSUME StoreInv, NEW c \in Conn, Quiet(c)
    PROVE  /\ ~busyName[c] /\ ~busyChunk[c]
           /\ view[c] # None => \A p \in Path : Whole(view[c], p)
           /\ \A p \in Path : Whole(Visible(c), p)
<1>1. pc[c] # "threw" /\ ~Writes(c)
  BY DEF Quiet, Writes
<1>2. Tidy(c)
  BY DEF StoreInv
<1>3. ~busyName[c] /\ ~busyChunk[c]
  BY <1>1, <1>2 DEF Tidy, Statements
<1>4. view[c] # None => \A p \in Path : Whole(view[c], p)
  BY <1>1, <1>2 DEF Tidy, Others
<1>5. \A p \in Path : Whole(Visible(c), p)
  BY <1>1, Seen
<1>. QED
  BY <1>3, <1>4, <1>5

\* A connection between writes is tidy when it has what it needs.
LEMMA QuietIsTidy ==
    ASSUME NEW c \in Conn, Quiet(c), ~busyName[c], ~busyChunk[c], Bulk(c), Locked(c), Selects(c),
           view[c] # None => \A p \in Path : Whole(view[c], p)
    PROVE  Tidy(c)
BY DEF Quiet, Writes, Tidy, Statements, Others, Progress

LEMMA CommittedStays ==
    ASSUME Committed, db' = db
    PROVE  Committed'
BY DEF Committed, Whole, Absent, Holds, UpTo, Trimmed

-----------------------------------------------------------------------------
(* The steps between writes *)

LEMMA OpenTidy ==
    ASSUME StoreInv, IInv', NEW c \in Conn, NEW m, Open(c, m)
    PROVE  TidyStep(c)
<1>1. /\ pc[c] = "closed" /\ pc' = [pc EXCEPT ![c] = "listing"]
      /\ db' = Empty \/ db' = db
      /\ UNCHANGED <<names, auto, lock, view, bulk, writing, reading>>
  BY DEF Open, At, Goto
<1>2. pc \in [Conn -> Places] /\ Tidy(c)
  BY DEF StoreInv, IInv, WriteTypes
<1>3. \A d \in Conn \ {c} : SameAll(d)
  BY <1>1, <1>2 DEF SameAll, Same, writing, reading
<1>4. pc'[c] = "listing"
  BY <1>1, <1>2
<1>5. Committed'
  <2>1. CASE db' = Empty
    BY <2>1, EmptyIsWhole DEF Committed, Whole, Absent, Holds, UpTo, Trimmed
  <2>2. CASE db' = db
    BY <2>2, CommittedStays DEF StoreInv
  <2>. QED
    BY <1>1, <2>1, <2>2
<1>6. view[c] = None /\ lock[c] = "none" /\ ~busyName[c] /\ ~busyChunk[c]
  BY <1>1, Unopened, QuietTidy DEF Quiet
<1>7. Tidy(c)'
  <2>1. Bulk(c)' /\ Locked(c)' /\ Selects(c)'
    BY <1>1, <1>2, <1>4, <1>6 DEF Tidy, Bulk, Locked, Selects, Writes, writing, reading
  <2>2. Quiet(c)' /\ ~busyName'[c] /\ ~busyChunk'[c] /\ view'[c] = None
    BY <1>1, <1>4, <1>6 DEF Quiet, writing
  <2>. QED
    BY <2>1, <2>2 DEF Quiet, Writes, Tidy, Statements, Others, Progress
<1>8. ~Owns(c)'
  BY <1>1, <1>6 DEF Owns
<1>. QED
  BY <1>3, <1>5, <1>7, <1>8, TidyStepOfOne

LEMMA ListFilesTidy ==
    ASSUME StoreInv, IInv', NEW c \in Conn, ListFiles(c)
    PROVE  TidyStep(c)
<1>1. /\ pc[c] = "listing" /\ pc' = [pc EXCEPT ![c] = "idle"]
      /\ UNCHANGED <<db, auto, lock, view, bulk, writing, reading>>
  BY DEF ListFiles, At, Goto
<1>2. pc \in [Conn -> Places] /\ Tidy(c)
  BY DEF StoreInv, IInv, WriteTypes
<1>3. \A d \in Conn \ {c} : SameAll(d)
  BY <1>1, <1>2 DEF SameAll, Same, writing, reading
<1>4. pc'[c] = "idle"
  BY <1>1, <1>2
<1>5. view[c] = None /\ ~busyName[c] /\ ~busyChunk[c]
  BY <1>1, Unopened, QuietTidy DEF Quiet
<1>6. Tidy(c)'
  BY <1>1, <1>2, <1>4, <1>5 DEF Tidy, Bulk, Locked, Selects, Writes, writing, reading,
     Statements, Others, Progress
<1>7. Committed'
  BY <1>1, CommittedStays DEF StoreInv
<1>. QED
  BY <1>1, <1>3, <1>6, <1>7, TidyStepOfOne DEF Owns

LEMMA BeginBulkWritesTidy ==
    ASSUME StoreInv, IInv', NEW c \in Conn, BeginBulkWrites(c)
    PROVE  TidyStep(c)
<1>1. /\ pc[c] = "idle" /\ bulk' = [bulk EXCEPT ![c] = TRUE] /\ auto' = [auto EXCEPT ![c] = FALSE]
      /\ UNCHANGED <<db, pc, lock, view, writing, reading>>
  BY DEF BeginBulkWrites, At
<1>2. auto \in [Conn -> BOOLEAN] /\ bulk \in [Conn -> BOOLEAN] /\ Tidy(c)
  BY DEF StoreInv, IInv, TableTypes, OtherTypes
<1>3. \A d \in Conn \ {c} : SameAll(d)
  BY <1>1, <1>2 DEF SameAll, Same, writing, reading
<1>4. bulk'[c] /\ ~auto'[c]
  BY <1>1, <1>2
<1>5. ~busyName[c] /\ ~busyChunk[c] /\ (view[c] # None => \A p \in Path : Whole(view[c], p))
  BY <1>1, QuietTidy DEF Quiet
<1>6. Tidy(c)'
  <2>1. view'[c] # None => \A p \in Path : Whole(view[c], p)'
    BY <1>1, <1>5 DEF Whole, Absent, Holds, UpTo, Trimmed
  <2>. QED
    BY <1>1, <1>2, <1>4, <1>5, <2>1 DEF Tidy, Bulk, Locked, Selects, Writes, Owns, writing, reading,
       Statements, Others, Progress
<1>7. Committed'
  BY <1>1, CommittedStays DEF StoreInv
<1>. QED
  BY <1>1, <1>3, <1>6, <1>7, TidyStepOfOne DEF Owns

LEMMA StartEndBulkWritesTidy ==
    ASSUME StoreInv, IInv', NEW c \in Conn, StartEndBulkWrites(c)
    PROVE  TidyStep(c)
<1>1. /\ pc[c] = "idle" /\ pc' = [pc EXCEPT ![c] = "ending"]
      /\ UNCHANGED <<db, auto, lock, view, bulk, writing, reading>>
  BY DEF StartEndBulkWrites, At, Goto
<1>2. pc \in [Conn -> Places] /\ Tidy(c)
  BY DEF StoreInv, IInv, WriteTypes
<1>3. \A d \in Conn \ {c} : SameAll(d)
  BY <1>1, <1>2 DEF SameAll, Same, writing, reading
<1>4. pc'[c] = "ending"
  BY <1>1, <1>2
<1>5. ~busyName[c] /\ ~busyChunk[c] /\ (view[c] # None => \A p \in Path : Whole(view[c], p))
  BY <1>1, QuietTidy DEF Quiet
<1>6. Tidy(c)'
  <2>1. view'[c] # None => \A p \in Path : Whole(view[c], p)'
    BY <1>1, <1>5 DEF Whole, Absent, Holds, UpTo, Trimmed
  <2>. QED
    BY <1>1, <1>2, <1>4, <1>5, <2>1 DEF Tidy, Bulk, Locked, Selects, Writes, Owns, writing, reading,
       Statements, Others, Progress
<1>7. Committed'
  BY <1>1, CommittedStays DEF StoreInv
<1>. QED
  BY <1>1, <1>3, <1>6, <1>7, TidyStepOfOne DEF Owns

\* What is seen becomes what is committed.
LEMMA SeenIsCommitted ==
    ASSUME NEW t, db' = t, \A p \in Path : Whole(t, p)
    PROVE  Committed'
<1>. SUFFICES ASSUME NEW p \in Path PROVE Whole(db', p)
  BY DEF Committed, Whole, Absent, Holds, UpTo, Trimmed
<1>. QED
  OBVIOUS

LEMMA EndBulkWritesTidy ==
    ASSUME StoreInv, IInv', NEW c \in Conn, EndBulkWrites(c)
    PROVE  TidyStep(c)
<1>1. /\ pc[c] = "ending" /\ pc' = [pc EXCEPT ![c] = "idle"]
      /\ bulk' = [bulk EXCEPT ![c] = FALSE]
      /\ UNCHANGED <<writing, reading>>
  BY DEF EndBulkWrites, At, Goto
<1>2. /\ pc \in [Conn -> Places] /\ bulk \in [Conn -> BOOLEAN] /\ Tidy(c) /\ TableTypes
      /\ bulk[c]
  BY <1>1 DEF StoreInv, IInv, WriteTypes, OtherTypes, Shape, Begun
<1>3. Commit(c, Visible(c))
  BY <1>2 DEF EndBulkWrites, Tidy, Bulk
<1>4. /\ auto'[c] /\ view'[c] = None /\ lock'[c] = "none"
      /\ \A d \in Conn \ {c} : SameTables(d)
  BY <1>2, <1>3, CommitHolds, VisibleIsTables
<1>5. \A d \in Conn \ {c} : SameAll(d)
  BY <1>1, <1>2, <1>4 DEF SameAll, Same, SameTables, writing, reading
<1>6. pc'[c] = "idle" /\ ~bulk'[c]
  BY <1>1, <1>2
<1>7. ~busyName[c] /\ ~busyChunk[c] /\ \A p \in Path : Whole(Visible(c), p)
  BY <1>1, QuietTidy DEF Quiet
<1>8. Tidy(c)'
  BY <1>1, <1>2, <1>4, <1>6, <1>7 DEF Tidy, Bulk, Locked, Selects, Writes, writing, reading,
     Statements, Others, Progress
<1>9. Committed'
  BY <1>3, <1>7, SeenIsCommitted DEF Commit
<1>. QED
  BY <1>4, <1>5, <1>8, <1>9, TidyStepOfOne DEF Owns

LEMMA EndBulkWritesBusyTidy ==
    ASSUME StoreInv, IInv', NEW c \in Conn, EndBulkWritesBusy(c)
    PROVE  TidyStep(c)
<1>1. /\ pc[c] = "ending" /\ view[c] # None /\ WaitForReaders(c)
      /\ UNCHANGED <<db, auto, view, pc, bulk, writing, reading>>
  BY DEF EndBulkWritesBusy, At, WaitForReaders
<1>2. Tidy(c) /\ TableTypes
  BY DEF StoreInv, IInv
<1>3. lock'[c] = "pending" /\ \A d \in Conn \ {c} : SameTables(d)
  BY <1>1, <1>2, WaitHolds
<1>4. \A d \in Conn \ {c} : SameAll(d)
  BY <1>1, <1>3 DEF SameAll, Same, SameTables, writing, reading
<1>5. Owns(c)
  BY <1>1, <1>2 DEF Tidy, Locked
<1>6. Tidy(c)'
  <2>1. Others(c)' /\ Progress(c)'
    BY <1>1, <1>2 DEF Tidy, Others, Progress, Writes, Whole, Trimmed, Absent, UpTo, Holds, writing
  <2>. QED
    BY <1>1, <1>2, <1>3, <2>1 DEF Tidy, Bulk, Locked, Selects, Writes, Owns, Statements, writing, reading
<1>7. Committed'
  BY <1>1, CommittedStays DEF StoreInv
<1>. QED
  BY <1>4, <1>5, <1>6, <1>7, TidyStepOfOne

LEMMA StartReadTidy ==
    ASSUME StoreInv, IInv', NEW c \in Conn, NEW p \in Path, StartRead(c, p)
    PROVE  TidyStep(c)
<1>1. /\ pc[c] = "idle" /\ pc' = [pc EXCEPT ![c] = "reading"]
      /\ lock' = [lock EXCEPT ![c] = IF lock[c] = "none" THEN "shared" ELSE lock[c]]
      /\ asked' = [asked EXCEPT ![c] = p]
      /\ selected' = [selected EXCEPT ![c] = IF unreset[c] = None THEN p ELSE unreset[c]]
      /\ DOMAIN reply' = DOMAIN reply
      /\ UNCHANGED <<db, auto, view, bulk, writing, unreset>>
  BY DEF StartRead, At, Goto
<1>2. /\ pc \in [Conn -> Places] /\ lock \in [Conn -> {"none", "shared", "reserved", "pending"}]
      /\ asked \in [Conn -> Path \cup {None}] /\ selected \in [Conn -> Path \cup {None}] /\ Tidy(c)
  BY DEF StoreInv, IInv, WriteTypes, TableTypes, OtherTypes
<1>3. \A d \in Conn \ {c} : SameAll(d)
  BY <1>1, <1>2 DEF SameAll, Same, writing
<1>4. /\ pc'[c] = "reading" /\ lock'[c] = IF lock[c] = "none" THEN "shared" ELSE lock[c]
      /\ asked'[c] = p /\ selected'[c] = IF unreset[c] = None THEN p ELSE unreset[c]
  BY <1>1, <1>2
<1>5. ~busyName[c] /\ ~busyChunk[c] /\ (view[c] # None => \A q \in Path : Whole(view[c], q))
  BY <1>1, QuietTidy DEF Quiet
<1>6. p # None
  BY SqliteAssumption
<1>7. Tidy(c)'
  <2>1. view'[c] # None => \A q \in Path : Whole(view[c], q)'
    BY <1>1, <1>5 DEF Whole, Absent, Holds, UpTo, Trimmed
  <2>. QED
    BY <1>1, <1>2, <1>4, <1>5, <1>6, <2>1 DEF Tidy, Bulk, Locked, Selects, Writes, Owns, writing,
       Statements, Others, Progress
<1>8. Committed'
  BY <1>1, CommittedStays DEF StoreInv
<1>. QED
  BY <1>4, <1>3, <1>7, <1>8, TidyStepOfOne DEF Owns

LEMMA StartReadBusyTidy ==
    ASSUME StoreInv, IInv', NEW c \in Conn, StartReadBusy(c)
    PROVE  TidyStep(c)
<1>1. /\ unreset' = [unreset EXCEPT ![c] = None]
      /\ UNCHANGED <<db, pc, auto, lock, view, bulk, writing, asked, selected, reply>>
  BY DEF StartReadBusy
<1>2. unreset \in [Conn -> Path \cup {None}] /\ Tidy(c)
  BY DEF StoreInv, IInv, OtherTypes
<1>3. \A d \in Conn : SameAll(d)
  BY <1>1, <1>2 DEF SameAll, Same, writing, Tidy, Selects
<1>4. Tidy(c)' /\ Committed'
  BY <1>1, <1>2, <1>3, SameTidy, CommittedStays DEF StoreInv
<1>. QED
  BY <1>1, <1>3, <1>4, TidyStepOfOne DEF Owns

\* What a read returns, and that it does not throw.
LEMMA ReadsWhole ==
    ASSUME StoreInv, NEW c \in Conn, FinishRead(c)
    PROVE  /\ asked[c] \in Path
           /\ reply' = [reply EXCEPT ![c] = ValueIn(Visible(c), asked[c])]
           /\ reply'[c] = ValueIn(Visible(c), asked[c])
           /\ reply'[c] # Fails
<1>1. pc[c] = "reading" /\ reply' = [reply EXCEPT ![c] = ValueIn(Visible(c), selected[c])]
  BY DEF FinishRead, At
<1>2. Tidy(c) /\ asked \in [Conn -> Path \cup {None}]
  BY DEF StoreInv, IInv, OtherTypes
<1>3. selected[c] = asked[c] /\ asked[c] \in Path /\ c \in DOMAIN reply
  BY <1>1, <1>2 DEF Tidy, Selects
<1>4. Visible(c) \in Tables /\ Whole(Visible(c), asked[c])
  BY <1>1, <1>3, Seen, QuietTidy DEF Quiet
<1>5. ValueIn(Visible(c), asked[c]) # Fails
  BY <1>3, <1>4, WholeValue
<1>. QED
  BY <1>1, <1>3, <1>5

LEMMA FinishReadTidy ==
    ASSUME StoreInv, IInv', NEW c \in Conn, FinishRead(c)
    PROVE  TidyStep(c)
<1>1. /\ pc[c] = "reading" /\ pc' = [pc EXCEPT ![c] = "idle"]
      /\ lock' = [lock EXCEPT ![c] = IF auto[c] THEN "none" ELSE lock[c]]
      /\ unreset' = [unreset EXCEPT ![c] = BoundAfterRead(c, reply'[c])]
      /\ asked' = [asked EXCEPT ![c] = None] /\ selected' = [selected EXCEPT ![c] = None]
      /\ DOMAIN reply' = DOMAIN reply
      /\ UNCHANGED <<db, auto, view, bulk, writing>>
  BY DEF FinishRead, At, Goto
<1>2. /\ pc \in [Conn -> Places] /\ lock \in [Conn -> {"none", "shared", "reserved", "pending"}]
      /\ \A f \in {asked, selected, unreset} : f \in [Conn -> Path \cup {None}]
      /\ Tidy(c) /\ Shape(c)
  BY DEF StoreInv, IInv, WriteTypes, TableTypes, OtherTypes
<1>3. \A d \in Conn \ {c} : SameAll(d)
  BY <1>1, <1>2 DEF SameAll, Same, writing
<1>4. BoundAfterRead(c, reply'[c]) = None
  BY ReadsWhole DEF BoundAfterRead
<1>5. pc'[c] = "idle" /\ unreset'[c] = None /\ lock'[c] = IF auto[c] THEN "none" ELSE lock[c]
  BY <1>1, <1>2, <1>4
<1>6. ~busyName[c] /\ ~busyChunk[c] /\ (view[c] # None => \A q \in Path : Whole(view[c], q))
  BY <1>1, QuietTidy DEF Quiet
<1>7. auto[c] => view[c] = None
  BY <1>2 DEF Shape, Released
<1>8. Tidy(c)'
  <2>1. view'[c] # None => \A q \in Path : Whole(view[c], q)'
    BY <1>1, <1>6 DEF Whole, Absent, Holds, UpTo, Trimmed
  <2>. QED
    BY <1>1, <1>2, <1>5, <1>6, <1>7, <2>1 DEF Tidy, Bulk, Locked, Selects, Writes, Owns, writing,
       Statements, Others, Progress
<1>9. Committed'
  BY <1>1, CommittedStays DEF StoreInv
<1>. QED
  BY <1>3, <1>5, <1>8, <1>9, TidyStepOfOne DEF Owns

LEMMA ForgetTidy ==
    ASSUME StoreInv, IInv', NEW c \in Conn, Forget(c)
    PROVE  TidyStep(c)
<1>1. TableTypes /\ WriteTypes /\ OtherTypes /\ Tidy(c)
  BY DEF StoreInv, IInv
<1>2. \A d \in Conn \ {c} : SameAll(d)
  <2>1. \A d \in Conn \ {c} : Same(d)
    BY <1>1 DEF Same, WriteTypes, TableTypes, OtherTypes, Forget, Goto
  <2>. QED
    BY <1>1, <2>1 DEF SameAll, OtherTypes, Forget
<1>3. /\ pc'[c] = "closed" /\ view'[c] = None /\ lock'[c] = "none" /\ ~bulk'[c]
      /\ ~busyName'[c] /\ ~busyChunk'[c]
  <2>. HIDE DEF Tables
  <2>. QED
    BY <1>1 DEF TableTypes, WriteTypes, OtherTypes, Forget, Goto
<1>4. unreset'[c] = None /\ c \in DOMAIN reply'
  BY <1>1 DEF OtherTypes, Forget, Tidy, Selects
<1>5. Tidy(c)'
  BY <1>3, <1>4 DEF Tidy, Bulk, Locked, Selects, Writes, Statements, Others, Progress
<1>6. Committed'
  BY CommittedStays DEF Forget, StoreInv
<1>. QED
  BY <1>2, <1>3, <1>5, <1>6, TidyStepOfOne DEF Owns

-----------------------------------------------------------------------------
(* The steps of a write *)

LEMMA StartWriteTidy ==
    ASSUME StoreInv, IInv', AsMeant, NEW c \in Conn, NEW p \in Path, NEW v \in Content,
           NEW immediate \in BOOLEAN, StartWrite(c, p, v, immediate)
    PROVE  TidyStep(c)
<1>. DEFINE request == [path |-> p, content |-> v, immediate |-> immediate]
            w == [path |-> p, content |-> v]
<1>1. request.path = p /\ request.content = v /\ request.immediate = immediate
  OBVIOUS
<1>2. ~busyName[c] /\ ~busyChunk[c] /\ (view[c] # None => \A q \in Path : Whole(view[c], q))
  BY QuietTidy DEF Quiet, StartWrite, At
<1>3. /\ pc[c] = "idle" /\ (immediate => ~bulk[c])
      /\ args' = [args EXCEPT ![c] = request]
      /\ bound' = [bound EXCEPT ![c] = w]
      /\ pc' = [pc EXCEPT ![c] = "filename"]
      /\ UNCHANGED <<db, auto, lock, view, bulk, chunkidx, busyName, busyChunk, reading>>
  BY <1>2 DEF StartWrite, Bind, Goto, At, AsMeant
<1>4. w = [path |-> request.path, content |-> request.content]
  OBVIOUS
<1>. HIDE DEF request, w
<1>5. /\ pc \in [Conn -> Places] /\ args \in [Conn -> Request \cup {None}]
      /\ bound \in [Conn -> Write \cup {None}] /\ Tidy(c)
  BY DEF StoreInv, IInv, WriteTypes
<1>6. \A d \in Conn \ {c} : SameAll(d)
  <2>. HIDE DEF Request, Write
  <2>. QED
    BY <1>3, <1>5 DEF SameAll, Same, reading
<1>7. pc'[c] = "filename" /\ args'[c] = request /\ bound'[c] = w
  BY <1>3, <1>5
<1>8. Tidy(c)'
  <2>1. view'[c] # None => \A q \in Path : Whole(view[c], q)'
    BY <1>2, <1>3 DEF Whole, Absent, Holds, UpTo, Trimmed
  <2>. QED
    BY <1>1, <1>2, <1>3, <1>4, <1>5, <1>7, <2>1 DEF Tidy, Bulk, Locked, Selects, Writes, Owns, reading,
       Statements, Others, Progress
<1>9. Committed'
  BY <1>3, CommittedStays DEF StoreInv
<1>. QED
  BY <1>3, <1>6, <1>8, <1>9, TidyStepOfOne DEF Owns

\* What holds of tables that a connection gets holds of its tables afterwards.
LEMMA ViewAfter ==
    ASSUME NEW c, NEW t, view'[c] = t
    PROVE  /\ \A p : Whole(t, p) => Whole(view[c], p)'
           /\ \A p : Trimmed(t, p) => Trimmed(view[c], p)'
           /\ \A p, v, k : UpTo(t, p, v, k) => UpTo(view[c], p, v, k)'
           /\ \A p, v : Holds(t, p, v) => Holds(view[c], p, v)'
BY DEF Whole, Absent, Holds, UpTo, Trimmed

\* An INSERT in a transaction, of one that no other has.
LEMMA InsertEffect ==
    ASSUME StoreInv, NEW c \in Conn, NEW t \in Tables, pc[c] \in {"filename", "contents"},
           CanInsert(c), Insert(c, t)
    PROVE  /\ view'[c] = t /\ Owns(c)' /\ ~auto'[c] /\ db' = db
           /\ \A d \in Conn \ {c} : SameTables(d)
           /\ Owns(c) \/ \A d \in Conn \ {c} : ~Owns(d)
<1>1. ~AutoAfterBegin(c)
  BY InTransaction
<1>2. TableTypes
  BY DEF StoreInv, IInv
<1>3. view' = [view EXCEPT ![c] = t] /\ db' = db
  BY <1>1 DEF Insert
<1>4. ~auto'[c] /\ lock'[c] \in {"reserved", "pending"} /\ \A d \in Conn \ {c} : SameTables(d)
  BY <1>1, <1>2, InsertHolds
<1>5. view'[c] = t
  <2>. HIDE DEF Tables
  <2>. QED
    BY <1>2, <1>3 DEF TableTypes
<1>6. Owns(c) \/ \A d \in Conn \ {c} : ~Owns(d)
  BY DEF CanInsert, CanReserve, Owns
<1>. QED
  BY <1>3, <1>4, <1>5, <1>6 DEF Owns

\* What a write in progress is about.
LEMMA Writing ==
    ASSUME StoreInv, NEW c \in Conn, Writes(c)
    PROVE  /\ args[c] # None /\ args[c].path \in Path /\ args[c].content \in Content
           /\ args[c].immediate \in BOOLEAN
           /\ bound[c].path = args[c].path /\ bound[c].content = args[c].content
           /\ ~busyChunk[c]
           /\ Visible(c) \in Tables
           /\ \A p \in Path \ {args[c].path} : Whole(Visible(c), p)
           /\ OneLength => Trimmed(Visible(c), args[c].path)
<1>1. Tidy(c) /\ Shape(c) /\ WriteTypes /\ pc[c] # "threw"
  BY DEF StoreInv, IInv, Writes
<1>2. args[c] # None /\ bound[c] # None
  BY <1>1 DEF Shape, Requested, Writes
<1>3. /\ args[c].path \in Path /\ args[c].content \in Content /\ args[c].immediate \in BOOLEAN
  BY <1>1, <1>2, Asked
<1>4. bound[c] = [path |-> args[c].path, content |-> args[c].content] /\ ~busyChunk[c]
  BY <1>1 DEF Tidy, Statements
<1>5. bound[c].path = args[c].path /\ bound[c].content = args[c].content
  BY <1>4
<1>6. /\ Visible(c) \in Tables
      /\ \A p \in Path \ {args[c].path} : Whole(Visible(c), p)
      /\ OneLength => Trimmed(Visible(c), args[c].path)
  BY <1>1, <1>3, Seen, WholeIsTrimmed
<1>. QED
  BY <1>2, <1>3, <1>4, <1>5, <1>6

LEMMA InsertNameTidy ==
    ASSUME StoreInv, IInv', AsMeant, NEW c \in Conn, InsertName(c)
    PROVE  TidyStep(c)
<1>. DEFINE p == args[c].path
            v == args[c].content
            u == WithName(Visible(c), p, v)
<1>1. pc[c] = "filename" /\ Writes(c) /\ Tidy(c) /\ Shape(c) /\ TableTypes /\ WriteTypes
  BY DEF StoreInv, IInv, InsertName, At, Writes
<1>2. /\ args[c] # None /\ p \in Path /\ v \in Content /\ ~busyChunk[c]
      /\ \A q \in Path \ {p} : Whole(Visible(c), q)
      /\ Trimmed(Visible(c), p) /\ Visible(c) \in Tables
  BY <1>1, Writing DEF AsMeant
<1>3. /\ CanInsert(c) /\ Insert(c, u) /\ UNCHANGED <<bulk, reading>>
  BY <1>1, Writing DEF InsertName
<1>4. u \in Tables /\ UpTo(u, p, v, 0) /\ Trimmed(u, p) /\ \A q \in Path \ {p} : Whole(u, q)
  BY <1>2, WithNameIsTables, NameInserted, AlikeHolds
<1>. HIDE DEF u
<1>5. /\ view'[c] = u /\ Owns(c)' /\ ~auto'[c] /\ db' = db
      /\ \A d \in Conn \ {c} : SameTables(d)
      /\ Owns(c) \/ \A d \in Conn \ {c} : ~Owns(d)
  BY <1>1, <1>3, <1>4, InsertEffect
<1>6. u # None
  BY <1>4, SqliteAssumption
<1>7. Committed'
  BY <1>5, CommittedStays DEF StoreInv
<1>8. Len(v.chunks) \in 0..MaxChunks
  BY <1>2, ContentOf
<1>9. Len(v.chunks) = 0 => Holds(u, p, v) /\ Whole(u, p)
  BY <1>2, <1>4, WrittenIsWhole
<1>10. CASE AfterChunk(c, 0) = "idle"
  <2>1. Finish(c)
    BY <1>10 DEF InsertName
  <2>2. /\ pc'[c] = "idle" /\ args'[c] = None /\ bound'[c] = None /\ chunkidx'[c] = 1
        /\ ~busyName'[c] /\ ~busyChunk'[c]
        /\ \A d \in Conn \ {c} : SameWrite(d)
    BY <1>1, <1>2, <2>1, FinishHolds
  <2>3. \A d \in Conn \ {c} : SameAll(d)
    BY <1>3, <1>5, <2>2 DEF SameAll, Same, SameWrite, SameTables, reading
  <2>4. Len(v.chunks) = 0
    BY <1>8, <1>10 DEF AfterChunk
  <2>5. \A q \in Path : Whole(u, q)
    BY <1>4, <1>9, <2>4
  <2>6. \A q \in Path : Whole(view[c], q)'
    BY <1>5, <2>5, ViewAfter
  <2>7. Tidy(c)'
    BY <1>1, <1>3, <1>5, <2>2, <2>6 DEF Tidy, Bulk, Locked, Selects, Writes, reading, Statements,
       Others, Progress
  <2>. QED
    BY <1>5, <1>7, <2>3, <2>7, TidyStepOfOne
<1>11. CASE AfterChunk(c, 0) # "idle"
  <2>1. /\ pc' = [pc EXCEPT ![c] = AfterChunk(c, 0)]
        /\ busyName' = [busyName EXCEPT ![c] = FALSE]
        /\ UNCHANGED <<args, bound, chunkidx, busyChunk>>
    BY <1>11 DEF InsertName, Goto
  <2>2. pc'[c] = AfterChunk(c, 0) /\ ~busyName'[c]
    BY <1>1, <2>1 DEF WriteTypes
  <2>3. \A d \in Conn \ {c} : SameAll(d)
    BY <1>1, <1>3, <1>5, <2>1 DEF SameAll, Same, SameTables, WriteTypes, reading
  <2>4. AfterChunk(c, 0) \in {"contents", "commit"} /\ (AfterChunk(c, 0) = "commit" => Len(v.chunks) = 0)
    BY <1>8, <1>11 DEF AfterChunk
  <2>5. chunkidx'[c] = 1
    BY <1>1, <2>1 DEF Shape, InChunks
  <2>6. Others(c)'
    <3>1. \A q \in Path : Whole(u, q) \/ (q = p /\ Trimmed(u, q))
      BY <1>4
    <3>2. \A q \in Path : Whole(view[c], q)' \/ (q = p /\ Trimmed(view[c], q)')
      BY <1>5, <3>1, ViewAfter
    <3>3. p = args'[c].path
      BY <2>1
    <3>. QED
      BY <2>2, <2>4, <3>2, <3>3 DEF Others, Writes
  <2>7. Progress(c)'
    <3>1. UpTo(u, p, v, 0) /\ (AfterChunk(c, 0) = "commit" => Holds(u, p, v))
      BY <1>4, <1>9, <2>4
    <3>. QED
      BY <1>5, <1>6, <2>1, <2>2, <2>5, <3>1 DEF Progress, UpTo, Holds, Trimmed
  <2>8. Tidy(c)'
    BY <1>1, <1>2, <1>3, <1>5, <2>1, <2>2, <2>4, <2>6, <2>7 DEF Tidy, Bulk, Locked, Selects, Writes,
       reading, Statements
  <2>. QED
    BY <1>5, <1>7, <2>3, <2>8, TidyStepOfOne
<1>. QED
  BY <1>10, <1>11

LEMMA InsertNameBusyTidy ==
    ASSUME StoreInv, IInv', AsMeant, NEW c \in Conn, InsertNameBusy(c)
    PROVE  TidyStep(c)
<1>. DEFINE place == IF args[c].immediate THEN AfterChunk(c, 0) ELSE "filename"
<1>1. pc[c] = "filename" /\ Writes(c) /\ Tidy(c) /\ Shape(c) /\ TableTypes /\ WriteTypes
  BY DEF StoreInv, IInv, InsertNameBusy, At, Writes
<1>2. /\ busyName' = [busyName EXCEPT ![c] = TRUE]
      /\ auto' = [auto EXCEPT ![c] = AutoAfterBegin(c)]
      /\ pc' = [pc EXCEPT ![c] = place]
      /\ UNCHANGED <<db, lock, view, bulk, args, bound, chunkidx, busyChunk, reading>>
  BY DEF InsertNameBusy, Goto
<1>3. /\ place \in {"filename", "contents", "commit"}
      /\ place = "contents" => args[c].immediate
  BY Onward
<1>. HIDE DEF place
<1>4. ~AutoAfterBegin(c)
  BY <1>1, InTransaction
<1>5. pc'[c] = place /\ busyName'[c] /\ ~auto'[c]
  <2>. HIDE DEF Tables
  <2>. QED
    BY <1>1, <1>2, <1>4 DEF TableTypes, WriteTypes
<1>6. \A d \in Conn \ {c} : SameAll(d)
  BY <1>1, <1>2 DEF SameAll, Same, WriteTypes, TableTypes, reading
<1>7. Others(c)'
  <2>1. view'[c] # None =>
          \A q \in Path : Whole(view[c], q) \/ (q = args[c].path /\ Trimmed(view[c], q))
    BY <1>1, <1>2 DEF Tidy, Others
  <2>2. view'[c] # None =>
          \A q \in Path : Whole(view[c], q)' \/ (q = args'[c].path /\ Trimmed(view[c], q)')
    BY <1>2, <2>1, ViewAfter
  <2>. QED
    BY <1>3, <1>5, <2>2 DEF Others, Writes
<1>8. Progress(c)'
  BY <1>5 DEF Progress
<1>9. Tidy(c)'
  BY <1>1, <1>2, <1>3, <1>5, <1>7, <1>8 DEF Tidy, Bulk, Locked, Selects, Writes, Owns, reading, Statements
<1>10. Committed'
  BY <1>2, CommittedStays DEF StoreInv
<1>. QED
  BY <1>2, <1>6, <1>9, <1>10, TidyStepOfOne DEF Owns

LEMMA InsertChunkTidy ==
    ASSUME StoreInv, IInv', AsMeant, NEW c \in Conn, InsertChunk(c)
    PROVE  TidyStep(c)
<1>. DEFINE p == args[c].path
            v == args[c].content
            i == chunkidx[c]
            n == Len(v.chunks)
            u == WithChunk(Visible(c), p, i, ChunkOf(v, i))
<1>1. pc[c] = "contents" /\ Writes(c) /\ Tidy(c) /\ Shape(c) /\ TableTypes /\ WriteTypes
  BY DEF StoreInv, IInv, InsertChunk, At, Writes
<1>2. /\ args[c] # None /\ p \in Path /\ v \in Content /\ ~busyChunk[c]
      /\ \A q \in Path \ {p} : Whole(Visible(c), q)
      /\ Trimmed(Visible(c), p) /\ Visible(c) \in Tables
  BY <1>1, Writing DEF AsMeant
<1>3. n \in 0..MaxChunks /\ i \in 1..n /\ i \in 1..MaxChunks
  BY <1>1, <1>2, ContentOf, SqliteAssumption DEF Shape, InChunks, WriteTypes
<1>4. /\ CanInsert(c) /\ Insert(c, u)
      /\ IF AfterChunk(c, i) = "idle"
         THEN Finish(c)
         ELSE /\ pc' = [pc EXCEPT ![c] = AfterChunk(c, i)]
              /\ chunkidx' = [chunkidx EXCEPT ![c] =
                                IF AfterChunk(c, i) = "contents" THEN i + 1 ELSE 1]
              /\ busyChunk' = [busyChunk EXCEPT ![c] = FALSE]
              /\ UNCHANGED <<args, bound, busyName>>
      /\ UNCHANGED <<bulk, reading>>
  BY <1>1, Writing DEF InsertChunk, Goto
<1>5. /\ u \in Tables /\ Trimmed(u, p)
      /\ \A q \in Path \ {p} : Whole(u, q)
      /\ ~busyName[c] => UpTo(u, p, v, i)
  <2>1. ~busyName[c] => UpTo(Visible(c), p, v, i - 1)
    BY <1>1 DEF Tidy, Progress, Visible
  <2>2. u \in Tables
    BY <1>2, <1>3, ChunkOfIsChunk, WithChunkIsTables
  <2>. QED
    BY <1>2, <1>3, <2>1, <2>2, ChunkInserted, AlikeHolds DEF AsMeant
<1>. HIDE DEF u
<1>6. /\ view'[c] = u /\ Owns(c)' /\ ~auto'[c] /\ db' = db
      /\ \A d \in Conn \ {c} : SameTables(d)
      /\ Owns(c) \/ \A d \in Conn \ {c} : ~Owns(d)
  BY <1>1, <1>4, <1>5, InsertEffect
<1>7. u # None
  BY <1>5, SqliteAssumption
<1>8. Committed'
  BY <1>6, CommittedStays DEF StoreInv
<1>9. i = n /\ ~busyName[c] => Holds(u, p, v) /\ Whole(u, p)
  BY <1>2, <1>5, WrittenIsWhole
<1>10. CASE AfterChunk(c, i) = "idle"
  <2>1. Finish(c)
    BY <1>4, <1>10
  <2>2. /\ pc'[c] = "idle" /\ args'[c] = None /\ bound'[c] = None /\ chunkidx'[c] = 1
        /\ ~busyName'[c] /\ ~busyChunk'[c]
        /\ \A d \in Conn \ {c} : SameWrite(d)
    BY <1>1, <1>2, <2>1, FinishHolds
  <2>3. \A d \in Conn \ {c} : SameAll(d)
    BY <1>4, <1>6, <2>2 DEF SameAll, Same, SameWrite, SameTables, reading
  <2>4. i = n /\ ~args[c].immediate
    BY <1>3, <1>10 DEF AfterChunk
  <2>5. ~busyName[c]
    BY <1>1, <2>4 DEF Tidy, Statements
  <2>6. \A q \in Path : Whole(u, q)
    BY <1>5, <1>9, <2>4, <2>5
  <2>7. \A q \in Path : Whole(view[c], q)'
    BY <1>6, <2>6, ViewAfter
  <2>8. Tidy(c)'
    BY <1>1, <1>4, <1>6, <2>2, <2>7 DEF Tidy, Bulk, Locked, Selects, Writes, reading, Statements,
       Others, Progress
  <2>. QED
    BY <1>6, <1>8, <2>3, <2>8, TidyStepOfOne
<1>11. CASE AfterChunk(c, i) # "idle"
  <2>. DEFINE next == IF AfterChunk(c, i) = "contents" THEN i + 1 ELSE 1
  <2>1. /\ pc' = [pc EXCEPT ![c] = AfterChunk(c, i)]
        /\ chunkidx' = [chunkidx EXCEPT ![c] = next]
        /\ busyChunk' = [busyChunk EXCEPT ![c] = FALSE]
        /\ UNCHANGED <<args, bound, busyName>>
    BY <1>4, <1>11
  <2>2. AfterChunk(c, i) \in {"contents", "commit"} /\ (AfterChunk(c, i) = "commit" => i = n)
    BY <1>3, <1>11 DEF AfterChunk
  <2>3. AfterChunk(c, i) = "contents" => next - 1 = i
    BY <1>3
  <2>. HIDE DEF next
  <2>4. pc'[c] = AfterChunk(c, i) /\ ~busyChunk'[c] /\ chunkidx'[c] = next
    BY <1>1, <2>1 DEF WriteTypes
  <2>5. \A d \in Conn \ {c} : SameAll(d)
    BY <1>1, <1>4, <1>6, <2>1 DEF SameAll, Same, SameTables, WriteTypes, reading
  <2>6. Others(c)'
    <3>1. \A q \in Path : Whole(u, q) \/ (q = p /\ Trimmed(u, q))
      BY <1>5
    <3>2. \A q \in Path : Whole(view[c], q)' \/ (q = p /\ Trimmed(view[c], q)')
      BY <1>6, <3>1, ViewAfter
    <3>3. p = args'[c].path
      BY <2>1
    <3>. QED
      BY <2>2, <2>4, <3>2, <3>3 DEF Others, Writes
  <2>7. Progress(c)'
    <3>1. ~busyName'[c] =>
            /\ UpTo(u, p, v, i)
            /\ AfterChunk(c, i) = "commit" => Holds(u, p, v)
      BY <1>5, <1>9, <2>1, <2>2
    <3>2. ~busyName'[c] /\ pc'[c] = "contents" => UpTo(view[c], args[c].path, args[c].content, chunkidx[c] - 1)'
      BY <1>6, <2>1, <2>3, <2>4, <3>1 DEF UpTo
    <3>3. ~busyName'[c] /\ pc'[c] = "commit" => Holds(view[c], args[c].path, args[c].content)'
      BY <1>6, <2>1, <2>4, <3>1 DEF Holds, UpTo, Trimmed
    <3>. QED
      BY <1>6, <1>7, <3>2, <3>3 DEF Progress
  <2>8. Tidy(c)'
    BY <1>1, <1>2, <1>4, <1>6, <2>1, <2>2, <2>4, <2>6, <2>7 DEF Tidy, Bulk, Locked, Selects, Writes,
       reading, Statements
  <2>. QED
    BY <1>6, <1>8, <2>5, <2>8, TidyStepOfOne
<1>. QED
  BY <1>10, <1>11

\* Only an immediate write can find the lock taken at its first chunk.
LEMMA InsertChunkBusyTidy ==
    ASSUME StoreInv, IInv', NEW c \in Conn, InsertChunkBusy(c)
    PROVE  TidyStep(c)
<1>1. /\ pc[c] = "contents" /\ Writes(c) /\ Tidy(c) /\ Shape(c) /\ WriteTypes
      /\ args[c].immediate \in BOOLEAN
  BY Writing DEF StoreInv, IInv, InsertChunkBusy, At, Writes
<1>2. ~Owns(c)
  BY <1>1, InTransaction DEF InsertChunkBusy, CanInsert, CanReserve, Owns
<1>3. args[c].immediate
  BY <1>1, <1>2 DEF Tidy, Statements, Progress, Locked
<1>4. /\ busyChunk' = [busyChunk EXCEPT ![c] = TRUE]
      /\ pc' = [pc EXCEPT ![c] = "threw"]
      /\ UNCHANGED <<db, auto, lock, view, bulk, args, bound, chunkidx, busyName, reading>>
  BY <1>3 DEF InsertChunkBusy, Goto
<1>5. pc'[c] = "threw" /\ busyChunk'[c]
  BY <1>1, <1>4 DEF WriteTypes
<1>6. \A d \in Conn \ {c} : SameAll(d)
  BY <1>1, <1>4 DEF SameAll, Same, WriteTypes, reading
<1>7. Tidy(c)'
  BY <1>1, <1>4, <1>5 DEF Tidy, Bulk, Locked, Selects, Writes, Owns, reading, Statements, Others, Progress
<1>8. Committed'
  BY <1>4, CommittedStays DEF StoreInv
<1>. QED
  BY <1>4, <1>6, <1>7, <1>8, TidyStepOfOne DEF Owns

\* A COMMIT comes when the write is all there.
LEMMA CommitsWhole ==
    ASSUME StoreInv, NEW c \in Conn, CommitWrite(c)
    PROVE  /\ view[c] # None /\ Holds(Visible(c), args[c].path, args[c].content)
           /\ \A p \in Path : Whole(Visible(c), p)
           /\ db' = Visible(c)
<1>1. pc[c] = "commit" /\ Writes(c) /\ Tidy(c) /\ ~busyName[c]
  BY DEF StoreInv, CommitWrite, At, Writes, InsertUnfinished
<1>2. view[c] # None /\ Holds(Visible(c), args[c].path, args[c].content)
  BY <1>1 DEF Tidy, Progress, Visible
<1>. QED
  BY <1>1, <1>2, Writing DEF CommitWrite, Commit, Whole

LEMMA CommitWriteTidy ==
    ASSUME StoreInv, IInv', NEW c \in Conn, CommitWrite(c)
    PROVE  TidyStep(c)
<1>1. /\ pc[c] = "commit" /\ Writes(c) /\ Tidy(c) /\ TableTypes /\ WriteTypes /\ args[c] # None
      /\ UNCHANGED <<bulk, reading>> /\ args[c].immediate
  BY Writing DEF StoreInv, IInv, CommitWrite, At, Writes, Shape, Begun
<1>2. /\ auto'[c] /\ view'[c] = None /\ lock'[c] = "none"
      /\ \A d \in Conn \ {c} : SameTables(d)
  BY <1>1, CommitHolds, VisibleIsTables DEF CommitWrite
<1>3. /\ pc'[c] = "idle" /\ args'[c] = None /\ bound'[c] = None /\ chunkidx'[c] = 1
      /\ ~busyName'[c] /\ ~busyChunk'[c]
      /\ \A d \in Conn \ {c} : SameWrite(d)
  BY <1>1, FinishHolds DEF CommitWrite
<1>4. \A d \in Conn \ {c} : SameAll(d)
  BY <1>1, <1>2, <1>3 DEF SameAll, Same, SameWrite, SameTables, reading
<1>5. Tidy(c)'
  BY <1>1, <1>2, <1>3 DEF Tidy, Bulk, Locked, Selects, Writes, reading, Statements, Others, Progress
<1>6. Committed'
  BY CommitsWhole, SeenIsCommitted
<1>. QED
  BY <1>2, <1>4, <1>5, <1>6, TidyStepOfOne DEF Owns

LEMMA CommitWriteBusyTidy ==
    ASSUME StoreInv, IInv', AsMeant, NEW c \in Conn, CommitWriteBusy(c)
    PROVE  TidyStep(c)
<1>1. /\ pc[c] = "commit" /\ Writes(c) /\ Tidy(c) /\ TableTypes /\ WriteTypes
      /\ args[c].path \in Path
  BY Writing DEF StoreInv, IInv, CommitWriteBusy, At, Writes
<1>2. pc' = [pc EXCEPT ![c] = "filename"] /\ UNCHANGED <<bulk, writing, reading>>
  BY DEF CommitWriteBusy, AfterBusyCommit, Goto
<1>3. /\ db' = db /\ auto' = auto /\ view' = view
      /\ lock'[c] = lock[c] \/ (lock'[c] = "pending" /\ ~busyName[c])
      /\ \A d \in Conn \ {c} : SameTables(d)
  <2>1. CASE InsertUnfinished(c)
    BY <1>1, <2>1 DEF CommitWriteBusy, SameTables
  <2>2. CASE ~InsertUnfinished(c)
    BY <1>1, <2>2, WaitHolds DEF CommitWriteBusy, InsertUnfinished, WaitForReaders
  <2>. QED
    BY <2>1, <2>2
<1>4. pc'[c] = "filename"
  BY <1>1, <1>2 DEF WriteTypes
<1>5. \A d \in Conn \ {c} : SameAll(d)
  BY <1>1, <1>2, <1>3 DEF SameAll, Same, SameTables, WriteTypes, writing, reading
<1>6. Owns(c)' => Owns(c)
  BY <1>1, <1>3 DEF Owns, Tidy, Progress, Locked
<1>7. Others(c)'
  <2>1. view'[c] # None =>
          \A q \in Path : Whole(view[c], q) \/ (q = args[c].path /\ Trimmed(view[c], q))
    BY <1>1, <1>3 DEF Tidy, Others
  <2>2. view'[c] # None =>
          \A q \in Path : Whole(view[c], q)' \/ (q = args'[c].path /\ Trimmed(view[c], q)')
    BY <1>2, <1>3, <2>1, ViewAfter DEF writing
  <2>. QED
    BY <1>4, <2>2 DEF Others, Writes
<1>8. Tidy(c)'
  BY <1>1, <1>2, <1>3, <1>4, <1>7 DEF Tidy, Bulk, Locked, Selects, Writes, Owns, writing, reading, Statements, Progress
<1>9. Committed'
  BY <1>3, CommittedStays DEF StoreInv
<1>. QED
  BY <1>5, <1>6, <1>8, <1>9, TidyStepOfOne

-----------------------------------------------------------------------------
(* What readers rely on *)

LEMMA InitTidy ==
    ASSUME Init
    PROVE  StoreInv
<1>1. IInv
  BY InitHolds
<1>2. Committed
  BY EmptyIsWhole DEF Init, Committed
<1>3. OneOwner /\ \A c \in Conn : Tidy(c)
  BY DEF Init, OneOwner, Tidy, Bulk, Locked, Selects, Writes, Owns, Statements, Others, Progress
<1>. QED
  BY <1>1, <1>2, <1>3 DEF StoreInv

LEMMA ActionTidy ==
    ASSUME StoreInv, AsMeant, NEW c \in Conn, Call(c) \/ Step(c) \/ Die(c)
    PROVE  TidyStep(c)
<1>1. IInv'
  BY NextHolds DEF StoreInv, Next
<1>2. CASE Call(c)
  <2>1. ~GoOn(c)
    BY DEF AsMeant, GoOn
  <2>. QED
    BY <1>1, <1>2, <2>1, OpenTidy, StartWriteTidy, StartReadTidy, StartReadBusyTidy,
       BeginBulkWritesTidy, StartEndBulkWritesTidy, ForgetTidy DEF Call, Close
<1>3. CASE Step(c)
  BY <1>1, <1>3, ListFilesTidy, InsertNameTidy, InsertNameBusyTidy, InsertChunkTidy,
     InsertChunkBusyTidy, CommitWriteTidy, CommitWriteBusyTidy, EndBulkWritesTidy,
     EndBulkWritesBusyTidy, FinishReadTidy DEF Step
<1>4. CASE Die(c)
  BY <1>1, <1>4, ForgetTidy DEF Die
<1>. QED
  BY <1>2, <1>3, <1>4

LEMMA StutterTidy ==
    ASSUME StoreInv, UNCHANGED vars
    PROVE  StoreInv' /\ \A c \in Conn : SameAll(c)
<1>1. IInv'
  BY NextHolds DEF StoreInv
<1>2. \A c \in Conn : SameAll(c)
  BY DEF SameAll, Same, vars, writing, reading
<1>3. \A c \in Conn : Tidy(c)'
  BY <1>2, SameTidy DEF StoreInv
<1>4. Committed'
  BY CommittedStays DEF StoreInv, vars
<1>5. OneOwner'
  BY DEF StoreInv, OneOwner, Owns, vars
<1>. QED
  BY <1>1, <1>2, <1>3, <1>4, <1>5 DEF StoreInv

LEMMA NextTidy ==
    ASSUME StoreInv, AsMeant, [Next]_vars
    PROVE  StoreInv'
BY ActionTidy, StutterTidy DEF TidyStep, Next

\* Whatever dies wherever, what a database holds for a path is some content that was
\* written, whole, or nothing (doc/source/backends.rst:47-48).
THEOREM NothingIsTorn ==
    ASSUME AsMeant
    PROVE  Spec => []NeverTorn
<1>1. Init => StoreInv
  BY InitTidy
<1>2. StoreInv /\ [Next]_vars => StoreInv'
  BY NextTidy
<1>3. StoreInv => NeverTorn
  <2>. SUFFICES ASSUME StoreInv, NEW p \in Path
                PROVE  ValueIn(db, p) \in {v.chunks : v \in Content} \cup {Missing}
    BY DEF NeverTorn
  <2>1. db \in Tables /\ Whole(db, p)
    BY DEF StoreInv, IInv, TableTypes, Committed
  <2>. QED
    BY <2>1, WholeValue
<1>. QED
  BY <1>1, <1>2, <1>3, PTL DEF Spec

\* Only one step takes a connection from one place in the code to another, and it is the
\* connection's own.
LEMMA OwnStep ==
    ASSUME StoreInv, AsMeant, [Next]_vars, NEW c \in Conn, pc'[c] # pc[c]
    PROVE  Call(c) \/ Step(c) \/ Die(c)
<1>1. ~UNCHANGED vars
  BY DEF vars
<1>2. PICK d \in Conn : Call(d) \/ Step(d) \/ Die(d)
  BY <1>1 DEF Next
<1>3. d = c
  BY <1>2, ActionTidy DEF TidyStep, SameAll, Same
<1>. QED
  BY <1>2, <1>3

\* When an immediate write returns, its content is in the database (SqliteArchive.hpp:33-37).
THEOREM WritesAreStored ==
    ASSUME AsMeant
    PROVE  Spec => WriteStored
<1>1. Init => StoreInv
  BY InitTidy
<1>2. StoreInv /\ [Next]_vars => StoreInv'
  BY NextTidy
<1>3. StoreInv /\ [Next]_vars =>
        [\A c \in Conn :
           pc[c] = "commit" /\ pc'[c] = "idle" =>
              \/ ValueIn(db', args[c].path) = args[c].content.chunks
              \/ args[c].content.chunks = <<>> /\ ValueIn(db', args[c].path) = Missing]_vars
  <2>. SUFFICES ASSUME StoreInv, [Next]_vars, NEW c \in Conn, pc[c] = "commit", pc'[c] = "idle"
                PROVE  \/ ValueIn(db', args[c].path) = args[c].content.chunks
                       \/ args[c].content.chunks = <<>> /\ ValueIn(db', args[c].path) = Missing
    OBVIOUS
  <2>1. Call(c) \/ Step(c) \/ Die(c)
    BY OwnStep
  <2>2. pc \in [Conn -> Places]
    BY DEF StoreInv, IInv, WriteTypes
  <2>3. ~Call(c) /\ ~Die(c)
    BY <2>2 DEF Call, Open, StartWrite, StartRead, StartReadBusy, GoOn, BeginBulkWrites,
       StartEndBulkWrites, Close, Die, At, Forget, Goto
  <2>4. CommitWrite(c) \/ CommitWriteBusy(c)
    BY <2>1, <2>3 DEF Step, ListFiles, InsertName, InsertNameBusy, InsertChunk, InsertChunkBusy,
       EndBulkWrites, EndBulkWritesBusy, FinishRead, At
  <2>5. CommitWrite(c)
    BY <2>2, <2>4 DEF CommitWriteBusy, AfterBusyCommit, Goto
  <2>6. Holds(db', args[c].path, args[c].content) /\ db' = Visible(c)
    BY <2>5, CommitsWhole
  <2>7. args[c].path \in Path /\ args[c].content \in Content /\ Visible(c) \in Tables
    BY Writing DEF Writes
  <2>. QED
    BY <2>6, <2>7, HeldValue
<1>. QED
  BY <1>1, <1>2, <1>3, PTL DEF Spec, WriteStored

\* A read returns what is there for the path it was asked for (SqliteArchive.hpp:42-43): no
\* read throws between the first step of SELECT and its reset.
THEOREM ReadsAreOfAsked ==
    ASSUME AsMeant
    PROVE  Spec => ReadsAsked
<1>1. Init => StoreInv
  BY InitTidy
<1>2. StoreInv /\ [Next]_vars => StoreInv'
  BY NextTidy
<1>3. StoreInv /\ [Next]_vars =>
        [\A c \in Conn :
           pc[c] = "reading" /\ pc'[c] = "idle" => reply'[c] = ValueIn(Visible(c), asked[c])]_vars
  <2>. SUFFICES ASSUME StoreInv, [Next]_vars, NEW c \in Conn, pc[c] = "reading", pc'[c] = "idle"
                PROVE  reply'[c] = ValueIn(Visible(c), asked[c])
    OBVIOUS
  <2>1. Call(c) \/ Step(c) \/ Die(c)
    BY OwnStep
  <2>2. pc \in [Conn -> Places]
    BY DEF StoreInv, IInv, WriteTypes
  <2>3. ~Call(c) /\ ~Die(c)
    BY <2>2 DEF Call, Open, StartWrite, StartRead, StartReadBusy, GoOn, BeginBulkWrites,
       StartEndBulkWrites, Close, Die, At, Forget, Goto
  <2>4. FinishRead(c)
    BY <2>1, <2>3 DEF Step, ListFiles, InsertName, InsertNameBusy, InsertChunk, InsertChunkBusy,
       CommitWrite, CommitWriteBusy, EndBulkWrites, EndBulkWritesBusy, At
  <2>. QED
    BY <2>4, ReadsWhole
<1>. QED
  BY <1>1, <1>2, <1>3, PTL DEF Spec, ReadsAsked

-----------------------------------------------------------------------------
(* The connections implement SharedStore: the draft *)

NoneEmpty == \A v \in Content : v.chunks # <<>>

\* The path that is being changed, until the write is ready to commit.
Unfinished(c, p) ==
    /\ Writes(c) \/ pc[c] = "threw"
    /\ p = args[c].path
    /\ ~(pc[c] = "commit" /\ ~busyName[c])

\* The draft and the committed tables give what the connection sees.
Agrees(c, p) ==
    ValueIn(Visible(c), p) = IF p \in DOMAIN draft[c] THEN draft[c][p] ELSE ValueIn(db, p)

Drafted(c) ==
    /\ DOMAIN draft[c] \subseteq Path
    /\ view[c] = None => draft[c] = NoWrites
    /\ \A p \in Path : ~Unfinished(c, p) => Agrees(c, p)

DraftInv == draft = [c \in Conn |-> draft[c]] /\ \A c \in Conn : Drafted(c)

DraftAfter(c) ==
    IF view'[c] = None THEN NoWrites
    ELSE IF Written(c)
    THEN [r \in DOMAIN draft[c] \cup {args[c].path} |->
            IF r = args[c].path THEN args[c].content.chunks ELSE draft[c][r]]
    ELSE draft[c]

\* A step of c changes no other draft.
LEMMA DraftOfOne ==
    ASSUME DraftInv, NEW c \in Conn, \A d \in Conn \ {c} : SameAll(d), DraftNext
    PROVE  draft' = [draft EXCEPT ![c] = DraftAfter(c)]
<1>1. draft' = [d \in Conn |-> DraftAfter(d)]
  BY DEF DraftNext, DraftAfter
<1>2. ASSUME NEW d \in Conn \ {c}
      PROVE  DraftAfter(d) = draft[d]
  BY <1>2 DEF SameAll, Same, DraftAfter, Written, DraftInv, Drafted
<1>. HIDE DEF DraftAfter
<1>. QED
  BY <1>1, <1>2 DEF DraftInv

\* Others keep their drafts as long as the database stays, or they have none.
LEMMA OthersDrafted ==
    ASSUME DraftInv, NEW c \in Conn, NEW d \in Conn \ {c}, SameAll(d), draft'[d] = draft[d],
           db' = db \/ view[d] = None
    PROVE  Drafted(d)'
<1>1. /\ view'[d] = view[d] /\ pc'[d] = pc[d] /\ args'[d] = args[d] /\ busyName'[d] = busyName[d]
      /\ Drafted(d)
  BY DEF SameAll, Same, DraftInv
<1>2. CASE view[d] = None
  <2>1. draft'[d] = NoWrites /\ view'[d] = None /\ DOMAIN NoWrites = {}
    BY <1>1, <1>2 DEF Drafted, NoWrites
  <2>2. \A p \in Path : Agrees(d, p)'
    <3>. HIDE DEF NoWrites
    <3>. QED
      BY <2>1 DEF Agrees, Visible
  <2>. QED
    BY <2>1, <2>2 DEF Drafted
<1>3. CASE db' = db
  <2>1. Visible(d)' = Visible(d)
    BY <1>1, <1>3 DEF Visible
  <2>2. \A p \in Path : Agrees(d, p) => Agrees(d, p)'
    BY <1>3, <2>1 DEF Agrees
  <2>3. \A p \in Path : Unfinished(d, p)' <=> Unfinished(d, p)
    BY <1>1 DEF Unfinished, Writes
  <2>. QED
    BY <1>1, <2>2, <2>3 DEF Drafted
<1>. QED
  BY <1>2, <1>3

LEMMA DraftStepOfOne ==
    ASSUME DraftInv, NEW c \in Conn, \A d \in Conn \ {c} : SameAll(d), DraftNext,
           db' = db \/ \A d \in Conn \ {c} : view[d] = None, Drafted(c)'
    PROVE  DraftInv'
<1>1. draft' = [draft EXCEPT ![c] = DraftAfter(c)]
  BY DraftOfOne
<1>2. draft' = [d \in Conn |-> draft'[d]] /\ \A d \in Conn \ {c} : draft'[d] = draft[d]
  <2>. HIDE DEF DraftAfter
  <2>1. draft = [d \in Conn |-> draft[d]]
    BY DEF DraftInv
  <2>. QED
    BY <1>1, <2>1
<1>4. ASSUME NEW d \in Conn
      PROVE  Drafted(d)'
  <2>1. CASE d = c
    BY <2>1
  <2>2. CASE d # c
    BY <2>2, <1>2, OthersDrafted
  <2>. QED
    BY <2>1, <2>2
<1>. QED
  BY <1>2, <1>4 DEF DraftInv

\* A step that leaves the tables and finishes no write leaves the drafts.
LEMMA DraftStays ==
    ASSUME DraftInv, NEW c \in Conn, \A d \in Conn \ {c} : SameAll(d), DraftNext,
           db' = db, view' = view, ~Written(c),
           \A p \in Path : Unfinished(c, p) => Unfinished(c, p)'
    PROVE  DraftInv' /\ draft' = draft
<1>1. draft' = [draft EXCEPT ![c] = DraftAfter(c)]
  BY DraftOfOne
<1>2. DraftAfter(c) = draft[c]
  BY DEF DraftAfter, DraftInv, Drafted
<1>3. draft' = draft
  <2>1. draft = [d \in Conn |-> draft[d]]
    BY DEF DraftInv
  <2>. QED
    BY <1>1, <1>2, <2>1
<1>4. Visible(c)' = Visible(c)
  BY DEF Visible
<1>5. \A p \in Path : Agrees(c, p) => Agrees(c, p)'
  BY <1>3, <1>4 DEF Agrees
<1>6. Drafted(c)'
  BY <1>3, <1>5 DEF DraftInv, Drafted
<1>. QED
  BY <1>3, <1>6, DraftStepOfOne

\* A connection between writes sees what its draft and the database say.
LEMMA AllAgree ==
    ASSUME DraftInv, NEW c \in Conn,
           Quiet(c) \/ (pc[c] = "commit" /\ ~busyName[c])
    PROVE  \A p \in Path : Agrees(c, p)
BY DEF DraftInv, Drafted, Unfinished, Writes, Quiet

\* When one connection has changes, or begins to, the others have none.
LEMMA AloneWithChanges ==
    ASSUME StoreInv, DraftInv, NEW c \in Conn, Owns(c) \/ \A d \in Conn \ {c} : ~Owns(d)
    PROVE  \A d \in Conn \ {c} : view[d] = None /\ draft[d] = NoWrites
<1>. SUFFICES ASSUME NEW d \in Conn \ {c} PROVE view[d] = None
  BY DEF DraftInv, Drafted
<1>1. ~Owns(d)
  BY DEF StoreInv, OneOwner
<1>. QED
  BY <1>1 DEF StoreInv, Tidy, Locked

\* A transaction's end: its draft ends, and no other has one.
LEMMA DraftEnds ==
    ASSUME DraftInv, NEW c \in Conn, \A d \in Conn \ {c} : SameAll(d), DraftNext,
           db' = db \/ \A d \in Conn \ {c} : view[d] = None, view'[c] = None
    PROVE  DraftInv' /\ draft' = [draft EXCEPT ![c] = NoWrites]
<1>1. draft' = [draft EXCEPT ![c] = NoWrites]
  BY DraftOfOne DEF DraftAfter
<1>2. draft'[c] = NoWrites /\ DOMAIN NoWrites = {}
  BY <1>1 DEF DraftInv, NoWrites
<1>3. \A p \in Path : Agrees(c, p)'
  <2>. HIDE DEF NoWrites
  <2>. QED
    BY <1>2 DEF Agrees, Visible
<1>4. Drafted(c)'
  BY <1>2, <1>3 DEF Drafted
<1>. QED
  BY <1>1, <1>4, DraftStepOfOne

-----------------------------------------------------------------------------
(* The connections implement SharedStore: the steps *)

\* A step is one that SharedStore allows, or none of its concern.
Follows == DraftInv' /\ [Store!Next]_(Store!vars)

\* The state before a step of c, and what was shown of the step.
Before(c) ==
    /\ StoreInv /\ DraftInv /\ NoneEmpty /\ AsMeant
    /\ DraftNext /\ \A d \in Conn \ {c} : SameAll(d)

LEMMA CalmFollows ==
    ASSUME NEW c \in Conn, Before(c), db' = db, view' = view, reply' = reply, ~Written(c),
           \A p \in Path : Unfinished(c, p) => Unfinished(c, p)'
    PROVE  Follows
<1>1. DraftInv' /\ draft' = draft
  BY DraftStays DEF Before
<1>. QED
  BY <1>1 DEF Follows, Store!vars

LEMMA OpenFollows ==
    ASSUME NEW c \in Conn, Before(c), NEW m, Open(c, m)
    PROVE  Follows
<1>1. /\ pc[c] = "closed" /\ UNCHANGED <<view, reading>>
      /\ db' = db \/ (db' = Empty /\ \A d \in Conn : pc[d] = "closed")
  BY DEF Open, At
<1>2. ~Written(c) /\ \A p \in Path : ~Unfinished(c, p)
  BY <1>1 DEF Written, Unfinished, Writes
<1>3. CASE db' = db
  BY <1>1, <1>2, <1>3, CalmFollows DEF reading
<1>4. CASE db' = Empty /\ \A d \in Conn : pc[d] = "closed"
  <2>1. \A d \in Conn : view[d] = None
    BY <1>4, Unopened DEF Before
  <2>2. \A d \in Conn : draft[d] = NoWrites
    BY <2>1 DEF Before, DraftInv, Drafted
  <2>3. DraftInv' /\ draft' = [draft EXCEPT ![c] = NoWrites]
    BY <1>1, <2>1, DraftEnds DEF Before
  <2>4. draft' = draft
    <3>1. draft = [d \in Conn |-> draft[d]]
      BY DEF Before, DraftInv
    <3>. HIDE DEF NoWrites
    <3>. QED
      BY <2>2, <2>3, <3>1
  <2>5. [r \in Path |-> ValueIn(db', r)] = [r \in Path |-> Missing]
    BY <1>4, EmptyIsWhole
  <2>6. Store!Create
    <3>1. \A d \in Conn : draft[d] = Store!NoWrites
      BY <2>2 DEF NoWrites, Store!NoWrites
    <3>. QED
      BY <1>1, <2>4, <2>5, <3>1 DEF Store!Create, reading
  <2>. QED
    BY <2>3, <2>6 DEF Follows, Store!Next
<1>. QED
  BY <1>1, <1>3, <1>4

\* The steps between a connection's calls.
LEMMA QuietFollows ==
    ASSUME NEW c \in Conn, Before(c), Quiet(c), db' = db, view' = view, reply' = reply
    PROVE  Follows
<1>1. ~Written(c) /\ \A p \in Path : ~Unfinished(c, p)
  BY DEF Written, Unfinished, Writes, Quiet
<1>. QED
  BY <1>1, CalmFollows

LEMMA StartReadFollows ==
    ASSUME NEW c \in Conn, Before(c), NEW p \in Path, StartRead(c, p)
    PROVE  Follows
<1>1. pc[c] = "idle" /\ db' = db /\ view' = view /\ reply' = [reply EXCEPT ![c] = None]
  BY DEF StartRead, At
<1>2. ~Written(c) /\ \A q \in Path : ~Unfinished(c, q)
  BY <1>1 DEF Written, Unfinished, Writes
<1>3. DraftInv' /\ draft' = draft
  BY <1>1, <1>2, DraftStays DEF Before
<1>4. Store!ForgetReply(c)
  BY <1>1, <1>3 DEF Store!ForgetReply
<1>. QED
  BY <1>3, <1>4 DEF Follows, Store!Next

\* What a connection reads is what the draft and the database say.
LEMMA FinishReadFollows ==
    ASSUME NEW c \in Conn, Before(c), FinishRead(c)
    PROVE  Follows
<1>1. pc[c] = "reading" /\ db' = db /\ view' = view
  BY DEF FinishRead, At
<1>2. asked[c] \in Path /\ reply' = [reply EXCEPT ![c] = ValueIn(Visible(c), asked[c])]
  BY ReadsWhole DEF Before
<1>3. ~Written(c) /\ \A p \in Path : ~Unfinished(c, p)
  BY <1>1 DEF Written, Unfinished, Writes
<1>4. DraftInv' /\ draft' = draft
  BY <1>1, <1>3, DraftStays DEF Before
<1>5. Agrees(c, asked[c])
  BY <1>1, <1>2, AllAgree DEF Before, Quiet
<1>6. ValueIn(Visible(c), asked[c]) = Store!Seen(c, asked[c])
  BY <1>2, <1>5 DEF Agrees, Store!Seen
<1>7. Store!Read(c, asked[c])
  BY <1>1, <1>2, <1>4, <1>6 DEF Store!Read
<1>. QED
  BY <1>2, <1>4, <1>7 DEF Follows, Store!Next

\* A transaction ends with what the connection sees, which is what it drafted.
LEMMA CommitFollows ==
    ASSUME NEW c \in Conn, Before(c), Quiet(c) \/ (pc[c] = "commit" /\ ~busyName[c]),
           Commit(c, Visible(c)), reply' = reply
    PROVE  Follows
<1>1. db' = Visible(c) /\ view' = [view EXCEPT ![c] = None]
  BY DEF Commit
<1>2. view'[c] = None
  <2>1. view \in [Conn -> Tables \cup {None}]
    BY DEF Before, StoreInv, IInv, TableTypes
  <2>. HIDE DEF Tables
  <2>. QED
    BY <1>1, <2>1
<1>3. db' = db \/ \A d \in Conn \ {c} : view[d] = None
  <2>1. CASE view[c] = None
    BY <1>1, <2>1 DEF Visible
  <2>2. CASE view[c] # None
    BY <2>2, AloneWithChanges DEF Before, StoreInv, Tidy, Locked
  <2>. QED
    BY <2>1, <2>2
<1>4. DraftInv' /\ draft' = [draft EXCEPT ![c] = NoWrites]
  BY <1>2, <1>3, DraftEnds DEF Before
<1>5. \A p \in Path : ValueIn(db', p) = Store!Seen(c, p)
  BY <1>1, AllAgree DEF Before, Agrees, Store!Seen
<1>6. Store!Commit(c)
  BY <1>4, <1>5 DEF Store!Commit, NoWrites, Store!NoWrites
<1>. QED
  BY <1>4, <1>6 DEF Follows, Store!Next

\* A connection that goes away takes its transaction with it.
LEMMA ForgetFollows ==
    ASSUME NEW c \in Conn, Before(c), Forget(c)
    PROVE  Follows
<1>1. db' = db /\ view' = [view EXCEPT ![c] = None] /\ reply' = [reply EXCEPT ![c] = None]
  BY DEF Forget
<1>2. view'[c] = None
  <2>1. view \in [Conn -> Tables \cup {None}]
    BY DEF Before, StoreInv, IInv, TableTypes
  <2>. HIDE DEF Tables
  <2>. QED
    BY <1>1, <2>1
<1>3. DraftInv' /\ draft' = [draft EXCEPT ![c] = NoWrites]
  BY <1>1, <1>2, DraftEnds DEF Before
<1>4. Store!Leave(c)
  BY <1>1, <1>3 DEF Store!Leave, NoWrites, Store!NoWrites
<1>. QED
  BY <1>3, <1>4 DEF Follows, Store!Next

-----------------------------------------------------------------------------
(* The connections implement SharedStore: writing *)

\* Where a content is not empty, a name is followed by a chunk.
LEMMA ChunksFollow ==
    ASSUME NEW c \in Conn, Before(c), Writes(c)
    PROVE  AfterChunk(c, 0) = "contents" /\ Len(args[c].content.chunks) > 0
<1>1. args[c].content \in Content
  BY Writing DEF Before
<1>2. args[c].content.chunks # <<>> /\ args[c].content.chunks \in Seq(Data)
  BY <1>1, ContentOf DEF Before, NoneEmpty
<1>3. Len(args[c].content.chunks) > 0
  BY <1>2
<1>. QED
  BY <1>3 DEF AfterChunk

\* An INSERT that leaves the write unfinished changes nothing that can be read.
LEMMA InsertFollows ==
    ASSUME NEW c \in Conn, Before(c), pc[c] \in {"filename", "contents"}, NEW u,
           view'[c] = u, u # None, db' = db, reply' = reply, ~Written(c),
           \A q \in Path \ {args[c].path} : AlikeAt(Visible(c), u, q),
           \A p \in Path : ~Unfinished(c, p)' => p # args[c].path
    PROVE  Follows
<1>1. draft' = [draft EXCEPT ![c] = DraftAfter(c)] /\ DraftAfter(c) = draft[c]
  BY DraftOfOne DEF Before, DraftAfter
<1>2. draft' = draft
  <2>1. draft = [d \in Conn |-> draft[d]]
    BY DEF Before, DraftInv
  <2>. HIDE DEF DraftAfter
  <2>. QED
    BY <1>1, <2>1
<1>3. Visible(c)' = u
  BY DEF Visible
<1>4. Drafted(c)'
  <2>1. ASSUME NEW p \in Path, ~Unfinished(c, p)'
        PROVE  Agrees(c, p)'
    <3>1. p # args[c].path
      BY <2>1
    <3>2. Agrees(c, p)
      BY <3>1 DEF Before, DraftInv, Drafted, Unfinished
    <3>3. ValueIn(u, p) = ValueIn(Visible(c), p)
      BY <3>1, AlikeHolds
    <3>. QED
      BY <1>2, <1>3, <3>2, <3>3 DEF Agrees
  <2>2. DOMAIN draft'[c] \subseteq Path /\ view'[c] # None
    BY <1>2 DEF Before, DraftInv, Drafted
  <2>. QED
    BY <2>1, <2>2 DEF Drafted
<1>5. DraftInv'
  BY <1>4, DraftStepOfOne DEF Before
<1>. QED
  BY <1>2, <1>5 DEF Follows, Store!vars

LEMMA InsertNameFollows ==
    ASSUME NEW c \in Conn, Before(c), InsertName(c)
    PROVE  Follows
<1>. DEFINE p == args[c].path
            v == args[c].content
            u == WithName(Visible(c), p, v)
<1>1. pc[c] = "filename" /\ Writes(c) /\ WriteTypes
  BY DEF Before, StoreInv, IInv, InsertName, At, Writes
<1>2. p \in Path /\ v \in Content /\ Visible(c) \in Tables
  BY <1>1, Writing DEF Before
<1>3. CanInsert(c) /\ Insert(c, u) /\ reply' = reply
  BY <1>1, Writing DEF Before, InsertName, reading
<1>4. AfterChunk(c, 0) = "contents"
  BY <1>1, ChunksFollow
<1>5. pc' = [pc EXCEPT ![c] = "contents"] /\ args' = args
  BY <1>4 DEF InsertName, Goto
<1>6. pc'[c] = "contents"
  BY <1>1, <1>5 DEF WriteTypes
<1>7. u \in Tables /\ \A q \in Path \ {p} : AlikeAt(Visible(c), u, q)
  BY <1>2, WithNameIsTables, NameInserted
<1>. HIDE DEF u
<1>8. view'[c] = u /\ db' = db
  BY <1>1, <1>3, <1>7, InsertEffect DEF Before
<1>9. u # None
  BY <1>7, SqliteAssumption
<1>10. ~Written(c)
  BY <1>6 DEF Written
<1>11. \A q \in Path : ~Unfinished(c, q)' => q # args[c].path
  BY <1>5, <1>6 DEF Unfinished, Writes
<1>. QED
  BY <1>1, <1>3, <1>7, <1>8, <1>9, <1>10, <1>11, InsertFollows

LEMMA InsertNameBusyFollows ==
    ASSUME NEW c \in Conn, Before(c), InsertNameBusy(c)
    PROVE  Follows
<1>1. pc[c] = "filename" /\ Writes(c) /\ WriteTypes
  BY DEF Before, StoreInv, IInv, InsertNameBusy, At, Writes
<1>2. AfterChunk(c, 0) = "contents"
  BY <1>1, ChunksFollow
<1>3. /\ pc' = [pc EXCEPT ![c] = IF args[c].immediate THEN "contents" ELSE "filename"]
      /\ UNCHANGED <<db, view, args, reply>>
  BY <1>2 DEF InsertNameBusy, Goto, reading
<1>4. pc'[c] \in {"contents", "filename"}
  BY <1>1, <1>3 DEF WriteTypes
<1>5. ~Written(c) /\ \A p \in Path : Unfinished(c, p) => Unfinished(c, p)'
  BY <1>3, <1>4 DEF Written, Unfinished, Writes
<1>. QED
  BY <1>3, <1>5, CalmFollows

\* The last chunk puts the write into the draft.
LEMMA LastChunkFollows ==
    ASSUME NEW c \in Conn, Before(c), pc[c] = "contents", NEW u \in Tables,
           view'[c] = u, u # None, db' = db, reply' = reply, Written(c),
           \A q \in Path \ {args[c].path} : AlikeAt(Visible(c), u, q),
           Holds(u, args[c].path, args[c].content),
           Owns(c) \/ \A d \in Conn \ {c} : ~Owns(d)
    PROVE  Follows
<1>. DEFINE p == args[c].path
            value == args[c].content.chunks
            drafted == [r \in DOMAIN draft[c] \cup {p} |-> IF r = p THEN value ELSE draft[c][r]]
<1>1. p \in Path /\ args[c].content \in Content
  BY Writing DEF Before, Writes
<1>2. ValueIn(u, p) = value
  BY <1>1, HeldValue DEF Before, NoneEmpty
<1>3. draft' = [draft EXCEPT ![c] = drafted]
  <2>1. DraftAfter(c) = drafted
    BY DEF DraftAfter
  <2>. QED
    BY <2>1, DraftOfOne DEF Before
<1>. HIDE DEF drafted
<1>4. draft'[c] = drafted
  BY <1>3 DEF Before, DraftInv
<1>5. /\ DOMAIN drafted = DOMAIN draft[c] \cup {p} /\ drafted[p] = value
      /\ \A q \in DOMAIN draft[c] \ {p} : drafted[q] = draft[c][q]
  BY DEF drafted
<1>6. Visible(c)' = u
  BY DEF Visible
<1>7. ASSUME NEW q \in Path
      PROVE  Agrees(c, q)'
  <2>1. CASE q = p
    BY <1>2, <1>4, <1>5, <1>6, <2>1 DEF Agrees
  <2>2. CASE q # p
    <3>1. Agrees(c, q)
      BY <2>2 DEF Before, DraftInv, Drafted, Unfinished
    <3>2. ValueIn(u, q) = ValueIn(Visible(c), q)
      BY <2>2, AlikeHolds
    <3>. QED
      BY <1>4, <1>5, <1>6, <2>2, <3>1, <3>2 DEF Agrees
  <2>. QED
    BY <2>1, <2>2
<1>8. Drafted(c)'
  <2>1. DOMAIN draft'[c] \subseteq Path /\ view'[c] # None
    BY <1>1, <1>4, <1>5 DEF Before, DraftInv, Drafted
  <2>. QED
    BY <1>7, <2>1 DEF Drafted
<1>9. DraftInv'
  BY <1>8, DraftStepOfOne DEF Before
<1>10. Store!Write(c, p, value)
  <2>1. \A d \in Conn \ {c} : draft[d] = Store!NoWrites
    BY AloneWithChanges DEF Before, NoWrites, Store!NoWrites
  <2>. QED
    BY <1>3, <2>1 DEF Store!Write, drafted
<1>. QED
  BY <1>1, <1>9, <1>10 DEF Follows, Store!Next

LEMMA InsertChunkFollows ==
    ASSUME NEW c \in Conn, Before(c), InsertChunk(c)
    PROVE  Follows
<1>. DEFINE p == args[c].path
            v == args[c].content
            i == chunkidx[c]
            n == Len(v.chunks)
            u == WithChunk(Visible(c), p, i, ChunkOf(v, i))
<1>1. pc[c] = "contents" /\ Writes(c) /\ Tidy(c) /\ Shape(c) /\ WriteTypes
  BY DEF Before, StoreInv, IInv, InsertChunk, At, Writes
<1>2. /\ args[c] # None /\ p \in Path /\ v \in Content /\ ~busyChunk[c]
      /\ Trimmed(Visible(c), p) /\ Visible(c) \in Tables
  BY <1>1, Writing DEF Before, AsMeant
<1>3. n \in 0..MaxChunks /\ i \in 1..n /\ i \in 1..MaxChunks
  BY <1>1, <1>2, ContentOf, SqliteAssumption DEF Shape, InChunks, WriteTypes
<1>4. /\ CanInsert(c) /\ Insert(c, u) /\ reply' = reply
      /\ IF AfterChunk(c, i) = "idle"
         THEN Finish(c)
         ELSE /\ pc' = [pc EXCEPT ![c] = AfterChunk(c, i)]
              /\ UNCHANGED <<args, busyName>>
  BY <1>1, Writing DEF Before, InsertChunk, Goto, reading
<1>5. u \in Tables /\ \A q \in Path \ {p} : AlikeAt(Visible(c), u, q)
  BY <1>2, <1>3, ChunkOfIsChunk, WithChunkIsTables, ChunkInserted DEF Before, AsMeant
<1>6. i = n /\ ~busyName[c] => Holds(u, p, v)
  <2>1. ~busyName[c] => UpTo(Visible(c), p, v, i - 1)
    BY <1>1 DEF Tidy, Progress, Visible
  <2>2. Trimmed(u, p) /\ (~busyName[c] => UpTo(u, p, v, i))
    BY <1>2, <1>3, <2>1, ChunkInserted DEF Before, AsMeant
  <2>. QED
    BY <1>2, <2>2, WrittenIsWhole
<1>. HIDE DEF u
<1>7. /\ view'[c] = u /\ db' = db
      /\ Owns(c) \/ \A d \in Conn \ {c} : ~Owns(d)
  BY <1>1, <1>4, <1>5, InsertEffect DEF Before
<1>8. u # None
  BY <1>5, SqliteAssumption
<1>9. AfterChunk(c, i) = "idle" => pc'[c] = "idle" /\ ~busyName'[c] /\ ~busyName[c]
  <2>. SUFFICES ASSUME AfterChunk(c, i) = "idle"
                PROVE  pc'[c] = "idle" /\ ~busyName'[c] /\ ~busyName[c]
    OBVIOUS
  <2>1. ~busyName[c]
    BY <1>1, Onward DEF Tidy, Statements
  <2>. QED
    BY <1>1, <1>2, <1>4, <2>1, FinishHolds
<1>10. AfterChunk(c, i) # "idle" =>
         pc'[c] = AfterChunk(c, i) /\ args' = args /\ busyName' = busyName
  BY <1>1, <1>4 DEF WriteTypes
<1>11. CASE i = n /\ ~busyName[c]
  <2>1. AfterChunk(c, i) \in {"commit", "idle"}
    BY <1>3, <1>11 DEF AfterChunk
  <2>2. Written(c)
    BY <1>1, <1>9, <1>10, <1>11, <2>1 DEF Written
  <2>. QED
    BY <1>1, <1>4, <1>5, <1>6, <1>7, <1>8, <1>11, <2>2, LastChunkFollows
<1>12. CASE ~(i = n /\ ~busyName[c])
  <2>1. AfterChunk(c, i) \in {"contents", "commit"} /\ (AfterChunk(c, i) = "commit" => busyName[c])
    BY <1>3, <1>9, <1>12 DEF AfterChunk
  <2>2. pc'[c] = AfterChunk(c, i) /\ args' = args /\ busyName' = busyName
    BY <1>10, <2>1
  <2>3. ~Written(c)
    BY <2>1, <2>2 DEF Written
  <2>4. \A q \in Path : ~Unfinished(c, q)' => q # args[c].path
    BY <2>1, <2>2 DEF Unfinished, Writes
  <2>. QED
    BY <1>1, <1>4, <1>5, <1>7, <1>8, <2>3, <2>4, InsertFollows
<1>. QED
  BY <1>11, <1>12

LEMMA InsertChunkBusyFollows ==
    ASSUME NEW c \in Conn, Before(c), InsertChunkBusy(c)
    PROVE  Follows
<1>1. pc[c] = "contents" /\ WriteTypes
  BY DEF Before, StoreInv, IInv, InsertChunkBusy, At
<1>2. pc'[c] \in {"threw", "contents"} /\ UNCHANGED <<db, view, args, reply>>
  BY <1>1 DEF InsertChunkBusy, WriteTypes, Goto, reading
<1>3. ~Written(c) /\ \A p \in Path : Unfinished(c, p) => Unfinished(c, p)'
  BY <1>2 DEF Written, Unfinished, Writes
<1>. QED
  BY <1>2, <1>3, CalmFollows

LEMMA CommitWriteBusyFollows ==
    ASSUME NEW c \in Conn, Before(c), CommitWriteBusy(c)
    PROVE  Follows
<1>1. pc[c] = "commit" /\ WriteTypes
  BY DEF Before, StoreInv, IInv, CommitWriteBusy, At
<1>2. pc'[c] = "filename" /\ UNCHANGED <<db, view, args, reply>>
  BY <1>1 DEF CommitWriteBusy, WaitForReaders, AfterBusyCommit, WriteTypes, Goto, writing, reading
<1>3. ~Written(c) /\ \A p \in Path : Unfinished(c, p) => Unfinished(c, p)'
  BY <1>1, <1>2 DEF Written, Unfinished, Writes
<1>. QED
  BY <1>2, <1>3, CalmFollows

\* Every step of a connection is one that SharedStore allows.
LEMMA ActionFollows ==
    ASSUME NEW c \in Conn, Before(c), Call(c) \/ Step(c) \/ Die(c)
    PROVE  Follows
<1>1. CASE \E m \in {"Read", "Write", "Append"} : Open(c, m)
  BY <1>1, OpenFollows
<1>2. CASE \E p \in Path, v \in Content, immediate \in BOOLEAN : StartWrite(c, p, v, immediate)
  <2>1. Quiet(c) /\ db' = db /\ view' = view /\ reply' = reply
    BY <1>2 DEF StartWrite, At, Quiet, reading
  <2>. QED
    BY <2>1, QuietFollows
<1>3. CASE \E p \in Path : StartRead(c, p)
  BY <1>3, StartReadFollows
<1>4. CASE StartReadBusy(c) \/ BeginBulkWrites(c) \/ StartEndBulkWrites(c) \/ ListFiles(c)
  <2>1. Quiet(c) /\ db' = db /\ view' = view /\ reply' = reply
    BY <1>4 DEF StartReadBusy, BeginBulkWrites, StartEndBulkWrites, ListFiles, At, Quiet, reading
  <2>. QED
    BY <2>1, QuietFollows
<1>5. CASE GoOn(c)
  BY <1>5 DEF GoOn, Before, AsMeant
<1>6. CASE Close(c) \/ Die(c)
  BY <1>6, ForgetFollows DEF Close, Die
<1>7. CASE InsertName(c) \/ InsertNameBusy(c) \/ InsertChunk(c) \/ InsertChunkBusy(c)
  BY <1>7, InsertNameFollows, InsertNameBusyFollows, InsertChunkFollows, InsertChunkBusyFollows
<1>8. CASE CommitWrite(c)
  <2>1. /\ pc[c] = "commit" /\ ~busyName[c] /\ Commit(c, Visible(c)) /\ reply' = reply
    BY <1>8 DEF CommitWrite, At, InsertUnfinished, reading
  <2>. QED
    BY <2>1, CommitFollows
<1>9. CASE CommitWriteBusy(c)
  BY <1>9, CommitWriteBusyFollows
<1>10. CASE EndBulkWrites(c)
  <2>1. pc[c] = "ending" /\ reply' = reply
    BY <1>10 DEF EndBulkWrites, At, reading
  <2>2. ~auto[c]
    BY <2>1 DEF Before, StoreInv, IInv, Shape, Begun, Tidy, Bulk
  <2>3. Commit(c, Visible(c))
    BY <1>10, <2>2 DEF EndBulkWrites
  <2>. QED
    BY <2>1, <2>3, CommitFollows DEF Quiet
<1>11. CASE EndBulkWritesBusy(c)
  <2>1. Quiet(c) /\ db' = db /\ view' = view /\ reply' = reply
    BY <1>11 DEF EndBulkWritesBusy, WaitForReaders, At, Quiet, reading
  <2>. QED
    BY <2>1, QuietFollows
<1>12. CASE FinishRead(c)
  BY <1>12, FinishReadFollows
<1>. QED
  BY <1>1, <1>2, <1>3, <1>4, <1>5, <1>6, <1>7, <1>8, <1>9, <1>10, <1>11, <1>12 DEF Call, Step

\* Transactions are atomic and isolated, through immediate and bulk writes of any number of
\* chunks, SQLITE_BUSY at every step, exceptions and deaths: the connections implement
\* SharedStore (SqliteArchive.cpp:219-442).
THEOREM StoreIsImplemented ==
    ASSUME AsMeant, NoneEmpty
    PROVE  ObservedSpec => ImplementsStore
<1>1. ObservedInit => Store!Init /\ StoreInv /\ DraftInv
  <2>. SUFFICES ASSUME ObservedInit PROVE Store!Init /\ StoreInv /\ DraftInv
    OBVIOUS
  <2>1. StoreInv
    BY InitTidy DEF ObservedInit
  <2>2. draft = [c \in Conn |-> NoWrites] /\ DOMAIN NoWrites = {}
    BY DEF ObservedInit, NoWrites
  <2>3. DraftInv
    <3>1. \A c \in Conn : view[c] = None
      BY DEF ObservedInit, Init
    <3>2. \A c \in Conn, p \in Path : Agrees(c, p)
      <4>. HIDE DEF NoWrites
      <4>. QED
        BY <2>2, <3>1 DEF Agrees, Visible
    <3>3. \A c \in Conn : draft[c] = NoWrites
      BY <2>2
    <3>4. \A c \in Conn : Drafted(c)
      <4>. HIDE DEF NoWrites
      <4>. QED
        BY <2>2, <3>2, <3>3 DEF Drafted
    <3>5. draft = [c \in Conn |-> draft[c]]
      <4>. HIDE DEF NoWrites
      <4>. QED
        BY <2>2
    <3>. QED
      BY <3>4, <3>5 DEF DraftInv
  <2>4. [r \in Path |-> ValueIn(db, r)] = [r \in Path |-> Missing]
    BY EmptyIsWhole DEF ObservedInit, Init
  <2>5. Store!Init
    BY <2>2, <2>4 DEF Store!Init, ObservedInit, Init, NoWrites, Store!NoWrites
  <2>. QED
    BY <2>1, <2>3, <2>5
<1>2. StoreInv /\ DraftInv /\ [ObservedNext]_<<vars, draft>>
        => StoreInv' /\ DraftInv' /\ [Store!Next]_(Store!vars)
  <2>. SUFFICES ASSUME StoreInv, DraftInv, [ObservedNext]_<<vars, draft>>
                PROVE  StoreInv' /\ DraftInv' /\ [Store!Next]_(Store!vars)
    OBVIOUS
  <2>1. CASE UNCHANGED <<vars, draft>>
    <3>1. StoreInv' /\ \A c \in Conn : SameAll(c)
      BY <2>1, StutterTidy
    <3>2. db' = db /\ view' = view /\ reply' = reply /\ draft' = draft
      BY <2>1 DEF vars, reading
    <3>3. \A c \in Conn : Drafted(c)'
      BY <3>1, <3>2 DEF DraftInv, Drafted, Agrees, Visible, Unfinished, Writes, SameAll, Same
    <3>. QED
      BY <3>1, <3>2, <3>3 DEF DraftInv, Store!vars
  <2>2. CASE Next /\ DraftNext
    <3>1. PICK c \in Conn : Call(c) \/ Step(c) \/ Die(c)
      BY <2>2 DEF Next
    <3>2. TidyStep(c)
      BY <3>1, ActionTidy
    <3>3. Before(c)
      BY <2>2, <3>2 DEF Before, TidyStep
    <3>4. Follows
      BY <3>1, <3>3, ActionFollows
    <3>. QED
      BY <3>2, <3>4 DEF TidyStep, Follows
  <2>. QED
    BY <2>1, <2>2 DEF ObservedNext
<1>. QED
  BY <1>1, <1>2, PTL DEF ObservedSpec, ImplementsStore, Store!Spec
=============================================================================
