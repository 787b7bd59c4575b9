--------------------------- MODULE ZipArchiveProofs ---------------------------
(***************************************************************************)
(* What holds of the zip backend for any files, paths, contents and number *)
(* of processes: its types, that the index leads to the last entry of      *)
(* every path, and that an archive is a Document.                          *)
(***************************************************************************)
EXTENDS ZipArchiveRefinement, RecordLemmas

-----------------------------------------------------------------------------
(* The index of a directory *)

LastIn(P) == CHOOSE i \in P : \A j \in P : j <= i

LEMMA PathMapLast ==
    ASSUME NEW d
    PROVE  PathMap(d) = [p \in {d[i].path : i \in DOMAIN d} |-> LastIn(Positions(d, p)) - 1]
BY DEF PathMap, LastIn

\* The indices are of entries with the path.
LEMMA PathMapFinds ==
    ASSUME NEW d \in Seq(Entry), NEW p \in DOMAIN PathMap(d)
    PROVE  /\ PathMap(d)[p] \in Nat
           /\ PathMap(d)[p] + 1 \in DOMAIN d
           /\ d[PathMap(d)[p] + 1].path = p
<1>. DEFINE last == CHOOSE i \in Positions(d, p) : \A j \in Positions(d, p) : j <= i
<1>1. PathMap(d)[p] = last - 1 /\ Positions(d, p) # {}
  BY DEF PathMap, Positions
<1>2. DOMAIN d = 1..Len(d) /\ Len(d) \in Nat
  OBVIOUS
<1>3. Positions(d, p) \in SUBSET (1..Len(d))
  BY <1>2 DEF Positions
<1>4. \E i \in Positions(d, p) : \A j \in Positions(d, p) : j <= i
  BY <1>1, <1>2, <1>3, LastPosition
<1>5. last \in Positions(d, p)
  BY <1>4
<1>. HIDE DEF last
<1>6. last \in 1..Len(d) /\ d[last].path = p
  BY <1>2, <1>5 DEF Positions
<1>7. last - 1 \in Nat /\ (last - 1) + 1 = last
  BY <1>2, <1>6
<1>. QED
  BY <1>1, <1>2, <1>6, <1>7

LEMMA PathMapType ==
    ASSUME NEW d \in Seq(Entry)
    PROVE  PathMap(d) \in [DOMAIN PathMap(d) -> Nat]
<1>1. PathMap(d) = [p \in DOMAIN PathMap(d) |-> PathMap(d)[p]]
  BY DEF PathMap
<1>. QED
  BY <1>1, PathMapFinds

\* An empty directory has an empty index.
LEMMA PathMapOfNone == PathMap(<<>>) = <<>>
<1>1. DOMAIN PathMap(<<>>) = {}
  BY DEF PathMap
<1>2. PathMap(<<>>) = [p \in {} |-> 0]
  BY <1>1 DEF PathMap
<1>3. <<>> = [p \in {} |-> 0]
  OBVIOUS
<1>. QED
  BY <1>2, <1>3

\* What writePtr does to the index is what another entry does to it.
LEMMA PathMapOfAppend ==
    ASSUME NEW d \in Seq(Entry), NEW e \in Entry
    PROVE  PathMap(Append(d, e)) = Indexed(PathMap(d), e.path, Len(d) + 1)
<1>. DEFINE all == Append(d, e)
            n   == Len(d) + 1
<1>1. /\ Len(d) \in Nat /\ DOMAIN d = 1..Len(d) /\ DOMAIN all = 1..n
      /\ all[n] = e /\ \A i \in 1..Len(d) : all[i] = d[i]
  OBVIOUS
<1>. HIDE DEF all
<1>2. {all[i].path : i \in DOMAIN all} = {d[i].path : i \in DOMAIN d} \cup {e.path}
  <2>1. \A i \in 1..n : i \in 1..Len(d) \/ i = n
    BY <1>1
  <2>2. \A i \in 1..Len(d) : i \in 1..n
    BY <1>1
  <2>3. n \in 1..n
    BY <1>1
  <2>. QED
    BY <1>1, <2>1, <2>2, <2>3
<1>3. ASSUME NEW p, p # e.path
      PROVE  Positions(all, p) = Positions(d, p)
  BY <1>1, <1>3 DEF Positions
<1>4. n \in Positions(all, e.path) /\ \A j \in Positions(all, e.path) : j <= n /\ j \in Int
  BY <1>1 DEF Positions
<1>5. LastIn(Positions(all, e.path)) = n
  <2>. DEFINE P == Positions(all, e.path)
  <2>. HIDE DEF P
  <2>1. n \in P /\ \A j \in P : j <= n /\ j \in Int
    BY <1>4 DEF P
  <2>2. LastIn(P) \in P /\ \A j \in P : j <= LastIn(P)
    BY <2>1 DEF LastIn
  <2>3. LastIn(P) <= n /\ n <= LastIn(P) /\ LastIn(P) \in Int /\ n \in Int
    BY <1>1, <2>1, <2>2
  <2>4. LastIn(P) = n
    BY <2>3
  <2>. QED
    BY <2>4 DEF P
<1>6. DOMAIN PathMap(d) = {d[i].path : i \in DOMAIN d}
  BY DEF PathMap
<1>7. ASSUME NEW p \in DOMAIN PathMap(d) \cup {e.path}
      PROVE  LastIn(Positions(all, p)) - 1 = IF p = e.path THEN n - 1 ELSE PathMap(d)[p]
  <2>1. CASE p = e.path
    BY <1>5, <2>1
  <2>2. CASE p # e.path
    BY <1>3, <1>6, <2>2, PathMapLast
  <2>. QED
    BY <2>1, <2>2
<1>8. PathMap(all) = [p \in DOMAIN PathMap(d) \cup {e.path} |-> LastIn(Positions(all, p)) - 1]
  BY <1>2, <1>6, PathMapLast
<1>. QED
  BY <1>7, <1>8 DEF Indexed, all

-----------------------------------------------------------------------------
(* Cells *)

LEMMA CellTypes ==
    /\ Zero \in Cell /\ Footer \in Cell
    /\ Byte \subseteq Cell /\ Local \subseteq Cell /\ Entry \subseteq Cell
    /\ End64 \subseteq Cell /\ Locator \subseteq Cell /\ End \subseteq Cell
BY DEF Cell

LEMMA ContentIsCells ==
    ASSUME NEW c \in Content
    PROVE  c \in Seq(Cell) /\ Len(c) \in Nat
<1>1. c \in Seq(Byte)
  BY ZipAssumption
<1>2. c \in Seq(Cell)
  BY <1>1, CellTypes, SeqMonotonic
<1>. QED
  BY <1>2

\* Writing cells to a file leaves a file.
LEMMA OverlayIsFile ==
    ASSUME NEW f \in Seq(Cell), NEW o \in Nat, NEW s \in Seq(Cell)
    PROVE  Overlay(f, o, s) \in Seq(Cell)
<1>1. CASE Len(f) < o
  <2>1. o - Len(f) \in Nat
    BY <1>1
  <2>2. Zeros(o - Len(f)) \in [1..(o - Len(f)) -> Cell]
    BY CellTypes DEF Zeros
  <2>3. Zeros(o - Len(f)) \in Seq(Cell)
    BY <2>1, <2>2, IsASeq
  <2>4. f \o Zeros(o - Len(f)) \in Seq(Cell)
    BY <2>3, Joined
  <2>5. f \o Zeros(o - Len(f)) \o s \in Seq(Cell)
    BY <2>4, Joined
  <2>. QED
    BY <1>1, <2>5 DEF Overlay
<1>2. CASE ~(Len(f) < o)
  <2>1. o \in 0..Len(f)
    BY <1>2
  <2>2. SubSeq(f, 1, o) \o s \o SubSeq(f, o + Len(s) + 1, Len(f)) \in Seq(Cell)
    BY <2>1, Replaced
  <2>. QED
    BY <1>2, <2>2 DEF Overlay
<1>. QED
  BY <1>1, <1>2

LEMMA RecordIsCells ==
    ASSUME NEW p \in Path, NEW c \in Content
    PROVE  RecordCells(p, c) \in Seq(Cell) /\ Len(RecordCells(p, c)) \in Nat
<1>. DEFINE header == [local |-> p]
            footer == IF c = <<>> THEN <<>> ELSE <<Footer>>
<1>1. header \in Cell
  <2>1. header \in Local
    BY DEF Local
  <2>. QED
    BY <2>1, CellTypes
<1>2. footer \in Seq(Cell)
  BY CellTypes, Lists
<1>. HIDE DEF header, footer
<1>3. <<header>> \in Seq(Cell) /\ c \in Seq(Cell)
  BY <1>1, ContentIsCells, Lists
<1>4. <<header>> \o c \in Seq(Cell)
  BY <1>3, Joined
<1>5. <<header>> \o c \o footer \in Seq(Cell)
  BY <1>2, <1>4, Joined
<1>6. RecordCells(p, c) \in Seq(Cell)
  BY <1>5 DEF RecordCells, header, footer
<1>. QED
  BY <1>6

LEMMA DirectoryIsCells ==
    ASSUME NEW d \in Seq(Entry), NEW o \in Nat
    PROVE  DirectoryCells(d, o) \in Seq(Cell) /\ Len(DirectoryCells(d, o)) = Len(d) + 3
<1>. DEFINE start == IF d = <<>> THEN 0 ELSE o
            e64 == [entries64 |-> Len(d), dir64 |-> start]
            loc == [end64 |-> o + Len(d)]
            end == [entries |-> Len(d), dir |-> start]
<1>1. Len(d) \in Nat /\ start \in Nat /\ o + Len(d) \in Nat
  OBVIOUS
<1>2. e64 \in Cell
  <2>1. e64 \in End64
    BY <1>1 DEF End64
  <2>. QED
    BY <2>1, CellTypes
<1>3. loc \in Cell
  <2>1. loc \in Locator
    BY <1>1 DEF Locator
  <2>. QED
    BY <2>1, CellTypes
<1>4. end \in Cell
  <2>1. end \in End
    BY <1>1 DEF End
  <2>. QED
    BY <2>1, CellTypes
<1>5. d \in Seq(Cell)
  BY CellTypes, SeqMonotonic
<1>6. DirectoryCells(d, o) = d \o <<e64, loc, end>>
  BY DEF DirectoryCells
<1>. HIDE DEF e64, loc, end
<1>7. <<e64, loc, end>> \in Seq(Cell) /\ Len(<<e64, loc, end>>) = 3
  BY <1>2, <1>3, <1>4, Lists
<1>. QED
  BY <1>5, <1>6, <1>7, Joined

-----------------------------------------------------------------------------
(* Opening *)

LEMMA SliceOf ==
    ASSUME NEW S, NEW E, NEW f \in Seq(S), NEW o \in Nat, NEW n \in Nat, o + n <= Len(f),
           \A i \in DOMAIN SubSeq(f, o + 1, o + n) : SubSeq(f, o + 1, o + n)[i] \in E
    PROVE  SubSeq(f, o + 1, o + n) \in Seq(E)
<1>. DEFINE d == SubSeq(f, o + 1, o + n)
<1>1. d \in Seq(S)
  OBVIOUS
<1>2. \A i \in DOMAIN d : d[i] \in E
  OBVIOUS
<1>. HIDE DEF d
<1>3. d \in Seq(E)
  BY <1>1, <1>2
<1>. QED
  BY <1>3 DEF d

\* The directory of a file that opens is one.
LEMMA OpenedIsDirectory ==
    ASSUME NEW f \in Seq(Cell), Opens(f)
    PROVE  DirectoryOf(f) \in Seq(Entry) /\ StartOf(f) \in Nat
<1>1. Ends(f) # {} /\ Ends(f) \in SUBSET (1..Len(f)) /\ Len(f) \in Nat
  BY DEF Opens, Ends
<1>2. \E i \in Ends(f) : \A j \in Ends(f) : j <= i
  BY <1>1, LastPosition
<1>3. EndOf(f) \in Ends(f)
  BY <1>2 DEF EndOf
<1>4. f[EndOf(f)] \in End
  BY <1>3 DEF Ends
<1>5. f[EndOf(f)].entries \in Nat /\ f[EndOf(f)].dir \in Nat
  BY <1>4 DEF End
<1>6. ASSUME IsZip64(f)
      PROVE  /\ f[f[EndOf(f) - 1].end64 + 1].entries64 \in Nat
             /\ f[f[EndOf(f) - 1].end64 + 1].dir64 \in Nat
  BY <1>6 DEF IsZip64, End64
<1>7. StartOf(f) \in Nat /\ EntriesOf(f) \in Nat
  BY <1>5, <1>6 DEF StartOf, EntriesOf
<1>8. /\ StartOf(f) + EntriesOf(f) <= Len(f)
      /\ \A i \in DOMAIN DirectoryOf(f) : DirectoryOf(f)[i] \in Entry
  BY DEF Opens
<1>9. DirectoryOf(f) = SubSeq(f, StartOf(f) + 1, StartOf(f) + EntriesOf(f))
  BY DEF DirectoryOf
<1>10. DirectoryOf(f) \in Seq(Entry)
  <2>. HIDE DEF Entry
  <2>. QED
    BY <1>7, <1>8, <1>9, SliceOf
<1>. QED
  BY <1>7, <1>10

-----------------------------------------------------------------------------
(* The inductive invariant *)

Indexes == m_path_map = [q \in Proc |-> PathMap(directory[q])]

IInv == TypeOK /\ Indexes

FileType   == disk \in Seq(Cell) /\ exists \in BOOLEAN
ModeType   == m_mode \in [Proc -> {"closed", "Read", "Write", "Append"}]
DirectoryType ==
    /\ directory \in [Proc -> Seq(Entry)]
    /\ \A q \in Proc : m_path_map[q] \in [DOMAIN m_path_map[q] -> Nat]
StreamType == stream \in [Proc -> [at : Nat, cells : Seq(Cell)]]
ReplyType  == reply \in [by : Proc, op : Operation, value : Reply]

LEMMA TypeParts ==
    TypeOK <=> /\ FileType /\ ModeType /\ DirectoryType /\ StreamType /\ ReplyType
               /\ position \in [Proc -> Nat]
BY DEF TypeOK, FileType, ModeType, DirectoryType, StreamType, ReplyType

\* A process's directory and index are replaced together.
LEMMA DirectoryReplaced ==
    ASSUME TypeOK, Indexes, NEW q \in Proc, NEW d \in Seq(Entry),
           directory' = [directory EXCEPT ![q] = d],
           m_path_map' = [m_path_map EXCEPT ![q] = PathMap(d)]
    PROVE  DirectoryType' /\ Indexes'
<1>1. directory' \in [Proc -> Seq(Entry)]
  BY DEF TypeOK
<1>2. \A x \in Proc : directory'[x] = IF x = q THEN d ELSE directory[x]
  BY DEF TypeOK
<1>3. m_path_map' = [x \in Proc |-> IF x = q THEN PathMap(d) ELSE PathMap(directory[x])]
  BY DEF Indexes
<1>4. \A x \in Proc : (IF x = q THEN PathMap(d) ELSE PathMap(directory[x])) = PathMap(directory'[x])
  BY <1>2
<1>5. m_path_map' = [x \in Proc |-> PathMap(directory'[x])]
  BY <1>3, <1>4
<1>6. ASSUME NEW x \in Proc
      PROVE  m_path_map'[x] \in [DOMAIN m_path_map'[x] -> Nat]
  <2>1. m_path_map'[x] = PathMap(directory'[x]) /\ directory'[x] \in Seq(Entry)
    BY <1>1, <1>5
  <2>. QED
    BY <2>1, PathMapType
<1>. QED
  BY <1>1, <1>5, <1>6 DEF DirectoryType, Indexes

LEMMA DirectoryUnchanged ==
    ASSUME TypeOK, Indexes, UNCHANGED <<directory, m_path_map>>
    PROVE  DirectoryType' /\ Indexes'
BY DEF TypeOK, DirectoryType, Indexes

\* Every operation is one a reply can be about.
LEMMA Replies ==
    ASSUME NEW q \in Proc, NEW op \in Operation, NEW r \in Reply, Returns(q, op, r)
    PROVE  ReplyType'
BY DEF ReplyType, Returns

LEMMA Operations ==
    /\ <<"open">> \in Operation /\ <<"write">> \in Operation /\ <<"close">> \in Operation
    /\ \A p \in Path : <<"read", p>> \in Operation
    /\ NoReply \in Reply /\ Missing \in Reply /\ Threw \in Reply /\ Saved \in Reply
    /\ Content \subseteq Reply
BY DEF Operation, Reply

-----------------------------------------------------------------------------
(* The stream *)

LEMMA StreamOf ==
    ASSUME TypeOK, NEW q \in Proc
    PROVE  stream[q].at \in Nat /\ stream[q].cells \in Seq(Cell)
BY DEF TypeOK

LEMMA NoStreamType == NoStream \in [at : Nat, cells : Seq(Cell)]
BY Lists DEF NoStream

LEMMA FlushedIsFile ==
    ASSUME TypeOK, NEW q \in Proc
    PROVE  Flushed(q) \in Seq(Cell)
<1>1. disk \in Seq(Cell)
  BY DEF TypeOK
<1>. QED
  BY <1>1, StreamOf, OverlayIsFile DEF Flushed

\* What is written goes to the file and the buffer.
LEMMA StreamHolds ==
    ASSUME TypeOK, NEW q \in Proc, NEW o \in Nat, NEW s \in Seq(Cell), NEW k,
           Stream(q, o, s, k)
    PROVE  disk' \in Seq(Cell) /\ StreamType'
<1>. DEFINE joined == stream[q].at + Len(stream[q].cells) = o
            file   == IF joined THEN disk ELSE Flushed(q)
            at     == IF joined THEN stream[q].at ELSE o
            cells  == IF joined THEN stream[q].cells \o s ELSE s
            rest   == IF k = Len(cells) THEN NoStream
                      ELSE [at |-> at + k, cells |-> SubSeq(cells, k + 1, Len(cells))]
<1>1. /\ k \in 0..Len(cells)
      /\ disk' = Overlay(file, at, SubSeq(cells, 1, k))
      /\ stream' = [stream EXCEPT ![q] = rest]
  BY DEF Stream
<1>2. file \in Seq(Cell)
  BY FlushedIsFile DEF TypeOK
<1>3. at \in Nat
  BY StreamOf
<1>4. cells \in Seq(Cell)
  <2>1. stream[q].cells \o s \in Seq(Cell)
    BY StreamOf, Joined
  <2>. QED
    BY <2>1
<1>. HIDE DEF joined, file, at, cells
<1>5. SubSeq(cells, 1, k) \in Seq(Cell) /\ SubSeq(cells, k + 1, Len(cells)) \in Seq(Cell)
  BY <1>1, <1>4, Parts
<1>6. k \in Nat
  BY <1>1, <1>4
<1>7. rest \in [at : Nat, cells : Seq(Cell)]
  BY <1>3, <1>5, <1>6, NoStreamType
<1>. HIDE DEF rest
<1>8. disk' \in Seq(Cell)
  BY <1>1, <1>2, <1>3, <1>5, OverlayIsFile
<1>9. stream' \in [Proc -> [at : Nat, cells : Seq(Cell)]]
  BY <1>1, <1>7 DEF TypeOK
<1>. QED
  BY <1>8, <1>9 DEF StreamType

-----------------------------------------------------------------------------
(* The steps *)

LEMMA OpenedHolds ==
    ASSUME IInv, NEW q \in Proc, NEW mode \in {"Read", "Write", "Append"},
           NEW d \in Seq(Entry), NEW o \in Nat, FileType', Opened(q, mode, d, o)
    PROVE  IInv'
<1>1. ModeType' /\ StreamType' /\ position' \in [Proc -> Nat]
  BY DEF IInv, TypeOK, Opened, ModeType, StreamType
<1>2. DirectoryType' /\ Indexes'
  BY DirectoryReplaced DEF IInv, Opened
<1>3. ReplyType'
  BY Replies, Operations DEF Opened
<1>4. TypeOK'
  BY <1>1, <1>2, <1>3 DEF TypeOK, FileType, ModeType, DirectoryType, StreamType, ReplyType
<1>. QED
  BY <1>2, <1>4 DEF IInv

LEMMA OpenWriteHolds ==
    ASSUME IInv, NEW q \in Proc, OpenWrite(q)
    PROVE  IInv'
<1>1. FileType'
  BY Lists DEF OpenWrite, FileType
<1>2. <<>> \in Seq(Entry) /\ 0 \in Nat
  BY Lists
<1>. QED
  BY <1>1, <1>2, OpenedHolds DEF OpenWrite

LEMMA OpenReadHolds ==
    ASSUME IInv, NEW q \in Proc, OpenRead(q)
    PROVE  IInv'
<1>1. disk \in Seq(Cell) /\ FileType'
  BY DEF OpenRead, FileType, IInv, TypeOK
<1>2. DirectoryOf(disk) \in Seq(Entry) /\ Len(disk) \in Nat
  BY <1>1, OpenedIsDirectory DEF OpenRead
<1>. QED
  BY <1>1, <1>2, OpenedHolds DEF OpenRead

LEMMA OpenAppendHolds ==
    ASSUME IInv, NEW q \in Proc, OpenAppend(q)
    PROVE  IInv'
<1>1. disk \in Seq(Cell) /\ FileType'
  BY DEF OpenAppend, FileType, IInv, TypeOK
<1>2. DirectoryOf(disk) \in Seq(Entry) /\ AppendAt(disk) \in Nat
  BY <1>1, OpenedIsDirectory DEF OpenAppend, AppendAt
<1>. QED
  BY <1>1, <1>2, OpenedHolds DEF OpenAppend

\* An operation that only replies.
LEMMA OnlyReplies ==
    ASSUME IInv, NEW q \in Proc, NEW op \in Operation, NEW r \in Reply, Returns(q, op, r),
           UNCHANGED <<disk, exists, m_mode, directory, position, m_path_map, stream>>
    PROVE  IInv'
<1>1. ReplyType'
  BY Replies
<1>2. TypeOK'
  BY <1>1 DEF IInv, TypeOK, ReplyType
<1>. QED
  BY <1>2 DEF IInv, Indexes

LEMMA OpenThrowsHolds ==
    ASSUME IInv, NEW q \in Proc, NEW mode, OpenThrows(q, mode)
    PROVE  IInv'
BY OnlyReplies, Operations DEF OpenThrows

LEMMA WriteThrowsHolds ==
    ASSUME IInv, NEW q \in Proc, NEW p, WriteThrows(q, p)
    PROVE  IInv'
BY OnlyReplies, Operations DEF WriteThrows

LEMMA ReadMissingHolds ==
    ASSUME IInv, NEW q \in Proc, NEW p \in Path, ReadMissing(q, p)
    PROVE  IInv'
BY OnlyReplies, Operations DEF ReadMissing

LEMMA WritePtrHolds ==
    ASSUME IInv, NEW q \in Proc, NEW p \in Path, NEW c \in Content, WritePtr(q, p, c)
    PROVE  IInv'
<1>. DEFINE e == [path |-> p, ofs |-> position[q], content |-> c]
<1>1. /\ directory[q] \in Seq(Entry) /\ position[q] \in Nat
      /\ directory' = [directory EXCEPT ![q] = Append(directory[q], e)]
      /\ m_path_map[q] = PathMap(directory[q])
      /\ m_path_map' = [m_path_map EXCEPT ![q] = Indexed(PathMap(directory[q]), p, Len(directory[q]) + 1)]
  BY DEF IInv, TypeOK, Indexes, WritePtr
<1>2. e \in Entry /\ e.path = p
  BY <1>1 DEF Entry
<1>3. RecordCells(p, c) \in Seq(Cell) /\ Len(RecordCells(p, c)) \in Nat
  BY RecordIsCells
<1>4. FileType' /\ StreamType'
  <2>1. PICK k \in 0..(2 * MaxCells) : Stream(q, position[q], RecordCells(p, c), k)
    BY DEF WritePtr
  <2>2. TypeOK /\ exists' \in BOOLEAN
    BY DEF IInv, TypeOK, WritePtr
  <2>. QED
    BY <1>1, <1>3, <2>1, <2>2, StreamHolds DEF FileType
<1>. HIDE DEF e
<1>5. Append(directory[q], e) \in Seq(Entry)
  <2>. HIDE DEF Entry
  <2>. QED
    BY <1>1, <1>2
<1>6. DirectoryType' /\ Indexes'
  <2>1. Indexed(PathMap(directory[q]), p, Len(directory[q]) + 1) = PathMap(Append(directory[q], e))
    BY <1>1, <1>2, PathMapOfAppend
  <2>2. m_path_map' = [m_path_map EXCEPT ![q] = PathMap(Append(directory[q], e))]
    BY <1>1, <2>1
  <2>. QED
    BY <1>1, <1>5, <2>2, DirectoryReplaced DEF IInv
<1>7. ModeType' /\ position' \in [Proc -> Nat]
  <2>1. m_mode' = m_mode /\ position' = [position EXCEPT ![q] = position[q] + Len(RecordCells(p, c))]
    BY DEF WritePtr
  <2>. QED
    BY <1>1, <1>3, <2>1 DEF IInv, TypeOK, ModeType
<1>8. ReplyType'
  BY Replies, Operations DEF WritePtr
<1>9. TypeOK'
  BY <1>4, <1>6, <1>7, <1>8 DEF TypeOK, FileType, ModeType, DirectoryType, StreamType, ReplyType
<1>. QED
  BY <1>6, <1>9 DEF IInv

LEMMA WriteFailsHolds ==
    ASSUME IInv, NEW q \in Proc, NEW p \in Path, NEW c \in Content, WriteFails(q, p, c)
    PROVE  IInv'
<1>1. RecordCells(p, c) \in Seq(Cell) /\ Len(RecordCells(p, c)) \in Nat
  BY RecordIsCells
<1>2. position[q] \in Nat /\ TypeOK
  BY DEF IInv, TypeOK
<1>3. FileType' /\ StreamType'
  <2>1. PICK n \in 0..(Len(RecordCells(p, c)) - 1) : \E k \in 0..(2 * MaxCells) :
          Stream(q, position[q], SubSeq(RecordCells(p, c), 1, n), k)
    BY DEF WriteFails
  <2>2. PICK k \in 0..(2 * MaxCells) : Stream(q, position[q], SubSeq(RecordCells(p, c), 1, n), k)
    BY <2>1
  <2>3. n \in 0..Len(RecordCells(p, c))
    BY <1>1
  <2>4. SubSeq(RecordCells(p, c), 1, n) \in Seq(Cell)
    BY <1>1, <2>3, Parts
  <2>5. exists' \in BOOLEAN
    BY DEF IInv, TypeOK, WriteFails
  <2>. QED
    BY <1>2, <2>2, <2>4, <2>5, StreamHolds DEF FileType
<1>4. DirectoryType' /\ Indexes'
  BY DirectoryUnchanged DEF IInv, WriteFails
<1>5. ModeType' /\ position' \in [Proc -> Nat]
  BY DEF IInv, TypeOK, WriteFails, ModeType
<1>6. ReplyType'
  BY Replies, Operations DEF WriteFails
<1>7. TypeOK'
  BY <1>3, <1>4, <1>5, <1>6 DEF TypeOK, FileType, ModeType, DirectoryType, StreamType, ReplyType
<1>. QED
  BY <1>4, <1>7 DEF IInv

\* The index leads to an entry, and what is accepted is its content.
LEMMA ReadHolds ==
    ASSUME IInv, NEW q \in Proc, NEW p \in Path, Read(q, p)
    PROVE  IInv'
<1>. DEFINE e == directory[q][m_path_map[q][p] + 1]
<1>1. e \in Entry
  <2>1. directory[q] \in Seq(Entry) /\ m_path_map[q] = PathMap(directory[q])
    BY DEF IInv, TypeOK, Indexes
  <2>2. p \in DOMAIN PathMap(directory[q])
    BY <2>1 DEF Read
  <2>3. m_path_map[q][p] + 1 \in DOMAIN directory[q]
    BY <2>1, <2>2, PathMapFinds
  <2>. HIDE DEF Entry
  <2>. QED
    BY <2>1, <2>3
<1>2. /\ IF e.content = <<>> THEN UNCHANGED <<disk, stream>>
         ELSE /\ disk' = Flushed(q)
              /\ stream' = [stream EXCEPT ![q] = NoStream]
      /\ Returns(q, <<"read", p>>, IF ~Extracts(disk', e, position[q]) THEN Threw
                      ELSE IF e.content = <<>> THEN <<>> ELSE BytesOf(disk', e))
      /\ UNCHANGED <<exists, m_mode, directory, position, m_path_map>>
  BY DEF Read
<1>. HIDE DEF e
<1>3. FileType' /\ StreamType'
  <2>1. Flushed(q) \in Seq(Cell)
    BY FlushedIsFile DEF IInv
  <2>2. disk' \in Seq(Cell)
    BY <1>2, <2>1 DEF IInv, TypeOK
  <2>3. [stream EXCEPT ![q] = NoStream] \in [Proc -> [at : Nat, cells : Seq(Cell)]]
    BY NoStreamType DEF IInv, TypeOK
  <2>. QED
    BY <1>2, <2>2, <2>3 DEF IInv, TypeOK, FileType, StreamType
<1>4. ReplyType'
  <2>1. e.content \in Content
    BY <1>1 DEF Entry
  <2>2. Extracts(disk', e, position[q]) /\ e.content # <<>> => BytesOf(disk', e) = e.content
    BY DEF Extracts, Checks
  <2>3. (IF ~Extracts(disk', e, position[q]) THEN Threw
         ELSE IF e.content = <<>> THEN <<>> ELSE BytesOf(disk', e)) \in Reply
    BY <2>1, <2>2, Operations
  <2>. QED
    BY <1>2, <2>3, Replies, Operations
<1>5. DirectoryType' /\ Indexes'
  BY <1>2, DirectoryUnchanged DEF IInv
<1>6. ModeType' /\ position' \in [Proc -> Nat]
  BY <1>2 DEF IInv, TypeOK, ModeType
<1>7. TypeOK'
  BY <1>3, <1>4, <1>5, <1>6 DEF TypeOK, FileType, ModeType, DirectoryType, StreamType, ReplyType
<1>. QED
  BY <1>5, <1>7 DEF IInv

LEMMA ForgetHolds ==
    ASSUME IInv, NEW q \in Proc, NEW r \in Reply, disk' \in Seq(Cell), Forget(q, r)
    PROVE  IInv'
<1>1. FileType' /\ ModeType' /\ position' \in [Proc -> Nat]
  BY DEF IInv, TypeOK, Forget, FileType, ModeType
<1>2. StreamType'
  BY NoStreamType DEF IInv, TypeOK, Forget, StreamType
<1>3. DirectoryType' /\ Indexes'
  <2>1. <<>> \in Seq(Entry)
    BY Lists
  <2>2. /\ directory' = [directory EXCEPT ![q] = <<>>]
        /\ m_path_map' = [m_path_map EXCEPT ![q] = PathMap(<<>>)]
    BY PathMapOfNone DEF Forget
  <2>. QED
    BY <2>1, <2>2, DirectoryReplaced DEF IInv
<1>4. ReplyType'
  BY Replies, Operations DEF Forget
<1>5. TypeOK'
  BY <1>1, <1>2, <1>3, <1>4 DEF TypeOK, FileType, ModeType, DirectoryType, StreamType, ReplyType
<1>. QED
  BY <1>3, <1>5 DEF IInv

\* Writing the directory, or the beginning of it, leaves a file.
LEMMA FinalizedIsFile ==
    ASSUME TypeOK, NEW q \in Proc, NEW n \in 0..(Len(directory[q]) + 3)
    PROVE  Finalized(q, n) \in Seq(Cell)
<1>1. directory[q] \in Seq(Entry) /\ position[q] \in Nat
  BY DEF TypeOK
<1>. DEFINE cells == DirectoryCells(directory[q], position[q])
<1>2. cells \in Seq(Cell) /\ Len(cells) = Len(directory[q]) + 3
  BY <1>1, DirectoryIsCells
<1>. HIDE DEF cells
<1>3. SubSeq(cells, 1, n) \in Seq(Cell)
  BY <1>2, Parts
<1>4. Overlay(Flushed(q), position[q], SubSeq(cells, 1, n)) \in Seq(Cell)
  BY <1>1, <1>3, FlushedIsFile, OverlayIsFile
<1>. QED
  BY <1>4 DEF Finalized, cells

LEMMA CloseHolds ==
    ASSUME IInv, NEW q \in Proc, Close(q)
    PROVE  IInv'
<1>1. TypeOK /\ directory[q] \in Seq(Entry) /\ position[q] \in Nat /\ disk \in Seq(Cell)
  BY DEF IInv, TypeOK
<1>2. Len(DirectoryCells(directory[q], position[q])) \in 0..(Len(directory[q]) + 3)
  BY <1>1, DirectoryIsCells
<1>3. WithDirectory(q) \in Seq(Cell)
  BY <1>1, <1>2, FinalizedIsFile DEF WithDirectory
<1>4. disk' \in Seq(Cell)
  BY <1>1, <1>3 DEF Close
<1>. DEFINE r == IF Writes(q) THEN Saved ELSE NoReply
<1>5. r \in Reply /\ Forget(q, r)
  BY Operations DEF Close
<1>. HIDE DEF r
<1>. QED
  BY <1>4, <1>5, ForgetHolds

LEMMA CloseFailsHolds ==
    ASSUME IInv, NEW q \in Proc, CloseFails(q)
    PROVE  IInv'
<1>1. TypeOK /\ directory[q] \in Seq(Entry) /\ disk \in Seq(Cell)
  BY DEF IInv, TypeOK
<1>2. disk' \in Seq(Cell)
  <2>1. CASE \E k \in 0..Len(stream[q].cells) :
               disk' = Overlay(disk, stream[q].at, SubSeq(stream[q].cells, 1, k))
    <3>1. PICK k \in 0..Len(stream[q].cells) :
             disk' = Overlay(disk, stream[q].at, SubSeq(stream[q].cells, 1, k))
      BY <2>1
    <3>2. SubSeq(stream[q].cells, 1, k) \in Seq(Cell)
      BY <1>1, StreamOf, Parts
    <3>. QED
      BY <1>1, <3>1, <3>2, StreamOf, OverlayIsFile
  <2>2. CASE \E n \in 0..Len(directory[q]) + 2 : disk' = Finalized(q, n)
    <3>1. PICK n \in 0..Len(directory[q]) + 2 : disk' = Finalized(q, n)
      BY <2>2
    <3>2. n \in 0..(Len(directory[q]) + 3)
      BY <1>1
    <3>. QED
      BY <1>1, <3>1, <3>2, FinalizedIsFile
  <2>. QED
    BY <2>1, <2>2 DEF CloseFails
<1>3. NoReply \in Reply /\ Forget(q, NoReply)
  BY Operations DEF CloseFails
<1>. QED
  BY <1>2, <1>3, ForgetHolds

LEMMA DieHolds ==
    ASSUME IInv, NEW q \in Proc, Die(q)
    PROVE  IInv'
<1>1. disk' \in Seq(Cell)
  BY DEF IInv, TypeOK, Die
<1>2. NoReply \in Reply /\ Forget(q, NoReply)
  BY Operations DEF Die
<1>. QED
  BY <1>1, <1>2, ForgetHolds

-----------------------------------------------------------------------------
(* The theorems *)

LEMMA InitHolds == Init => IInv
<1>. SUFFICES ASSUME Init PROVE IInv
  OBVIOUS
<1>1. FileType
  BY Lists, ZipAssumption DEF Init, FileType
<1>2. ModeType /\ position \in [Proc -> Nat]
  BY DEF Init, ModeType
<1>3. StreamType
  BY NoStreamType DEF Init, StreamType
<1>4. ReplyType
  BY Operations DEF Init, ReplyType
<1>5. directory = [q \in Proc |-> <<>>] /\ m_path_map = [q \in Proc |-> PathMap(<<>>)]
  BY PathMapOfNone DEF Init
<1>6. directory \in [Proc -> Seq(Entry)]
  BY <1>5, Lists
<1>7. Indexes
  BY <1>5 DEF Indexes
<1>8. DirectoryType
  <2>1. \A q \in Proc : m_path_map[q] = PathMap(directory[q]) /\ directory[q] \in Seq(Entry)
    BY <1>6, <1>7 DEF Indexes
  <2>. QED
    BY <1>6, <2>1, PathMapType DEF DirectoryType
<1>. QED
  BY <1>1, <1>2, <1>3, <1>4, <1>7, <1>8, TypeParts DEF IInv

LEMMA NextHolds == IInv /\ [Next]_vars => IInv'
<1>. SUFFICES ASSUME IInv, [Next]_vars PROVE IInv'
  OBVIOUS
<1>1. CASE UNCHANGED vars
  <2>1. TypeOK'
    BY <1>1 DEF IInv, TypeOK, vars
  <2>2. Indexes'
    BY <1>1 DEF IInv, Indexes, vars
  <2>. QED
    BY <2>1, <2>2 DEF IInv
<1>2. CASE Next
  <2>1. PICK q \in Proc :
          \/ OpenWrite(q) \/ OpenRead(q) \/ OpenAppend(q)
          \/ \E mode \in {"Read", "Append"} : OpenThrows(q, mode)
          \/ \E p \in Path, c \in Content : WritePtr(q, p, c) \/ WriteFails(q, p, c)
          \/ \E p \in Path : WriteThrows(q, p) \/ Read(q, p) \/ ReadMissing(q, p)
          \/ Close(q) \/ CloseFails(q) \/ Die(q)
    BY <1>2 DEF Next
  <2>. QED
    BY <2>1, OpenWriteHolds, OpenReadHolds, OpenAppendHolds, OpenThrowsHolds, WritePtrHolds,
       WriteFailsHolds, WriteThrowsHolds, ReadHolds, ReadMissingHolds, CloseHolds,
       CloseFailsHolds, DieHolds
<1>. QED
  BY <1>1, <1>2

\* The file, the streams, the directories and the indices keep their types
\* (ZipArchive.hpp:60-72).
THEOREM Typed == Spec => []TypeOK
<1>1. IInv => TypeOK
  BY DEF IInv
<1>. QED
  BY <1>1, InitHolds, NextHolds, PTL DEF Spec

\* Whatever was written, overwritten, reopened or failed, the index a process keeps leads
\* to the last entry of every path, as the one a reader builds (ZipArchive.cpp:148-165).
THEOREM IndexLeadsToLast == Spec => []IndexIsLast
<1>1. IInv => IndexIsLast
  BY DEF IInv, Indexes, IndexIsLast
<1>. QED
  BY <1>1, InitHolds, NextHolds, PTL DEF Spec

-----------------------------------------------------------------------------
(* Files, cell by cell *)

\* What a record is made of.
Data == Byte \cup {Footer} \cup Local

\* The records of the end of a directory, and its entries, are not taken for each other.
LEMMA KindsDiffer ==
    /\ Data \cap End = {} /\ Data \cap Locator = {} /\ Data \cap End64 = {} /\ Data \cap Entry = {}
    /\ Entry \cap End = {} /\ Entry \cap Locator = {} /\ Entry \cap End64 = {}
    /\ End64 \cap End = {} /\ Locator \cap End = {} /\ Locator \cap End64 = {}
<1>1. ASSUME NEW x \in Local PROVE DOMAIN x = {"local"}
  BY DEF Local
<1>2. ASSUME NEW x \in Entry PROVE DOMAIN x = {"path", "ofs", "content"}
  BY DEF Entry
<1>3. ASSUME NEW x \in End64 PROVE DOMAIN x = {"entries64", "dir64"}
  BY DEF End64
<1>4. ASSUME NEW x \in Locator PROVE DOMAIN x = {"end64"}
  BY DEF Locator
<1>5. ASSUME NEW x \in End PROVE DOMAIN x = {"entries", "dir"}
  BY DEF End
<1>6. /\ "local" \notin {"entries64", "dir64"} /\ "local" \notin {"end64"} /\ "local" \notin {"entries", "dir"}
      /\ "local" \notin {"path", "ofs", "content"}
      /\ "path" \notin {"entries64", "dir64"} /\ "path" \notin {"end64"} /\ "path" \notin {"entries", "dir"}
      /\ "end64" \notin {"entries64", "dir64"} /\ "end64" \notin {"entries", "dir"}
      /\ "entries64" \notin {"entries", "dir"}
  OBVIOUS
<1>7. /\ \A x \in Local : "local" \in DOMAIN x
      /\ \A x \in Entry : "path" \in DOMAIN x
      /\ \A x \in Locator : "end64" \in DOMAIN x
      /\ \A x \in End64 : "entries64" \in DOMAIN x
  BY <1>1, <1>2, <1>3, <1>4
<1>8. /\ Local \cap End = {} /\ Local \cap Locator = {} /\ Local \cap End64 = {} /\ Local \cap Entry = {}
      /\ Entry \cap End = {} /\ Entry \cap Locator = {} /\ Entry \cap End64 = {}
      /\ End64 \cap End = {} /\ Locator \cap End = {} /\ Locator \cap End64 = {}
  <2>. HIDE DEF Local, Entry, End64, Locator, End
  <2>. QED
    BY <1>1, <1>2, <1>3, <1>4, <1>5, <1>6, <1>7
<1>9. (Local \cup Entry \cup End64 \cup Locator \cup End) \cap (Byte \cup {Footer}) = {}
  BY ZipAssumption
<1>. QED
  BY <1>8, <1>9 DEF Data

\* What stands where in two sequences put together.
LEMMA Concat ==
    ASSUME NEW S, NEW r \in Seq(S), NEW t \in Seq(S)
    PROVE  /\ r \o t \in Seq(S) /\ Len(r \o t) = Len(r) + Len(t)
           /\ \A i \in 1..(Len(r) + Len(t)) : (r \o t)[i] = IF i <= Len(r) THEN r[i] ELSE t[i - Len(r)]
BY ConcatProperties

\* Cells written inside a file or at its end.
LEMMA OverlayCells ==
    ASSUME NEW f \in Seq(Cell), NEW s \in Seq(Cell), NEW o \in 0..Len(f)
    PROVE  /\ Overlay(f, o, s) \in Seq(Cell)
           /\ Len(Overlay(f, o, s)) = IF o + Len(s) <= Len(f) THEN Len(f) ELSE o + Len(s)
           /\ \A i \in 1..Len(Overlay(f, o, s)) :
                Overlay(f, o, s)[i] = IF o < i /\ i <= o + Len(s) THEN s[i - o] ELSE f[i]
<1>. DEFINE head == SubSeq(f, 1, o)
            tail == SubSeq(f, o + Len(s) + 1, Len(f))
<1>1. o \in Nat /\ Len(f) \in Nat /\ Len(s) \in Nat /\ o <= Len(f)
  OBVIOUS
<1>2. CASE s = <<>>
  BY <1>1, <1>2 DEF Overlay
<1>3. CASE s # <<>>
  <2>1. head \in Seq(Cell) /\ Len(head) = o /\ \A i \in 1..o : head[i] = f[i]
    BY Prefix
  <2>2. /\ tail \in Seq(Cell)
        /\ Len(tail) = IF o + Len(s) + 1 <= Len(f) THEN Len(f) - (o + Len(s)) ELSE 0
        /\ \A i \in 1..Len(tail) : tail[i] = f[o + Len(s) + i]
    <3>1. /\ o + Len(s) + 1 \in Int /\ Len(f) \in Int
          /\ \A i \in (o + Len(s) + 1)..Len(f) : f[i] \in Cell
      BY <1>1
    <3>2. /\ tail \in Seq(Cell)
          /\ Len(tail) = IF o + Len(s) + 1 <= Len(f) THEN Len(f) - (o + Len(s) + 1) + 1 ELSE 0
          /\ \A i \in 1..(Len(f) - (o + Len(s) + 1) + 1) : tail[i] = f[o + Len(s) + 1 + i - 1]
      BY <3>1, SubSeqProperties
    <3>. HIDE DEF tail
    <3>3. \A i \in 1..Len(tail) : i \in 1..(Len(f) - (o + Len(s) + 1) + 1) /\ o + Len(s) + 1 + i - 1 = o + Len(s) + i
      BY <1>1, <3>2
    <3>. QED
      BY <1>1, <3>2, <3>3
  <2>3. Overlay(f, o, s) = (head \o s) \o tail
    <3>1. ~(Len(f) < o)
      BY <1>1
    <3>. QED
      BY <1>3, <3>1, Zenon DEF Overlay, head, tail
  <2>. HIDE DEF head, tail
  <2>. DEFINE front == head \o s
  <2>4. /\ front \in Seq(Cell) /\ Len(front) = o + Len(s)
        /\ \A i \in 1..(o + Len(s)) : front[i] = IF i <= o THEN f[i] ELSE s[i - o]
    <3>1. /\ front \in Seq(Cell) /\ Len(front) = Len(head) + Len(s)
          /\ \A i \in 1..(Len(head) + Len(s)) : front[i] = IF i <= Len(head) THEN head[i] ELSE s[i - Len(head)]
      BY <2>1, Concat
    <3>. HIDE DEF front
    <3>. QED
      BY <1>1, <2>1, <3>1
  <2>. HIDE DEF front
  <2>5. /\ front \o tail \in Seq(Cell) /\ Len(front \o tail) = Len(front) + Len(tail)
        /\ \A i \in 1..(Len(front) + Len(tail)) :
             (front \o tail)[i] = IF i <= Len(front) THEN front[i] ELSE tail[i - Len(front)]
    BY <2>2, <2>4, Concat
  <2>. DEFINE all == front \o tail
  <2>6. Overlay(f, o, s) = all /\ all \in Seq(Cell)
    BY <2>3, <2>5 DEF front
  <2>7. /\ Len(all) = o + Len(s) + Len(tail)
        /\ \A i \in 1..(o + Len(s) + Len(tail)) :
             all[i] = IF i <= o + Len(s) THEN front[i] ELSE tail[i - (o + Len(s))]
    BY <2>4, <2>5
  <2>. HIDE DEF all
  <2>8. Len(tail) = IF o + Len(s) <= Len(f) THEN Len(f) - (o + Len(s)) ELSE 0
    BY <1>1, <2>2
  <2>. DEFINE n == Len(f)
              k == Len(s)
              t == Len(tail)
  <2>9. Len(all) = IF o + Len(s) <= Len(f) THEN Len(f) ELSE o + Len(s)
    <3>1. /\ o \in Nat /\ n \in Nat /\ k \in Nat /\ o <= n
          /\ t = IF o + k <= n THEN n - (o + k) ELSE 0
          /\ Len(all) = o + k + t
      BY <1>1, <2>7, <2>8
    <3>. HIDE DEF n, k, t
    <3>2. Len(all) = IF o + k <= n THEN n ELSE o + k
      BY <3>1
    <3>. QED
      BY <3>2 DEF n, k
  <2>10. ASSUME NEW i \in 1..Len(all)
         PROVE  all[i] = IF o < i /\ i <= o + Len(s) THEN s[i - o] ELSE f[i]
    <3>1. i \in 1..(o + Len(s) + Len(tail)) /\ i \in Int /\ Len(tail) \in Nat
      <4>1. Len(tail) \in Nat /\ Len(all) \in Nat
        BY <2>2, <2>6
      <4>. QED
        BY <2>7, <4>1
    <3>2. CASE i <= o + Len(s)
      <4>1. all[i] = front[i] /\ i \in 1..(o + Len(s))
        BY <1>1, <2>7, <3>1, <3>2
      <4>. QED
        BY <1>1, <2>4, <3>1, <3>2, <4>1
    <3>3. CASE ~(i <= o + Len(s))
      <4>1. i - (o + Len(s)) \in 1..Len(tail) /\ o + Len(s) + (i - (o + Len(s))) = i
        BY <1>1, <3>1, <3>3
      <4>2. all[i] = tail[i - (o + Len(s))]
        BY <2>7, <3>1, <3>3
      <4>3. tail[i - (o + Len(s))] = f[i]
        BY <2>2, <4>1
      <4>. QED
        BY <3>3, <4>2, <4>3
    <3>. QED
      BY <3>2, <3>3
  <2>. QED
    BY <2>6, <2>9, <2>10
<1>. QED
  BY <1>2, <1>3

\* What stands where in a directory and the records of its end.
LEMMA DirectoryCellsAre ==
    ASSUME NEW d \in Seq(Entry), NEW o \in Nat, d = <<>> => o = 0
    PROVE  LET cells == DirectoryCells(d, o)
           IN  /\ \A i \in 1..Len(d) : cells[i] = d[i] /\ d[i] \in Entry
               /\ cells[Len(d) + 1] = [entries64 |-> Len(d), dir64 |-> o]
               /\ cells[Len(d) + 2] = [end64 |-> o + Len(d)]
               /\ cells[Len(d) + 3] = [entries |-> Len(d), dir |-> o]
<1>. DEFINE e64 == [entries64 |-> Len(d), dir64 |-> o]
            loc == [end64 |-> o + Len(d)]
            end == [entries |-> Len(d), dir |-> o]
            last == <<e64, loc, end>>
            cells == d \o last
<1>1. DirectoryCells(d, o) = cells
  BY DEF DirectoryCells
<1>2. Len(d) \in Nat /\ \A i \in 1..Len(d) : d[i] \in Entry
  <2>. HIDE DEF Entry
  <2>. QED
    OBVIOUS
<1>. DEFINE S == Entry \cup {e64, loc, end}
<1>3. d \in Seq(S) /\ last \in Seq(S) /\ Len(last) = 3 /\ last[1] = e64 /\ last[2] = loc /\ last[3] = end
  <2>. HIDE DEF Entry, e64, loc, end
  <2>. QED
    BY SeqMonotonic
<1>. HIDE DEF last, S
<1>4. \A i \in 1..(Len(d) + 3) : cells[i] = IF i <= Len(d) THEN d[i] ELSE last[i - Len(d)]
  <2>1. \A i \in 1..(Len(d) + Len(last)) : cells[i] = IF i <= Len(d) THEN d[i] ELSE last[i - Len(d)]
    <3>1. d \in Seq(S) /\ last \in Seq(S)
      BY <1>3
    <3>. QED
      BY <3>1, Concat, Zenon
  <2>. QED
    BY <1>3, <2>1, Zenon
<1>. HIDE DEF cells, e64, loc, end
<1>5. \A i \in 1..Len(d) : cells[i] = d[i]
  BY <1>2, <1>4
<1>6. cells[Len(d) + 1] = e64 /\ cells[Len(d) + 2] = loc /\ cells[Len(d) + 3] = end
  <2>. DEFINE n == Len(d)
  <2>1. n \in Nat /\ \A i \in 1..(n + 3) : cells[i] = IF i <= n THEN d[i] ELSE last[i - n]
    BY <1>2, <1>4
  <2>. HIDE DEF n
  <2>2. ASSUME NEW k \in 1..3
        PROVE  n + k \in 1..(n + 3) /\ ~(n + k <= n) /\ (n + k) - n = k
    BY <2>1
  <2>3. \A k \in 1..3 : cells[n + k] = last[k]
    BY <2>1, <2>2
  <2>4. cells[n + 1] = last[1] /\ cells[n + 2] = last[2] /\ cells[n + 3] = last[3]
    BY <2>3
  <2>. QED
    BY <1>3, <2>4 DEF n
<1>. QED
  BY <1>1, <1>2, <1>5, <1>6 DEF e64, loc, end

\* The last of them is an End, and no other is.
LEMMA DirectoryCellKinds ==
    ASSUME NEW d \in Seq(Entry), NEW o \in Nat, d = <<>> => o = 0, NEW i \in 1..(Len(d) + 3)
    PROVE  LET cell == DirectoryCells(d, o)[i]
           IN  /\ i <= Len(d) => cell \in Entry
               /\ i = Len(d) + 1 => cell \in End64
               /\ i = Len(d) + 2 => cell \in Locator
               /\ i = Len(d) + 3 => cell \in End
<1>1. Len(d) \in Nat /\ o + Len(d) \in Nat
  OBVIOUS
<1>2. /\ [entries64 |-> Len(d), dir64 |-> o] \in End64
      /\ [end64 |-> o + Len(d)] \in Locator
      /\ [entries |-> Len(d), dir |-> o] \in End
  BY <1>1 DEF End64, Locator, End
<1>. DEFINE cells == DirectoryCells(d, o)
<1>3. i <= Len(d) => cells[i] \in Entry
  <2>1. \A k \in 1..Len(d) : cells[k] = d[k] /\ d[k] \in Entry
    BY DirectoryCellsAre, Zenon
  <2>. HIDE DEF cells
  <2>. QED
    BY <1>1, <2>1
<1>4. cells[Len(d) + 1] \in End64 /\ cells[Len(d) + 2] \in Locator /\ cells[Len(d) + 3] \in End
  BY <1>2, DirectoryCellsAre
<1>. HIDE DEF cells
<1>5. (i = Len(d) + 1 => cells[i] \in End64) /\ (i = Len(d) + 2 => cells[i] \in Locator)
      /\ (i = Len(d) + 3 => cells[i] \in End)
  BY <1>4
<1>6. /\ i <= Len(d) => cells[i] \in Entry
      /\ i = Len(d) + 1 => cells[i] \in End64
      /\ i = Len(d) + 2 => cells[i] \in Locator
      /\ i = Len(d) + 3 => cells[i] \in End
  BY <1>3, <1>5
<1>. QED
  BY <1>6, Zenon DEF cells

-----------------------------------------------------------------------------
(* Files that are written over with records *)

\* File f is file g, the cells of which after o were in part written over with records.
Kin(f, g, o) ==
    /\ Len(g) <= Len(f)
    /\ \A i \in 1..Len(f) : (i <= Len(g) /\ f[i] = g[i]) \/ (i > o /\ f[i] \in Data)

LEMMA KinItself ==
    ASSUME NEW f \in Seq(Cell), NEW o
    PROVE  Kin(f, f, o)
<1>1. Len(f) \in Nat
  OBVIOUS
<1>. QED
  BY <1>1 DEF Kin

LEMMA KinKin ==
    ASSUME NEW f \in Seq(Cell), NEW g \in Seq(Cell), NEW h \in Seq(Cell), NEW o \in Nat,
           Kin(f, g, o), Kin(g, h, o)
    PROVE  Kin(f, h, o)
<1>1. Len(f) \in Nat /\ Len(g) \in Nat /\ Len(h) \in Nat /\ Len(h) <= Len(f)
  BY DEF Kin
<1>2. ASSUME NEW i \in 1..Len(f)
      PROVE  (i <= Len(h) /\ f[i] = h[i]) \/ (i > o /\ f[i] \in Data)
  <2>1. (i <= Len(g) /\ f[i] = g[i]) \/ (i > o /\ f[i] \in Data)
    BY DEF Kin
  <2>2. i <= Len(g) => i \in 1..Len(g)
    BY <1>1
  <2>3. i <= Len(g) => (i <= Len(h) /\ g[i] = h[i]) \/ (i > o /\ g[i] \in Data)
    BY <2>2 DEF Kin
  <2>. QED
    BY <2>1, <2>3
<1>. QED
  BY <1>1, <1>2 DEF Kin

LEMMA KinOverlay ==
    ASSUME NEW f \in Seq(Cell), NEW o \in Nat, NEW at \in o..Len(f),
           NEW s \in Seq(Cell), \A i \in 1..Len(s) : s[i] \in Data
    PROVE  Kin(Overlay(f, at, s), f, o)
<1>. DEFINE h == Overlay(f, at, s)
<1>1. Len(f) \in Nat /\ Len(s) \in Nat /\ at \in 0..Len(f) /\ at \in Nat /\ o <= at
  OBVIOUS
<1>2. /\ h \in Seq(Cell)
      /\ Len(h) = IF at + Len(s) <= Len(f) THEN Len(f) ELSE at + Len(s)
      /\ \A i \in 1..Len(h) : h[i] = IF at < i /\ i <= at + Len(s) THEN s[i - at] ELSE f[i]
  BY <1>1, OverlayCells
<1>. HIDE DEF h
<1>3. Len(h) \in Nat /\ Len(f) <= Len(h)
  BY <1>1, <1>2
<1>4. ASSUME NEW i \in 1..Len(h)
      PROVE  (i <= Len(f) /\ h[i] = f[i]) \/ (i > o /\ h[i] \in Data)
  <2>1. CASE at < i /\ i <= at + Len(s)
    <3>1. i - at \in 1..Len(s) /\ i > o
      BY <1>1, <1>3, <2>1
    <3>. QED
      BY <1>2, <2>1, <3>1
  <2>2. CASE ~(at < i /\ i <= at + Len(s))
    <3>1. i <= Len(f)
      BY <1>1, <1>2, <1>3, <2>2
    <3>. QED
      BY <1>2, <2>2, <3>1
  <2>. QED
    BY <2>1, <2>2
<1>. QED
  BY <1>3, <1>4 DEF Kin, h

\* What a file that close left holds.
LEMMA SavedCells ==
    ASSUME NEW g \in Seq(Cell), NEW o \in Nat, NEW d \in Seq(Entry), IsSaved(g, o, d)
    PROVE  /\ o + Len(d) + 3 <= Len(g)
           /\ \A i \in 1..Len(d) : g[o + i] = d[i]
           /\ g[o + Len(d) + 1] = [entries64 |-> Len(d), dir64 |-> o]
           /\ g[o + Len(d) + 2] = [end64 |-> o + Len(d)]
           /\ g[o + Len(d) + 3] = [entries |-> Len(d), dir |-> o]
           /\ \A i \in 1..Len(g) : g[i] \in End => i = o + Len(d) + 3
<1>. DEFINE cells == DirectoryCells(d, o)
<1>1. /\ d = <<>> => o = 0
      /\ \A i \in 1..(Len(d) + 3) : g[o + i] = cells[i]
      /\ o + Len(d) + 3 <= Len(g)
      /\ \A i \in 1..Len(g) : g[i] \in End => i = o + Len(d) + 3
  BY DEF IsSaved
<1>2. /\ \A i \in 1..Len(d) : cells[i] = d[i]
      /\ cells[Len(d) + 1] = [entries64 |-> Len(d), dir64 |-> o]
      /\ cells[Len(d) + 2] = [end64 |-> o + Len(d)]
      /\ cells[Len(d) + 3] = [entries |-> Len(d), dir |-> o]
  BY <1>1, DirectoryCellsAre, Zenon
<1>. DEFINE n == Len(d)
<1>3. n \in Nat
  OBVIOUS
<1>. HIDE DEF cells, n
<1>4. n + 1 \in 1..(n + 3) /\ n + 2 \in 1..(n + 3) /\ n + 3 \in 1..(n + 3)
      /\ \A i \in 1..n : i \in 1..(n + 3)
  BY <1>3
<1>5. g[o + (n + 1)] = cells[n + 1] /\ g[o + (n + 2)] = cells[n + 2] /\ g[o + (n + 3)] = cells[n + 3]
      /\ \A i \in 1..n : g[o + i] = cells[i]
  BY <1>1, <1>4 DEF n
<1>6. o + (n + 1) = o + n + 1 /\ o + (n + 2) = o + n + 2 /\ o + (n + 3) = o + n + 3
  BY <1>3
<1>7. /\ \A i \in 1..n : g[o + i] = d[i]
      /\ g[o + n + 1] = [entries64 |-> Len(d), dir64 |-> o]
      /\ g[o + n + 2] = [end64 |-> o + Len(d)]
      /\ g[o + n + 3] = [entries |-> Len(d), dir |-> o]
  BY <1>2, <1>5, <1>6, Zenon DEF n
<1>. QED
  BY <1>1, <1>7, Zenon DEF n

\* The position of the End of directory d, if that begins at o.
EndAt(o, d) == o + Len(d) + 3

\* File f has nothing of a directory but what it has of g, which close left.
Remains(f, g, o, d) ==
    LET e == EndAt(o, d)
    IN  /\ Len(g) <= Len(f)
        /\ \A i \in 1..o : f[i] = g[i]
        /\ \A i \in 1..Len(f) : f[i] \in End => i <= Len(g) /\ f[i] = g[i]
        /\ f[e - 1] \in Locator => f[e - 1] = g[e - 1]
        /\ f[e - 2] \in End64 => f[e - 2] = g[e - 2]
        /\ (\A i \in 1..Len(d) : f[o + i] \in Entry) => \A i \in 1..Len(d) : f[o + i] = g[o + i]

\* The directory d at o can be found in file f.
Stands(f, o, d) ==
    /\ EndAt(o, d) <= Len(f) /\ Len(f) - EndAt(o, d) < Reach
    /\ f[EndAt(o, d)] \in End
    /\ \A i \in 1..Len(d) : f[o + i] \in Entry

LEMMA KinRemains ==
    ASSUME NEW f \in Seq(Cell), NEW g \in Seq(Cell), NEW o \in Nat, NEW d \in Seq(Entry),
           Kin(f, g, o), IsSaved(g, o, d)
    PROVE  Remains(f, g, o, d)
<1>. DEFINE e == EndAt(o, d)
<1>1. Len(f) \in Nat /\ Len(g) \in Nat /\ Len(d) \in Nat /\ e = o + Len(d) + 3 /\ Len(g) <= Len(f)
      /\ e <= Len(g) /\ e \in Nat
  <2>1. o + Len(d) + 3 <= Len(g)
    BY SavedCells, Zenon
  <2>. QED
    BY <2>1 DEF Kin, EndAt
<1>2. ASSUME NEW i \in 1..Len(f), f[i] \in End \/ f[i] \in Locator \/ f[i] \in End64 \/ f[i] \in Entry \/ i <= o
      PROVE  i <= Len(g) /\ f[i] = g[i]
  <2>1. f[i] \notin Data \/ i <= o
    BY <1>2, KindsDiffer
  <2>2. (i <= Len(g) /\ f[i] = g[i]) \/ (i > o /\ f[i] \in Data)
    BY DEF Kin
  <2>. QED
    BY <2>1, <2>2
<1>3. e - 1 \in 1..Len(f) /\ e - 2 \in 1..Len(f)
      /\ (\A i \in 1..Len(d) : o + i \in 1..Len(f)) /\ \A i \in 1..o : i \in 1..Len(f) /\ i <= o
  BY <1>1
<1>. HIDE DEF e
<1>. QED
  BY <1>1, <1>2, <1>3 DEF Remains, e

LEMMA SliceIs ==
    ASSUME NEW S, NEW f \in Seq(S), NEW o \in Nat, NEW n \in Nat, o + n <= Len(f)
    PROVE  /\ SubSeq(f, o + 1, o + n) \in Seq(S) /\ Len(SubSeq(f, o + 1, o + n)) = n
           /\ \A i \in 1..n : SubSeq(f, o + 1, o + n)[i] = f[o + i]
OBVIOUS

LEMMA SameSequences ==
    ASSUME NEW S, NEW t \in Seq(S), NEW d \in Seq(S), Len(t) = Len(d),
           \A i \in 1..Len(d) : t[i] = d[i]
    PROVE  t = d
BY SeqEqual

\* Whether such a file opens, and with what directory.
LEMMA RemainsOpens ==
    ASSUME NEW f \in Seq(Cell), NEW g \in Seq(Cell), NEW o \in Nat, NEW d \in Seq(Entry),
           IsSaved(g, o, d), Remains(f, g, o, d)
    PROVE  /\ Opens(f) <=> Stands(f, o, d)
           /\ Opens(f) => /\ EndOf(f) = EndAt(o, d) /\ StartOf(f) = o /\ DirectoryOf(f) = d
                          /\ f[EndAt(o, d)] = g[EndAt(o, d)]
                          /\ \A i \in 1..Len(d) : f[o + i] = d[i]
                          /\ IsZip64(f) => /\ f[EndAt(o, d) - 1] = g[EndAt(o, d) - 1]
                                           /\ f[EndAt(o, d) - 2] = g[EndAt(o, d) - 2]
<1>. DEFINE e == EndAt(o, d)
            n == Len(d)
<1>1. /\ Len(f) \in Nat /\ Len(g) \in Nat /\ n \in Nat /\ e \in Nat /\ Len(g) <= Len(f)
      /\ e = o + n + 3 /\ e <= Len(g) /\ e > 2 /\ e - 1 = o + n + 2 /\ e - 2 = o + n + 1
  <2>1. o + Len(d) + 3 <= Len(g)
    BY SavedCells, Zenon
  <2>2. Len(g) <= Len(f)
    BY Zenon DEF Remains
  <2>3. Len(f) \in Nat /\ Len(g) \in Nat /\ n \in Nat /\ e = o + n + 3 /\ e <= Len(g)
    BY <2>1 DEF EndAt
  <2>. HIDE DEF e, n
  <2>. QED
    BY <2>2, <2>3
<1>2. /\ g[o + n + 1] = [entries64 |-> n, dir64 |-> o]
      /\ g[o + n + 2] = [end64 |-> o + n]
      /\ g[e] = [entries |-> n, dir |-> o]
      /\ \A i \in 1..n : g[o + i] = d[i]
      /\ \A i \in 1..Len(g) : g[i] \in End => i = e
  <2>1. /\ g[o + Len(d) + 1] = [entries64 |-> Len(d), dir64 |-> o]
        /\ g[o + Len(d) + 2] = [end64 |-> o + Len(d)]
        /\ g[o + Len(d) + 3] = [entries |-> Len(d), dir |-> o]
        /\ \A i \in 1..Len(d) : g[o + i] = d[i]
        /\ \A i \in 1..Len(g) : g[i] \in End => i = o + Len(d) + 3
    BY SavedCells
  <2>. QED
    BY <2>1, Zenon DEF EndAt
<1>3. g[e - 2].entries64 = n /\ g[e - 2].dir64 = o /\ g[e - 1].end64 = o + n
      /\ g[e].entries = n /\ g[e].dir = o
  BY <1>1, <1>2
<1>4. /\ \A i \in 1..Len(f) : f[i] \in End => i <= Len(g) /\ f[i] = g[i]
      /\ f[e - 1] \in Locator => f[e - 1] = g[e - 1]
      /\ f[e - 2] \in End64 => f[e - 2] = g[e - 2]
      /\ (\A i \in 1..n : f[o + i] \in Entry) => \A i \in 1..n : f[o + i] = g[o + i]
  BY DEF Remains
<1>. HIDE DEF e, n
<1>5. \A i \in 1..Len(f) : f[i] \in End => i = e /\ f[i] = g[i]
  BY <1>1, <1>2, <1>4
<1>6. Ends(f) # {} => EndOf(f) = e /\ e \in Ends(f)
  <2>1. Ends(f) \subseteq {e}
    BY <1>5 DEF Ends
  <2>2. Ends(f) # {} => Ends(f) = {e}
    BY <2>1
  <2>3. e <= e
    BY <1>1
  <2>. QED
    BY <2>2, <2>3 DEF EndOf
<1>7. e \in Ends(f) <=> e <= Len(f) /\ Len(f) - e < Reach /\ f[e] \in End
  BY <1>1 DEF Ends
<1>8. ASSUME e \in Ends(f)
      PROVE  /\ StartOf(f) = o /\ EntriesOf(f) = n /\ f[e] = g[e]
             /\ HasLocator(f) => f[EndOf(f) - 1].end64 = o + n
             /\ IsZip64(f) => f[e - 1] = g[e - 1] /\ f[e - 2] = g[e - 2]
  <2>1. EndOf(f) = e /\ f[e] = g[e] /\ e \in 1..Len(f)
    BY <1>5, <1>6, <1>8 DEF Ends
  <2>2. HasLocator(f) => f[e - 1] = g[e - 1] /\ f[e - 1].end64 = o + n
    BY <1>3, <1>4, <2>1 DEF HasLocator
  <2>3. IsZip64(f) => f[e - 1].end64 + 1 = e - 2
    <3>1. o + n + 1 = e - 2
      BY <1>1
    <3>. QED
      BY <2>2, <3>1 DEF IsZip64
  <2>4. IsZip64(f) => f[e - 2] \in End64
    BY <2>1, <2>3 DEF IsZip64
  <2>5. IsZip64(f) => f[e - 1] = g[e - 1] /\ f[e - 2] = g[e - 2]
    BY <1>4, <2>2, <2>4 DEF IsZip64
  <2>6. StartOf(f) = o
    <3>1. CASE IsZip64(f)
      BY <1>3, <2>1, <2>3, <2>5, <3>1 DEF StartOf
    <3>2. CASE ~IsZip64(f)
      BY <1>3, <2>1, <3>2 DEF StartOf
    <3>. QED
      BY <3>1, <3>2
  <2>7. EntriesOf(f) = n
    <3>1. CASE IsZip64(f)
      BY <1>3, <2>1, <2>3, <2>5, <3>1 DEF EntriesOf
    <3>2. CASE ~IsZip64(f)
      BY <1>3, <2>1, <3>2 DEF EntriesOf
    <3>. QED
      BY <3>1, <3>2
  <2>. QED
    BY <2>1, <2>2, <2>5, <2>6, <2>7
<1>9. ASSUME e \in Ends(f)
      PROVE  /\ DirectoryOf(f) \in Seq(Cell) /\ Len(DirectoryOf(f)) = n
             /\ \A i \in 1..n : DirectoryOf(f)[i] = f[o + i]
  <2>1. DirectoryOf(f) = SubSeq(f, o + 1, o + n)
    BY <1>8, <1>9 DEF DirectoryOf
  <2>2. o + n <= Len(f)
    BY <1>1
  <2>. QED
    BY <1>1, <2>1, <2>2, SliceIs
<1>10. ASSUME Opens(f)
       PROVE  Stands(f, o, d) /\ e \in Ends(f)
  <2>1. e \in Ends(f)
    BY <1>6, <1>10 DEF Opens
  <2>2. \A i \in 1..n : f[o + i] \in Entry
    <3>1. \A i \in DOMAIN DirectoryOf(f) : DirectoryOf(f)[i] \in Entry
      BY <1>10 DEF Opens
    <3>2. DOMAIN DirectoryOf(f) = 1..n
      BY <1>9, <2>1
    <3>. QED
      BY <1>9, <2>1, <3>1, <3>2
  <2>. QED
    BY <1>7, <2>1, <2>2 DEF Stands, e, n
<1>11. ASSUME Stands(f, o, d)
       PROVE  /\ e \in Ends(f) /\ DirectoryOf(f) = d
              /\ \A i \in 1..n : f[o + i] = d[i]
  <2>1. e \in Ends(f) /\ \A i \in 1..n : f[o + i] \in Entry
    BY <1>7, <1>11 DEF Stands, e, n
  <2>2. \A i \in 1..n : f[o + i] = d[i]
    BY <1>2, <1>4, <2>1
  <2>3. DirectoryOf(f) = d
    <3>. DEFINE t == DirectoryOf(f)
    <3>1. t \in Seq(Cell) /\ Len(t) = Len(d) /\ \A i \in 1..Len(d) : t[i] = d[i]
      BY <1>9, <2>1, <2>2 DEF n
    <3>2. d \in Seq(Cell)
      BY CellTypes, SeqMonotonic
    <3>. HIDE DEF t
    <3>3. t = d
      BY <3>1, <3>2, SameSequences
    <3>. QED
      BY <3>3 DEF t
  <2>. QED
    BY <2>1, <2>2, <2>3
<1>12. ASSUME Stands(f, o, d)
       PROVE  Opens(f)
  <2>1. e \in Ends(f) /\ DirectoryOf(f) = d
    BY <1>11, <1>12
  <2>2. HasLocator(f) => f[EndOf(f) - 1].end64 < Len(f)
    <3>1. o + n < Len(f)
      BY <1>1
    <3>. QED
      BY <1>8, <2>1, <3>1
  <2>3. StartOf(f) + EntriesOf(f) <= Len(f)
    BY <1>1, <1>8, <2>1
  <2>4. ASSUME NEW i \in DOMAIN d
        PROVE  d[i] \in Entry /\ d[i].ofs + 1 + Len(d[i].content) <= Len(f)
    <3>1. d[i] \in Entry /\ d[i].ofs + 1 + Len(d[i].content) <= o
      <4>. HIDE DEF Entry
      <4>. QED
        BY DEF IsSaved, Recorded
    <3>2. d[i].ofs \in Nat /\ Len(d[i].content) \in Nat
      BY <3>1, ContentIsCells DEF Entry
    <3>3. \A x \in Nat, y \in Nat : x + 1 + y <= o => x + 1 + y <= Len(f)
      BY <1>1
    <3>. QED
      BY <3>1, <3>2, <3>3, Zenon
  <2>. QED
    BY <2>1, <2>2, <2>3, <2>4 DEF Opens
<1>13. Opens(f) <=> Stands(f, o, d)
  BY <1>10, <1>12
<1>. QED
  BY <1>6, <1>8, <1>10, <1>11, <1>13 DEF e, n

-----------------------------------------------------------------------------
(* What is found in a file *)

\* What directory d, read with its index, holds.
Holding(d) == [p \in Path |-> Contents(d, PathMap(d), p)]

LEMMA EntryFields ==
    ASSUME NEW e \in Entry
    PROVE  /\ e.ofs \in Nat /\ e.content \in Content /\ e.content \in Seq(Byte)
           /\ Len(e.content) \in Nat /\ e.path \in Path
<1>1. e.ofs \in Nat /\ e.content \in Content /\ e.path \in Path
  BY DEF Entry
<1>2. e.content \in Seq(Byte)
  BY <1>1, ZipAssumption
<1>. QED
  BY <1>1, <1>2

\* A record that is in the file is extracted.
LEMMA RecordedExtracts ==
    ASSUME NEW f \in Seq(Cell), NEW e \in Entry, NEW o \in Nat, NEW end \in Nat,
           Recorded(f, e, o), o <= Len(f), e.ofs + 1 + Len(e.content) <= end
    PROVE  Extracts(f, e, end) /\ (e.content # <<>> => BytesOf(f, e) = e.content)
<1>. DEFINE x == e.ofs
            y == Len(e.content)
<1>1. x \in Nat /\ y \in Nat /\ Len(f) \in Nat
  BY EntryFields
<1>2. x + 1 + y <= o /\ (e.content # <<>> => f[x + 1] \in Local /\ BytesOf(f, e) = e.content)
  BY DEF Recorded
<1>. HIDE DEF x, y
<1>3. x + 1 \in 1..Len(f) /\ x + 1 + y <= Len(f)
  BY <1>1, <1>2
<1>4. x + 1 + y <= end
  BY DEF x, y
<1>. QED
  BY <1>2, <1>3, <1>4 DEF Extracts, Checks, x, y

\* The cells of a record are at positions before its end.
LEMMA RecordedSame ==
    ASSUME NEW f \in Seq(Cell), NEW g \in Seq(Cell), NEW e \in Entry, NEW o \in Nat,
           Recorded(g, e, o), o <= Len(f), o <= Len(g), \A i \in 1..o : f[i] = g[i]
    PROVE  Recorded(f, e, o)
<1>. DEFINE x == e.ofs
            n == Len(e.content)
<1>1. x \in Nat /\ n \in Nat /\ Len(f) \in Nat /\ Len(g) \in Nat
  BY EntryFields
<1>2. x + 1 + n <= o
  BY DEF Recorded
<1>. HIDE DEF x, n
<1>3. x + 1 \in 1..o /\ x + 1 + n <= Len(f) /\ x + 1 + n <= Len(g) /\ x + 1 \in Nat
      /\ \A i \in 1..n : x + 1 + i \in 1..o
  BY <1>1, <1>2
<1>. DEFINE sf == SubSeq(f, (x + 1) + 1, (x + 1) + n)
            sg == SubSeq(g, (x + 1) + 1, (x + 1) + n)
<1>4. /\ sf \in Seq(Cell) /\ Len(sf) = n /\ \A i \in 1..n : sf[i] = f[x + 1 + i]
      /\ sg \in Seq(Cell) /\ Len(sg) = n /\ \A i \in 1..n : sg[i] = g[x + 1 + i]
  BY <1>1, <1>3, SliceIs
<1>5. (x + 1) + 1 = x + 2
  BY <1>1
<1>6. BytesOf(f, e) = sf /\ BytesOf(g, e) = sg
  BY <1>5 DEF BytesOf, x, n
<1>. HIDE DEF sf, sg
<1>7. sf = sg
  BY <1>3, <1>4, SameSequences
<1>. QED
  BY <1>2, <1>3, <1>6, <1>7 DEF Recorded, x, n

LEMMA RecordedMore ==
    ASSUME NEW f, NEW e \in Entry, NEW o \in Nat, NEW b \in Nat, Recorded(f, e, o), o <= b
    PROVE  Recorded(f, e, b)
<1>. DEFINE x == e.ofs
            n == Len(e.content)
<1>1. x \in Nat /\ n \in Nat
  BY EntryFields
<1>2. x + 1 + n <= o
  BY DEF Recorded
<1>. HIDE DEF x, n
<1>3. x + 1 + n <= b
  BY <1>1, <1>2
<1>. QED
  BY <1>3 DEF Recorded, x, n

\* A file that opens and has its records holds what its directory lists.
LEMMA FoundIs ==
    ASSUME NEW f \in Seq(Cell), NEW o \in Nat, Opens(f), o <= Len(f),
           \A i \in DOMAIN DirectoryOf(f) : Recorded(f, DirectoryOf(f)[i], o)
    PROVE  FoundIn(f) = Holding(DirectoryOf(f))
<1>. DEFINE d == DirectoryOf(f)
            map == PathMap(d)
<1>1. d \in Seq(Entry)
  BY OpenedIsDirectory
<1>. HIDE DEF d
<1>2. ASSUME NEW p \in Path, p \in DOMAIN map
      PROVE  Extracts(f, d[map[p] + 1], Len(f))
  <2>. DEFINE e == d[map[p] + 1]
  <2>1. e \in Entry /\ Recorded(f, e, o)
    <3>1. map[p] + 1 \in DOMAIN d
      BY <1>1, <1>2, PathMapFinds
    <3>. HIDE DEF Entry
    <3>. QED
      BY <1>1, <3>1 DEF d
  <2>. HIDE DEF e
  <2>2. Recorded(f, e, Len(f)) /\ Len(f) \in Nat
    BY <2>1, RecordedMore
  <2>3. e.ofs + 1 + Len(e.content) <= Len(f)
    BY <2>2 DEF Recorded
  <2>4. Extracts(f, e, Len(f))
    BY <2>1, <2>2, <2>3, RecordedExtracts
  <2>. QED
    BY <2>4 DEF e
<1>3. FoundIn(f) = [p \in Path |-> IF p \in DOMAIN map /\ ~Extracts(f, d[map[p] + 1], Len(f)) THEN Unreadable
                                   ELSE Contents(d, map, p)]
  BY DEF FoundIn, d
<1>. HIDE DEF map
<1>4. FoundIn(f) = [p \in Path |-> Contents(d, map, p)]
  BY <1>2, <1>3
<1>. QED
  BY <1>4 DEF Holding, d, map

\* A file without an End does not open.
LEMMA NothingFound ==
    ASSUME NEW f \in Seq(Cell), \A i \in 1..Len(f) : f[i] \notin End
    PROVE  ~Opens(f) /\ FoundIn(f) = Unreadable /\ Sound(f)
<1>1. Ends(f) = {}
  BY DEF Ends
<1>2. ~Opens(f)
  BY <1>1 DEF Opens
<1>. QED
  BY <1>2 DEF FoundIn, Sound

\* What is found in a file that has a part of what close left.
LEMMA RemainsFound ==
    ASSUME NEW f \in Seq(Cell), NEW g \in Seq(Cell), NEW o \in Nat, NEW d \in Seq(Entry),
           IsSaved(g, o, d), Remains(f, g, o, d)
    PROVE  /\ Sound(f)
           /\ ~Opens(f) => FoundIn(f) = Unreadable
           /\ Opens(f) => FoundIn(f) = Holding(d)
           /\ \A i \in DOMAIN d : Recorded(f, d[i], o)
           /\ o <= Len(f)
           /\ Opens(f) /\ IsZip64(f) => IsSaved(f, o, d)
<1>1. o <= Len(f) /\ o <= Len(g) /\ \A i \in 1..o : f[i] = g[i]
  <2>1. o + Len(d) + 3 <= Len(g)
    BY SavedCells
  <2>2. Len(g) <= Len(f) /\ \A i \in 1..o : f[i] = g[i]
    BY DEF Remains
  <2>. QED
    BY <2>1, <2>2
<1>2. ASSUME NEW i \in DOMAIN d
      PROVE  Recorded(f, d[i], o)
  <2>1. d[i] \in Entry /\ Recorded(g, d[i], o)
    <3>. HIDE DEF Entry
    <3>. QED
      BY DEF IsSaved
  <2>. QED
    BY <1>1, <2>1, RecordedSame
<1>3. Opens(f) => DirectoryOf(f) = d /\ StartOf(f) = o
  BY RemainsOpens
<1>4. Opens(f) => FoundIn(f) = Holding(d)
  BY <1>1, <1>2, <1>3, FoundIs
<1>5. ASSUME Opens(f), IsZip64(f)
      PROVE  IsSaved(f, o, d)
  <2>. DEFINE e == EndAt(o, d)
              n == Len(d)
  <2>1. /\ n \in Nat /\ e = o + n + 3 /\ e - 1 = o + (n + 2) /\ e - 2 = o + (n + 1) /\ e = o + (n + 3)
    BY DEF EndAt
  <2>2. /\ f[e] = g[e] /\ f[e - 1] = g[e - 1] /\ f[e - 2] = g[e - 2]
        /\ \A i \in 1..n : f[o + i] = d[i]
        /\ e <= Len(f) /\ Len(f) - e < Reach
    BY <1>5, RemainsOpens DEF Stands
  <2>3. \A i \in 1..n : g[o + i] = d[i]
    <3>1. /\ d = <<>> => o = 0
          /\ \A i \in 1..(Len(d) + 3) : g[o + i] = DirectoryCells(d, o)[i]
      BY DEF IsSaved
    <3>2. \A i \in 1..Len(d) : DirectoryCells(d, o)[i] = d[i]
      BY <3>1, DirectoryCellsAre, Zenon
    <3>3. \A i \in 1..Len(d) : i \in 1..(Len(d) + 3)
      BY <2>1
    <3>. QED
      BY <3>1, <3>2, <3>3
  <2>4. /\ \A i \in 1..(n + 3) : g[o + i] = DirectoryCells(d, o)[i]
        /\ d = <<>> => o = 0
    BY DEF IsSaved
  <2>5. \A i \in 1..Len(f) : f[i] \in End => i = e
    <3>1. \A i \in 1..Len(f) : f[i] \in End => i <= Len(g) /\ f[i] = g[i]
      BY DEF Remains
    <3>2. \A i \in 1..Len(g) : g[i] \in End => i = e
      BY DEF IsSaved, EndAt
    <3>. QED
      BY <3>1, <3>2
  <2>. HIDE DEF e, n
  <2>6. \A i \in 1..(n + 3) : i \in 1..n \/ i = n + 1 \/ i = n + 2 \/ i = n + 3
    BY <2>1
  <2>7. \A i \in 1..(n + 3) : f[o + i] = g[o + i]
    BY <2>1, <2>2, <2>3, <2>6
  <2>8. Len(f) >= o + Len(d) + 3 /\ Len(f) - (o + Len(d) + 3) < Reach
    BY <2>1, <2>2 DEF n
  <2>9. \A i \in 1..(Len(d) + 3) : f[o + i] = DirectoryCells(d, o)[i]
    BY <2>4, <2>7 DEF n
  <2>10. \A i \in DOMAIN f : f[i] \in End => i = o + Len(d) + 3
    BY <2>1, <2>5 DEF n
  <2>. QED
    BY <1>2, <2>4, <2>8, <2>9, <2>10 DEF IsSaved
<1>6. Sound(f)
  <2>1. ASSUME Opens(f), ~IsZip64(f)
        PROVE  \A i \in DOMAIN DirectoryOf(f) : Recorded(f, DirectoryOf(f)[i], Len(f))
    <3>1. ASSUME NEW i \in DOMAIN d
          PROVE  Recorded(f, d[i], Len(f))
      <4>1. d[i] \in Entry /\ Len(f) \in Nat
        <5>. HIDE DEF Entry
        <5>. QED
          OBVIOUS
      <4>. QED
        BY <1>1, <1>2, <4>1, RecordedMore
    <3>. QED
      BY <1>3, <2>1, <3>1
  <2>. QED
    BY <1>3, <1>5, <2>1 DEF Sound
<1>7. ~Opens(f) => FoundIn(f) = Unreadable
  BY DEF FoundIn
<1>. QED
  BY <1>1, <1>2, <1>4, <1>5, <1>6, <1>7

\* What is found in a file that close left.
LEMMA SavedFound ==
    ASSUME NEW f \in Seq(Cell), NEW o \in Nat, NEW d \in Seq(Entry), IsSaved(f, o, d)
    PROVE  /\ Opens(f) /\ IsZip64(f) /\ StartOf(f) = o /\ DirectoryOf(f) = d
           /\ FoundIn(f) = Holding(d) /\ Sound(f)
<1>. DEFINE e == EndAt(o, d)
            n == Len(d)
<1>1. Remains(f, f, o, d)
  BY KinItself, KinRemains
<1>2. /\ n \in Nat /\ e = o + n + 3 /\ e - 1 = o + n + 2 /\ e - 2 = o + n + 1 /\ e - 2 \in 1..e
      /\ e > 2 /\ o + n \in Nat /\ (o + n) + 1 = e - 2
  BY DEF EndAt
<1>3. /\ o + Len(d) + 3 <= Len(f)
      /\ \A i \in 1..Len(d) : f[o + i] = d[i]
      /\ f[o + Len(d) + 1] = [entries64 |-> Len(d), dir64 |-> o]
      /\ f[o + Len(d) + 2] = [end64 |-> o + Len(d)]
      /\ f[o + Len(d) + 3] = [entries |-> Len(d), dir |-> o]
      /\ \A i \in 1..Len(f) : f[i] \in End => i = o + Len(d) + 3
  BY SavedCells
<1>4. f[e - 2] \in End64 /\ f[e - 1] \in Locator /\ f[e - 1].end64 = o + n /\ f[e] \in End
  BY <1>2, <1>3 DEF End64, Locator, End
<1>5. Stands(f, o, d)
  <2>1. Len(f) - e < Reach
    BY DEF IsSaved, EndAt
  <2>2. \A i \in 1..n : f[o + i] \in Entry
    <3>1. \A i \in 1..n : d[i] \in Entry
      <4>. HIDE DEF Entry
      <4>. QED
        OBVIOUS
    <3>. QED
      BY <1>3, <3>1
  <2>. QED
    BY <1>2, <1>3, <1>4, <2>1, <2>2 DEF Stands
<1>6. Opens(f) /\ EndOf(f) = e /\ StartOf(f) = o /\ DirectoryOf(f) = d
  BY <1>1, <1>5, RemainsOpens
<1>7. IsZip64(f)
  <2>1. Len(f) \in Nat /\ e <= Len(f)
    BY <1>2, <1>3
  <2>. HIDE DEF e, n
  <2>2. e - 2 \in 1..Len(f)
    BY <1>2, <2>1
  <2>. QED
    BY <1>2, <1>4, <1>6, <2>2 DEF IsZip64, HasLocator
<1>8. FoundIn(f) = Holding(d) /\ Sound(f)
  BY <1>1, <1>6, RemainsFound
<1>. QED
  BY <1>6, <1>7, <1>8

-----------------------------------------------------------------------------
(* A file that one process edits *)

\* What an editor found: nothing, in Write mode, or a file that close left.
Editable(g, o, d) == (g = <<>> /\ o = 0 /\ d = <<>>) \/ IsSaved(g, o, d)

\* Records written behind those that were there take nothing away but the directory.
LEMMA EditedFound ==
    ASSUME NEW f \in Seq(Cell), NEW g \in Seq(Cell), NEW o \in Nat, NEW d \in Seq(Entry),
           Editable(g, o, d), Kin(f, g, o)
    PROVE  /\ Sound(f) /\ o <= Len(f)
           /\ ~Opens(f) => FoundIn(f) = Unreadable
           /\ Opens(f) => /\ StartOf(f) = o /\ DirectoryOf(f) = d /\ FoundIn(f) = Holding(d)
                          /\ \A i \in DOMAIN d : Recorded(f, d[i], o)
<1>1. CASE g = <<>> /\ o = 0 /\ d = <<>>
  <2>1. Len(g) = 0 /\ Len(f) \in Nat
    BY <1>1
  <2>2. \A i \in 1..Len(f) : f[i] \in Data
    BY <2>1 DEF Kin
  <2>3. \A i \in 1..Len(f) : f[i] \notin End
    BY <2>2, KindsDiffer
  <2>. QED
    BY <1>1, <2>1, <2>3, NothingFound
<1>2. CASE IsSaved(g, o, d)
  <2>1. Remains(f, g, o, d)
    BY <1>2, KinRemains
  <2>2. Opens(f) => StartOf(f) = o /\ DirectoryOf(f) = d
    BY <1>2, <2>1, RemainsOpens
  <2>. QED
    BY <1>2, <2>1, <2>2, RemainsFound
<1>. QED
  BY <1>1, <1>2 DEF Editable

\* What had become of the file does not come back.
LEMMA KinStands ==
    ASSUME NEW f \in Seq(Cell), NEW g \in Seq(Cell), NEW o \in Nat, NEW d \in Seq(Entry),
           Kin(f, g, o), Stands(f, o, d)
    PROVE  Stands(g, o, d)
<1>. DEFINE e == EndAt(o, d)
            n == Len(d)
<1>1. Len(f) \in Nat /\ Len(g) \in Nat /\ n \in Nat /\ e = o + n + 3 /\ e \in Nat
  BY DEF EndAt
<1>2. /\ e <= Len(f) /\ Len(f) - e < Reach /\ f[e] \in End /\ Len(g) <= Len(f)
      /\ \A i \in 1..n : f[o + i] \in Entry
  BY DEF Stands, Kin
<1>3. Reach \in Nat
  BY ZipAssumption
<1>. HIDE DEF e, n
<1>4. e \in 1..Len(f) /\ \A i \in 1..n : o + i \in 1..Len(f)
  BY <1>1, <1>2
<1>5. ASSUME NEW i \in 1..Len(f), f[i] \notin Data
      PROVE  i <= Len(g) /\ f[i] = g[i]
  BY <1>5 DEF Kin
<1>6. f[e] \notin Data /\ \A i \in 1..n : f[o + i] \notin Data
  BY <1>2, KindsDiffer
<1>7. e <= Len(g) /\ g[e] \in End /\ \A i \in 1..n : g[o + i] \in Entry
  BY <1>2, <1>4, <1>5, <1>6
<1>8. Len(g) - e < Reach
  BY <1>1, <1>2, <1>3
<1>. QED
  BY <1>7, <1>8 DEF Stands, e, n

LEMMA EditedFades ==
    ASSUME NEW f \in Seq(Cell), NEW h \in Seq(Cell), NEW g \in Seq(Cell), NEW o \in Nat, NEW d \in Seq(Entry),
           Editable(g, o, d), Kin(f, g, o), Kin(h, f, o)
    PROVE  Kin(h, g, o) /\ FoundIn(h) \in {FoundIn(f), Unreadable}
<1>1. Kin(h, g, o)
  BY KinKin
<1>2. ASSUME Opens(h) PROVE Opens(f)
  <2>1. CASE g = <<>> /\ o = 0 /\ d = <<>>
    <3>1. Len(g) = 0
      BY <2>1
    <3>2. \A i \in 1..Len(h) : h[i] \in Data
      BY <1>1, <3>1 DEF Kin
    <3>3. \A i \in 1..Len(h) : h[i] \notin End
      BY <3>2, KindsDiffer
    <3>. QED
      BY <1>2, <3>3, NothingFound
  <2>2. CASE IsSaved(g, o, d)
    <3>1. Remains(h, g, o, d) /\ Remains(f, g, o, d)
      BY <1>1, <2>2, KinRemains
    <3>2. Stands(h, o, d)
      BY <1>2, <2>2, <3>1, RemainsOpens
    <3>3. Stands(f, o, d)
      BY <3>2, KinStands
    <3>. QED
      BY <2>2, <3>1, <3>3, RemainsOpens
  <2>. QED
    BY <2>1, <2>2 DEF Editable
<1>. QED
  BY <1>1, <1>2, EditedFound

\* File v, with directory w in memory and the next record at o2, is what an editor made of
\* what it found: g, with directory d at o.
Edited(v, w, o2, g, o, d) ==
    /\ Editable(g, o, d) /\ Kin(v, g, o)
    /\ \/ w = d /\ o2 = o
       \/ Len(w) > Len(d) /\ o2 > o
    /\ w = <<>> => o2 = 0
    /\ o2 <= Len(v) /\ Len(v) - (o2 + Len(w) + 3) < Reach
    /\ \A i \in (o + 1)..o2 : v[i] \in Data
    /\ \A i \in DOMAIN w : Recorded(v, w[i], o2)

\* File v with the first n cells of its directory written to it.
Partly(v, w, o2, n) == Overlay(v, o2, SubSeq(DirectoryCells(w, o2), 1, n))

LEMMA PartlyCells ==
    ASSUME NEW v \in Seq(Cell), NEW w \in Seq(Entry), NEW o2 \in Nat, o2 <= Len(v),
           NEW n \in 0..(Len(w) + 3)
    PROVE  LET f == Partly(v, w, o2, n)
           IN  /\ f \in Seq(Cell)
               /\ Len(f) = IF o2 + n <= Len(v) THEN Len(v) ELSE o2 + n
               /\ \A i \in 1..Len(f) :
                    f[i] = IF o2 < i /\ i <= o2 + n THEN DirectoryCells(w, o2)[i - o2] ELSE v[i]
<1>. DEFINE cells == DirectoryCells(w, o2)
            s == SubSeq(cells, 1, n)
            f == Overlay(v, o2, s)
<1>1. cells \in Seq(Cell) /\ n \in 0..Len(cells)
  BY DirectoryIsCells
<1>2. o2 \in 0..Len(v) /\ Len(v) \in Nat /\ n \in Nat
  OBVIOUS
<1>. HIDE DEF cells
<1>3. s \in Seq(Cell) /\ Len(s) = n /\ \A i \in 1..n : s[i] = cells[i]
  BY <1>1, Prefix
<1>. HIDE DEF s
<1>4. /\ f \in Seq(Cell)
      /\ Len(f) = IF o2 + Len(s) <= Len(v) THEN Len(v) ELSE o2 + Len(s)
      /\ \A i \in 1..Len(f) : f[i] = IF o2 < i /\ i <= o2 + Len(s) THEN s[i - o2] ELSE v[i]
  BY <1>2, <1>3, OverlayCells
<1>. HIDE DEF f
<1>5. Len(f) = IF o2 + n <= Len(v) THEN Len(v) ELSE o2 + n
  BY <1>3, <1>4
<1>6. ASSUME NEW i \in 1..Len(f)
      PROVE  f[i] = IF o2 < i /\ i <= o2 + n THEN cells[i - o2] ELSE v[i]
  <2>1. o2 < i /\ i <= o2 + n => i - o2 \in 1..n
    BY <1>2, <1>4
  <2>. QED
    BY <1>3, <1>4, <2>1
<1>7. Partly(v, w, o2, n) = f
  BY DEF Partly, f, s, cells
<1>. QED
  BY <1>4, <1>5, <1>6, <1>7 DEF cells

\* When all of it is written the file is saved.
LEMMA AllOfIt ==
    ASSUME NEW v \in Seq(Cell), NEW w \in Seq(Entry), NEW o2 \in Nat,
           NEW g \in Seq(Cell), NEW o \in Nat, NEW d \in Seq(Entry), Edited(v, w, o2, g, o, d)
    PROVE  LET f == Partly(v, w, o2, Len(w) + 3)
           IN  f \in Seq(Cell) /\ IsSaved(f, o2, w)
<1>. DEFINE n == Len(w)
            f == Partly(v, w, o2, n + 3)
            cells == DirectoryCells(w, o2)
<1>1. n \in Nat /\ Len(v) \in Nat /\ Len(d) \in Nat /\ o2 <= Len(v) /\ n + 3 \in 0..(n + 3)
  BY DEF Edited
<1>2. /\ f \in Seq(Cell)
      /\ Len(f) = IF o2 + (n + 3) <= Len(v) THEN Len(v) ELSE o2 + (n + 3)
      /\ \A i \in 1..Len(f) : f[i] = IF o2 < i /\ i <= o2 + (n + 3) THEN cells[i - o2] ELSE v[i]
  BY <1>1, PartlyCells
<1>3. w = <<>> => o2 = 0
  BY DEF Edited
<1>. HIDE DEF f, cells, n
<1>4. Len(f) >= o2 + n + 3 /\ Len(f) - (o2 + n + 3) < Reach
  <2>1. Len(v) - (o2 + n + 3) < Reach /\ Reach \in Nat \ {0}
    BY ZipAssumption DEF Edited, n
  <2>. QED
    BY <1>1, <1>2, <2>1
<1>5. \A i \in 1..(n + 3) : f[o2 + i] = cells[i]
  <2>1. ASSUME NEW i \in 1..(n + 3)
        PROVE  o2 + i \in 1..Len(f) /\ o2 < o2 + i /\ o2 + i <= o2 + (n + 3) /\ (o2 + i) - o2 = i
    BY <1>1, <1>4
  <2>. QED
    BY <1>2, <2>1
<1>6. ASSUME NEW i \in 1..Len(f), f[i] \in End
      PROVE  i = o2 + n + 3
  <2>1. CASE o2 < i /\ i <= o2 + (n + 3)
    <3>1. i - o2 \in 1..(n + 3) /\ f[i] = cells[i - o2]
      BY <1>1, <1>2, <1>6, <2>1
    <3>2. \/ i - o2 = n + 3
          \/ cells[i - o2] \in Entry \/ cells[i - o2] \in End64 \/ cells[i - o2] \in Locator
      <4>1. i - o2 <= n \/ i - o2 = n + 1 \/ i - o2 = n + 2 \/ i - o2 = n + 3
        BY <1>1, <3>1
      <4>. QED
        BY <1>3, <3>1, <4>1, DirectoryCellKinds DEF cells, n
    <3>3. i - o2 = n + 3
      BY <1>6, <3>1, <3>2, KindsDiffer
    <3>. QED
      BY <1>1, <3>3
  <2>2. CASE ~(o2 < i /\ i <= o2 + (n + 3))
    <3>1. f[i] = v[i] /\ i \in 1..Len(v)
      <4>1. f[i] = v[i]
        BY <1>2, <2>2
      <4>2. Len(f) \in Nat /\ Len(f) = IF o2 + (n + 3) <= Len(v) THEN Len(v) ELSE o2 + (n + 3)
        BY <1>2
      <4>3. i \in Nat /\ 1 <= i /\ i <= Len(f)
        BY <4>2
      <4>4. i <= Len(v)
        BY <1>1, <2>2, <4>2, <4>3
      <4>. QED
        BY <1>1, <4>1, <4>3, <4>4
    <3>2. v[i] \notin Data
      BY <1>6, <3>1, KindsDiffer
    <3>3. i <= Len(g) /\ g[i] \in End /\ g # <<>>
      <4>1. (i <= Len(g) /\ v[i] = g[i])
        BY <3>1, <3>2 DEF Edited, Kin
      <4>. QED
        BY <1>6, <3>1, <4>1
    <3>4. IsSaved(g, o, d)
      BY <3>3 DEF Edited, Editable
    <3>5. i = o + Len(d) + 3
      BY <3>3, <3>4 DEF IsSaved
    <3>6. o2 < i /\ i <= o2 + (n + 3)
      <4>1. i > o2
        <5>1. i \notin (o + 1)..o2
          BY <3>2 DEF Edited
        <5>. QED
          BY <1>1, <3>5, <5>1
      <4>2. o + Len(d) <= o2 + n
        BY <1>1 DEF Edited, n
      <4>. QED
        BY <1>1, <3>5, <4>1, <4>2
    <3>. QED
      BY <2>2, <3>6
  <2>. QED
    BY <2>1, <2>2
<1>7. ASSUME NEW i \in DOMAIN w
      PROVE  Recorded(f, w[i], o2)
  <2>1. w[i] \in Entry /\ Recorded(v, w[i], o2)
    <3>. HIDE DEF Entry
    <3>. QED
      BY DEF Edited
  <2>2. o2 <= Len(f) /\ \A k \in 1..o2 : f[k] = v[k]
    BY <1>1, <1>2
  <2>. QED
    BY <1>1, <1>2, <2>1, <2>2, RecordedSame
<1>8. IsSaved(f, o2, w)
  BY <1>3, <1>4, <1>5, <1>6, <1>7 DEF IsSaved, cells, n
<1>. QED
  BY <1>2, <1>8 DEF f, n

\* When the directory was not written to its end, what is found is what was found before,
\* or nothing, or what was in memory.
LEMMA PartOfIt ==
    ASSUME NEW v \in Seq(Cell), NEW w \in Seq(Entry), NEW o2 \in Nat, NEW h \in Seq(Cell),
           NEW g \in Seq(Cell), NEW o \in Nat, NEW d \in Seq(Entry), NEW n \in 0..(Len(w) + 2),
           Edited(v, w, o2, g, o, d), Kin(v, h, o), Kin(h, g, o)
    PROVE  LET f == Partly(v, w, o2, n)
           IN  /\ f \in Seq(Cell) /\ Sound(f) /\ o <= Len(f) /\ o <= Len(h)
               /\ \A i \in 1..o : f[i] = h[i]
               /\ Opens(f) => StartOf(f) = o
               /\ FoundIn(f) \in {FoundIn(h), Unreadable, Holding(w)}
<1>. DEFINE f == Partly(v, w, o2, n)
            cells == DirectoryCells(w, o2)
            nd == Len(d)
            nw == Len(w)
<1>1. /\ n \in 0..(nw + 3) /\ n <= nw + 2 /\ n \in Nat /\ nd \in Nat /\ nw \in Nat /\ o2 <= Len(v)
      /\ Len(v) \in Nat /\ Len(g) \in Nat /\ Len(h) \in Nat /\ o <= o2
      /\ Len(g) <= Len(h) /\ Len(h) <= Len(v)
  BY DEF Edited, Kin
<1>2. /\ f \in Seq(Cell)
      /\ Len(f) = IF o2 + n <= Len(v) THEN Len(v) ELSE o2 + n
      /\ \A i \in 1..Len(f) : f[i] = IF o2 < i /\ i <= o2 + n THEN cells[i - o2] ELSE v[i]
  BY <1>1, PartlyCells
<1>3. w = <<>> => o2 = 0
  BY DEF Edited
<1>4. \A k \in 1..(nw + 3) : /\ k <= nw => cells[k] \in Entry
                             /\ k = nw + 1 => cells[k] \in End64
                             /\ k = nw + 2 => cells[k] \in Locator
  BY <1>3, DirectoryCellKinds
<1>5. o <= Len(h)
  BY EditedFound DEF Edited
<1>. HIDE DEF f, cells, nd, nw
<1>6. Len(f) \in Nat /\ Len(v) <= Len(f)
  BY <1>1, <1>2
<1>7. ASSUME NEW i \in 1..Len(f)
      PROVE  \/ /\ o2 < i
                /\ (i <= o2 + nw /\ f[i] \in Entry)
                    \/ (i = o2 + nw + 1 /\ f[i] \in End64)
                    \/ (i = o2 + nw + 2 /\ f[i] \in Locator)
             \/ f[i] = v[i] /\ i \in 1..Len(v)
  <2>1. CASE o2 < i /\ i <= o2 + n
    <3>1. i - o2 \in 1..(nw + 3) /\ f[i] = cells[i - o2]
          /\ (i - o2 <= nw \/ i - o2 = nw + 1 \/ i - o2 = nw + 2)
      <4>1. \A k \in 1..(nw + 2) : k \in 1..(nw + 3) /\ (k <= nw \/ k = nw + 1 \/ k = nw + 2)
        BY <1>1
      <4>2. i \in Nat /\ i - o2 \in 1..(nw + 2)
        BY <1>1, <1>6, <2>1
      <4>. QED
        BY <1>2, <2>1, <4>1, <4>2
    <3>2. CASE i - o2 <= nw
      <4>1. f[i] \in Entry /\ i <= o2 + nw
        BY <1>1, <1>4, <1>6, <3>1, <3>2
      <4>. QED
        BY <2>1, <4>1
    <3>3. CASE i - o2 = nw + 1
      <4>1. f[i] \in End64 /\ i = o2 + nw + 1
        BY <1>1, <1>4, <1>6, <3>1, <3>3
      <4>. QED
        BY <2>1, <4>1
    <3>4. CASE i - o2 = nw + 2
      <4>1. f[i] \in Locator /\ i = o2 + nw + 2
        BY <1>1, <1>4, <1>6, <3>1, <3>4
      <4>. QED
        BY <2>1, <4>1
    <3>. QED
      BY <3>1, <3>2, <3>3, <3>4
  <2>2. CASE ~(o2 < i /\ i <= o2 + n)
    <3>1. f[i] = v[i]
      BY <1>2, <2>2
    <3>2. i \in Nat /\ 1 <= i /\ i <= Len(f)
      BY <1>6
    <3>3. i <= Len(v)
      BY <1>1, <1>2, <2>2, <3>2
    <3>. QED
      BY <1>1, <3>1, <3>2, <3>3
  <2>. QED
    BY <2>1, <2>2
<1>8. ASSUME NEW i \in 1..Len(f), f[i] \in End
      PROVE  /\ i <= Len(h) /\ f[i] = h[i]
             /\ i <= Len(g) /\ f[i] = g[i]
  <2>1. f[i] = v[i] /\ i \in 1..Len(v)
    BY <1>7, <1>8, KindsDiffer
  <2>2. v[i] \notin Data
    BY <1>8, <2>1, KindsDiffer
  <2>3. i <= Len(h) /\ v[i] = h[i]
    BY <2>1, <2>2 DEF Kin
  <2>4. i <= Len(g) /\ v[i] = g[i]
    BY <2>1, <2>2 DEF Kin, Edited
  <2>. QED
    BY <2>1, <2>3, <2>4
<1>9. \A i \in 1..o : i \in 1..Len(f) /\ f[i] = h[i] /\ h[i] = g[i]
  <2>1. ASSUME NEW i \in 1..o
        PROVE  i \in 1..Len(f) /\ i \in 1..Len(v) /\ i \in 1..Len(h) /\ ~(o2 < i) /\ ~(i > o)
    BY <1>1, <1>5, <1>6
  <2>2. ASSUME NEW i \in 1..o
        PROVE  f[i] = v[i] /\ v[i] = h[i] /\ h[i] = g[i]
    BY <1>2, <2>1 DEF Kin
  <2>. QED
    BY <2>1, <2>2
<1>10. o <= Len(f) /\ \A i \in 1..o : f[i] = h[i]
  <2>1. o <= Len(f)
    BY <1>1, <1>6
  <2>. QED
    BY <1>9, <2>1
<1>. DEFINE Fine == /\ Sound(f)
                    /\ Opens(f) => StartOf(f) = o
                    /\ FoundIn(f) \in {FoundIn(h), Unreadable, Holding(w)}
<1>11. CASE g = <<>>
  <2>1. \A i \in 1..Len(f) : f[i] \notin End
    <3>1. Len(g) = 0
      BY <1>11
    <3>. QED
      BY <1>8, <3>1
  <2>2. Fine
    BY <1>2, <2>1, NothingFound
  <2>. QED
    BY <1>2, <1>5, <1>10, <2>2 DEF f
<1>12. CASE IsSaved(g, o, d) /\ w = d /\ o2 = o
  <2>1. ASSUME NEW i \in 1..Len(f)
        PROVE  (i <= Len(g) /\ f[i] = g[i]) \/ (i > o /\ f[i] \in Data)
    <3>1. CASE o2 < i /\ i <= o2 + n
      <4>1. i - o \in 1..(nd + 3) /\ o + (i - o) = i /\ f[i] = cells[i - o]
        BY <1>1, <1>2, <1>6, <1>12, <3>1 DEF nw, nd
      <4>2. g[o + (i - o)] = cells[i - o]
        BY <1>12, <4>1 DEF IsSaved, cells, nd
      <4>3. i <= Len(g)
        <5>1. o + nd + 3 <= Len(g)
          BY <1>12, SavedCells DEF nd
        <5>. QED
          BY <1>1, <1>6, <1>12, <3>1, <5>1 DEF nw, nd
      <4>. QED
        BY <4>1, <4>2, <4>3
    <3>2. CASE ~(o2 < i /\ i <= o2 + n)
      <4>1. f[i] = v[i]
        BY <1>2, <3>2
      <4>2. i \in Nat /\ 1 <= i /\ i <= Len(f)
        BY <1>6
      <4>3. i \in 1..Len(v)
        BY <1>1, <1>2, <3>2, <4>2
      <4>4. (i <= Len(g) /\ v[i] = g[i]) \/ (i > o /\ v[i] \in Data)
        BY <4>3 DEF Edited, Kin
      <4>. QED
        BY <4>1, <4>4
    <3>. QED
      BY <3>1, <3>2
  <2>2. Kin(f, g, o)
    BY <1>1, <1>6, <2>1 DEF Kin
  <2>3. Sound(f) /\ (Opens(f) => StartOf(f) = o) /\ FoundIn(f) \in {Holding(d), Unreadable}
    BY <1>2, <2>2, EditedFound DEF Edited
  <2>4. Fine
    BY <1>12, <2>3
  <2>. QED
    BY <1>2, <1>5, <1>10, <2>4 DEF f
<1>13. CASE IsSaved(g, o, d) /\ nw > nd /\ o2 > o
  <2>. DEFINE e == EndAt(o, d)
  <2>1. /\ e = o + nd + 3 /\ e <= Len(g) /\ e \in Nat /\ e - 1 \in 1..Len(f) /\ e - 2 \in 1..Len(f)
        /\ e - 1 <= o2 + nw /\ e - 2 <= o2 + nw
    <3>1. o + nd + 3 <= Len(g)
      BY <1>13, SavedCells DEF nd
    <3>2. e = o + nd + 3
      BY DEF EndAt, nd
    <3>. HIDE DEF e
    <3>. QED
      BY <1>1, <1>6, <1>13, <3>1, <3>2
  <2>. HIDE DEF e
  <2>2. ASSUME NEW i \in 1..Len(f), i <= o2 + nw, f[i] \in Locator \/ f[i] \in End64
        PROVE  f[i] = g[i]
    <3>1. ~(i = o2 + nw + 1) /\ ~(i = o2 + nw + 2)
      BY <1>1, <1>6, <2>2
    <3>2. f[i] \notin Entry /\ f[i] \notin Data
      BY <2>2, KindsDiffer
    <3>3. f[i] = v[i] /\ i \in 1..Len(v)
      BY <1>7, <3>1, <3>2
    <3>. QED
      BY <3>2, <3>3 DEF Edited, Kin
  <2>3. (\A i \in 1..nd : f[o + i] \in Entry) => nd = 0
    <3>1. ASSUME nd # 0
          PROVE  1 \in 1..nd /\ o + 1 \in (o + 1)..o2 /\ o + 1 \in 1..Len(f) /\ ~(o2 < o + 1)
      BY <1>1, <1>6, <1>13, <3>1
    <3>2. ASSUME nd # 0
          PROVE  f[o + 1] \in Data
      BY <1>2, <3>1, <3>2 DEF Edited
    <3>. QED
      BY <3>1, <3>2, KindsDiffer
  <2>4. Remains(f, g, o, d)
    <3>1. (\A i \in 1..Len(d) : f[o + i] \in Entry) => \A i \in 1..Len(d) : f[o + i] = g[o + i]
      BY <2>3 DEF nd
    <3>2. Len(g) <= Len(f)
      BY <1>1, <1>6
    <3>3. (f[e - 1] \in Locator => f[e - 1] = g[e - 1]) /\ (f[e - 2] \in End64 => f[e - 2] = g[e - 2])
      BY <2>1, <2>2
    <3>. QED
      BY <1>8, <1>9, <3>1, <3>2, <3>3 DEF Remains, e
  <2>5. Kin(h, g, o) /\ Remains(h, g, o, d)
    BY <1>13, KinRemains
  <2>6. ASSUME Opens(f)
        PROVE  Opens(h)
    <3>1. Stands(f, o, d)
      BY <1>2, <1>13, <2>4, <2>6, RemainsOpens
    <3>2. nd = 0 /\ e <= Len(f) /\ Len(f) - e < Reach /\ f[e] \in End
      BY <2>3, <3>1 DEF Stands, nd, e
    <3>3. e \in 1..Len(f)
      BY <1>6, <2>1, <3>2
    <3>4. e <= Len(h) /\ h[e] \in End
      BY <1>8, <3>2, <3>3
    <3>5. Len(h) - e < Reach
      <4>1. Reach \in Nat
        BY ZipAssumption
      <4>. QED
        BY <1>1, <1>6, <2>1, <3>2, <4>1
    <3>6. Stands(h, o, d)
      BY <3>2, <3>4, <3>5 DEF Stands, e, nd
    <3>. QED
      BY <1>13, <2>5, <3>6, RemainsOpens
  <2>7. Sound(f) /\ (Opens(f) => StartOf(f) = o)
        /\ (~Opens(f) => FoundIn(f) = Unreadable) /\ (Opens(f) => FoundIn(f) = Holding(d))
    BY <1>2, <1>13, <2>4, RemainsFound, RemainsOpens
  <2>8. Opens(h) => FoundIn(h) = Holding(d)
    BY <1>13, <2>5, RemainsFound
  <2>9. Fine
    BY <2>6, <2>7, <2>8
  <2>. QED
    BY <1>2, <1>5, <1>10, <2>9 DEF f
<1>. QED
  BY <1>11, <1>12, <1>13 DEF Edited, Editable, nd, nw

-----------------------------------------------------------------------------
(* What reaches the file through the stream *)

\* Cells written next to each other, in two times or in one.
LEMMA OverlayTwice ==
    ASSUME NEW f \in Seq(Cell), NEW at \in 0..Len(f), NEW s \in Seq(Cell), NEW t \in Seq(Cell)
    PROVE  Overlay(Overlay(f, at, s), at + Len(s), t) = Overlay(f, at, s \o t)
<1>. DEFINE h == Overlay(f, at, s)
            x == Overlay(h, at + Len(s), t)
            y == Overlay(f, at, s \o t)
            n == Len(f)
            ns == Len(s)
            nt == Len(t)
<1>1. n \in Nat /\ ns \in Nat /\ nt \in Nat /\ at \in Nat /\ at <= n
  OBVIOUS
<1>2. /\ h \in Seq(Cell)
      /\ Len(h) = IF at + ns <= n THEN n ELSE at + ns
      /\ \A i \in 1..Len(h) : h[i] = IF at < i /\ i <= at + ns THEN s[i - at] ELSE f[i]
  BY OverlayCells
<1>. HIDE DEF h
<1>3. at + ns \in 0..Len(h)
  <2>. HIDE DEF n, ns, nt
  <2>. QED
    BY <1>1, <1>2
<1>4. /\ x \in Seq(Cell)
      /\ Len(x) = IF at + ns + nt <= Len(h) THEN Len(h) ELSE at + ns + nt
      /\ \A i \in 1..Len(x) : x[i] = IF at + ns < i /\ i <= at + ns + nt THEN t[i - (at + ns)] ELSE h[i]
  BY <1>2, <1>3, OverlayCells
<1>5. /\ s \o t \in Seq(Cell) /\ Len(s \o t) = ns + nt
      /\ \A i \in 1..(ns + nt) : (s \o t)[i] = IF i <= ns THEN s[i] ELSE t[i - ns]
  BY Concat
<1>. DEFINE st == s \o t
<1>. HIDE DEF st
<1>6. /\ y \in Seq(Cell)
      /\ Len(y) = IF at + (ns + nt) <= n THEN n ELSE at + (ns + nt)
      /\ \A i \in 1..Len(y) : y[i] = IF at < i /\ i <= at + (ns + nt) THEN st[i - at] ELSE f[i]
  <2>1. st \in Seq(Cell) /\ Len(st) = ns + nt /\ y = Overlay(f, at, st)
    BY <1>5 DEF st
  <2>. HIDE DEF y
  <2>. QED
    BY <2>1, OverlayCells
<1>. HIDE DEF x, y, n, ns, nt
<1>7. Len(x) = Len(y) /\ Len(x) \in Nat
  BY <1>1, <1>2, <1>4, <1>6
<1>8. ASSUME NEW i \in 1..Len(x)
      PROVE  x[i] = y[i]
  <2>1. i \in Nat /\ i \in 1..Len(y)
    BY <1>7
  <2>2. CASE at + ns < i /\ i <= at + ns + nt
    <3>1. x[i] = t[i - (at + ns)]
      BY <1>4, <2>2
    <3>2. at < i /\ i <= at + (ns + nt) /\ i - at \in 1..(ns + nt) /\ ~(i - at <= ns)
          /\ (i - at) - ns = i - (at + ns)
      BY <1>1, <2>1, <2>2
    <3>3. y[i] = st[i - at]
      BY <1>6, <2>1, <3>2
    <3>4. st[i - at] = t[(i - at) - ns]
      BY <1>5, <3>2 DEF st
    <3>. QED
      BY <3>1, <3>2, <3>3, <3>4
  <2>3. CASE at < i /\ i <= at + ns
    <3>1. ~(at + ns < i) /\ i \in 1..Len(h) /\ i <= at + (ns + nt) /\ i - at \in 1..(ns + nt) /\ i - at <= ns
      BY <1>1, <1>2, <2>1, <2>3
    <3>2. x[i] = s[i - at]
      BY <1>2, <1>4, <2>3, <3>1
    <3>3. y[i] = st[i - at] /\ st[i - at] = s[i - at]
      BY <1>5, <1>6, <2>1, <2>3, <3>1 DEF st
    <3>. QED
      BY <3>2, <3>3
  <2>4. CASE ~(at < i /\ i <= at + ns + nt)
    <3>1. ~(at + ns < i /\ i <= at + ns + nt) /\ ~(at < i /\ i <= at + ns) /\ ~(at < i /\ i <= at + (ns + nt))
      BY <1>1, <2>1, <2>4
    <3>2. i \in 1..Len(h)
      <4>1. i <= Len(h)
        <5>1. i <= at \/ at + ns + nt < i
          BY <1>1, <2>1, <2>4
        <5>2. Len(h) \in Nat /\ at <= Len(h) /\ i <= Len(x)
          BY <1>1, <1>2, <1>7
        <5>. QED
          BY <1>1, <1>4, <2>1, <5>1, <5>2
      <4>. QED
        BY <1>2, <2>1, <4>1
    <3>3. x[i] = h[i]
      BY <1>4, <3>1
    <3>4. h[i] = f[i]
      BY <1>2, <3>1, <3>2
    <3>5. y[i] = f[i]
      BY <1>6, <2>1, <3>1
    <3>. QED
      BY <3>3, <3>4, <3>5
  <2>. QED
    BY <1>1, <2>1, <2>2, <2>3, <2>4
<1>9. x = y
  BY <1>4, <1>6, <1>7, <1>8, SameSequences
<1>. QED
  BY <1>9 DEF x, y, h, ns

LEMMA NothingFlushed ==
    ASSUME NEW f, NEW at
    PROVE  Overlay(f, at, <<>>) = f
BY DEF Overlay

\* The stream of q holds records, for cells after o.
Streaming(q, o) ==
    /\ \A i \in 1..Len(stream[q].cells) : stream[q].cells[i] \in Data
    /\ stream[q].cells # <<>> => stream[q].at \in o..Len(disk)

LEMMA FlushedKin ==
    ASSUME TypeOK, NEW q \in Proc, NEW o \in Nat, Streaming(q, o), o <= Len(disk)
    PROVE  Flushed(q) \in Seq(Cell) /\ Kin(Flushed(q), disk, o)
<1>1. disk \in Seq(Cell) /\ Flushed(q) \in Seq(Cell)
  BY FlushedIsFile DEF TypeOK
<1>2. CASE stream[q].cells = <<>>
  <2>1. Flushed(q) = disk
    BY <1>2, NothingFlushed DEF Flushed
  <2>. QED
    BY <1>1, <2>1, KinItself
<1>3. CASE stream[q].cells # <<>>
  BY <1>1, <1>3, StreamOf, KinOverlay DEF Streaming, Flushed
<1>. QED
  BY <1>2, <1>3

LEMMA DataJoined ==
    ASSUME NEW s \in Seq(Cell), NEW t \in Seq(Cell),
           \A i \in 1..Len(s) : s[i] \in Data, \A i \in 1..Len(t) : t[i] \in Data
    PROVE  \A i \in 1..Len(s \o t) : (s \o t)[i] \in Data
<1>. DEFINE st == s \o t
<1>1. /\ Len(st) = Len(s) + Len(t)
      /\ \A i \in 1..(Len(s) + Len(t)) : st[i] = IF i <= Len(s) THEN s[i] ELSE t[i - Len(s)]
  BY Concat
<1>. HIDE DEF st
<1>2. Len(s) \in Nat /\ Len(t) \in Nat
  OBVIOUS
<1>3. ASSUME NEW i \in 1..Len(st)
      PROVE  st[i] \in Data
  <2>1. CASE i <= Len(s)
    BY <1>1, <1>2, <2>1
  <2>2. CASE ~(i <= Len(s))
    <3>1. i - Len(s) \in 1..Len(t)
      BY <1>1, <1>2, <2>2
    <3>. QED
      BY <1>1, <2>2, <3>1
  <2>. QED
    BY <2>1, <2>2
<1>. QED
  BY <1>3 DEF st

LEMMA TwoParts ==
    ASSUME NEW s \in Seq(Cell), NEW k \in 0..Len(s)
    PROVE  LET a == SubSeq(s, 1, k)
               b == SubSeq(s, k + 1, Len(s))
           IN  /\ a \in Seq(Cell) /\ b \in Seq(Cell) /\ Len(a) = k /\ a \o b = s
               /\ \A i \in 1..Len(a) : i \in 1..Len(s) /\ a[i] = s[i]
               /\ \A i \in 1..Len(b) : i + k \in 1..Len(s) /\ b[i] = s[i + k]
<1>. DEFINE a == SubSeq(s, 1, k)
            b == SubSeq(s, k + 1, Len(s))
            n == Len(s)
<1>1. n \in Nat /\ k \in Nat /\ k <= n
  OBVIOUS
<1>2. a \in Seq(Cell) /\ Len(a) = k /\ \A i \in 1..k : a[i] = s[i]
  BY Prefix
<1>3. b \in Seq(Cell) /\ Len(b) = n - k /\ \A i \in 1..(n - k) : b[i] = s[i + k]
  <2>1. b = SubSeq(s, k + 1, k + (n - k))
    BY <1>1
  <2>2. n - k \in Nat /\ k + (n - k) <= Len(s)
    BY <1>1
  <2>. HIDE DEF n, b
  <2>3. b \in Seq(Cell) /\ Len(b) = n - k /\ \A i \in 1..(n - k) : b[i] = s[k + i]
    BY <1>1, <2>1, <2>2, SliceIs
  <2>4. \A i \in 1..(n - k) : k + i = i + k
    BY <1>1
  <2>. QED
    BY <2>3, <2>4
<1>. HIDE DEF a, b
<1>4. /\ a \o b \in Seq(Cell) /\ Len(a \o b) = Len(a) + Len(b)
      /\ \A i \in 1..(Len(a) + Len(b)) : (a \o b)[i] = IF i <= Len(a) THEN a[i] ELSE b[i - Len(a)]
  BY <1>2, <1>3, Concat
<1>. DEFINE ab == a \o b
<1>5. ab \in Seq(Cell) /\ Len(ab) = n /\ \A i \in 1..n : ab[i] = IF i <= k THEN a[i] ELSE b[i - k]
  <2>1. k + (n - k) = n
    BY <1>1
  <2>. HIDE DEF n
  <2>. QED
    BY <1>2, <1>3, <1>4, <2>1
<1>. HIDE DEF ab
<1>6. \A i \in 1..n : ab[i] = s[i]
  <2>. HIDE DEF n
  <2>1. ASSUME NEW i \in 1..n
        PROVE  ab[i] = s[i]
    <3>1. CASE i <= k
      BY <1>1, <1>2, <1>5, <3>1
    <3>2. CASE ~(i <= k)
      <4>1. i - k \in 1..(n - k) /\ (i - k) + k = i
        BY <1>1, <3>2
      <4>2. ab[i] = b[i - k] /\ b[i - k] = s[(i - k) + k]
        BY <1>3, <1>5, <3>2, <4>1
      <4>. QED
        BY <4>1, <4>2
    <3>. QED
      BY <3>1, <3>2
  <2>. QED
    BY <2>1
<1>7. ab = s
  BY <1>5, <1>6, SameSequences
<1>8. \A i \in 1..Len(b) : i + k \in 1..n /\ b[i] = s[i + k]
  <2>1. \A i \in 1..(n - k) : i + k \in 1..n
    BY <1>1
  <2>. HIDE DEF n
  <2>. QED
    BY <1>3, <2>1
<1>9. \A i \in 1..Len(a) : i \in 1..n /\ a[i] = s[i]
  BY <1>1, <1>2
<1>. QED
  BY <1>2, <1>3, <1>7, <1>8, <1>9 DEF a, b, ab

\* However much of a write reaches the file, the file and the stream together have it.
LEMMA StreamWrites ==
    ASSUME TypeOK, NEW q \in Proc, NEW o \in Nat, Streaming(q, o), o <= Len(disk),
           NEW o2 \in o..Len(Flushed(q)), NEW s \in Seq(Cell), \A i \in 1..Len(s) : s[i] \in Data,
           NEW k, Stream(q, o2, s, k)
    PROVE  /\ disk' \in Seq(Cell) /\ Kin(disk', disk, o)
           /\ Streaming(q, o)'
           /\ Flushed(q)' = Overlay(Flushed(q), o2, s)
           /\ \A r \in Proc : r # q => stream'[r] = stream[r]
<1>. DEFINE a0 == stream[q].at
            c0 == stream[q].cells
            v == Flushed(q)
            joined == a0 + Len(c0) = o2
            file   == IF joined THEN disk ELSE v
            at     == IF joined THEN a0 ELSE o2
            cells  == IF joined THEN c0 \o s ELSE s
            rest   == IF k = Len(cells) THEN NoStream
                      ELSE [at |-> at + k, cells |-> SubSeq(cells, k + 1, Len(cells))]
<1>1. /\ k \in 0..Len(cells)
      /\ disk' = Overlay(file, at, SubSeq(cells, 1, k))
      /\ stream' = [stream EXCEPT ![q] = rest]
  BY DEF Stream
<1>2. /\ a0 \in Nat /\ c0 \in Seq(Cell) /\ disk \in Seq(Cell) /\ v = Overlay(disk, a0, c0)
      /\ v \in Seq(Cell) /\ Kin(v, disk, o)
  BY StreamOf, FlushedKin DEF TypeOK, Flushed
<1>3. /\ \A i \in 1..Len(c0) : c0[i] \in Data
      /\ c0 # <<>> => a0 \in o..Len(disk)
  BY DEF Streaming
<1>. HIDE DEF a0, c0, v
<1>4. Len(v) \in Nat /\ Len(disk) \in Nat /\ Len(disk) <= Len(v) /\ Len(c0) \in Nat /\ o2 \in Nat /\ o <= o2 /\ o2 <= Len(v)
  BY <1>2 DEF Kin, v
<1>5. /\ file \in Seq(Cell) /\ Kin(file, disk, o) /\ at \in o..Len(file)
      /\ cells \in Seq(Cell) /\ \A i \in 1..Len(cells) : cells[i] \in Data
      /\ Overlay(file, at, cells) = Overlay(v, o2, s)
  <2>1. CASE joined
    <3>1. file = disk /\ at = a0 /\ cells = c0 \o s
      BY <2>1
    <3>2. a0 \in o..Len(disk)
      <4>1. CASE c0 = <<>>
        <5>1. v = disk
          BY <1>2, <4>1, NothingFlushed
        <5>2. Len(c0) = 0
          BY <4>1
        <5>3. a0 = o2
          BY <1>2, <2>1, <5>2
        <5>. QED
          BY <1>4, <5>1, <5>3
      <4>. QED
        BY <1>3, <4>1
    <3>3. c0 \o s \in Seq(Cell) /\ \A i \in 1..Len(c0 \o s) : (c0 \o s)[i] \in Data
      <4>1. c0 \o s \in Seq(Cell)
        BY <1>2, Joined
      <4>. QED
        BY <1>2, <1>3, <4>1, DataJoined
    <3>4. Overlay(disk, a0, c0 \o s) = Overlay(v, o2, s)
      <4>1. a0 \in 0..Len(disk)
        BY <1>4, <3>2
      <4>2. Overlay(Overlay(disk, a0, c0), a0 + Len(c0), s) = Overlay(disk, a0, c0 \o s)
        BY <1>2, <4>1, OverlayTwice
      <4>. QED
        BY <1>2, <2>1, <4>2
    <3>. HIDE DEF file, at, cells, joined
    <3>. QED
      BY <1>2, <3>1, <3>2, <3>3, <3>4, KinItself
  <2>2. CASE ~joined
    <3>1. file = v /\ at = o2 /\ cells = s
      BY <2>2
    <3>2. o2 \in o..Len(v)
      BY <1>4
    <3>. HIDE DEF file, at, cells, joined
    <3>. QED
      BY <1>2, <3>1, <3>2
  <2>. QED
    BY <2>1, <2>2
<1>. HIDE DEF joined, file, at, cells
<1>. DEFINE one == SubSeq(cells, 1, k)
            two == SubSeq(cells, k + 1, Len(cells))
<1>6. /\ one \in Seq(Cell) /\ two \in Seq(Cell) /\ Len(one) = k /\ one \o two = cells
      /\ \A i \in 1..Len(one) : i \in 1..Len(cells) /\ one[i] = cells[i]
      /\ \A i \in 1..Len(two) : i + k \in 1..Len(cells) /\ two[i] = cells[i + k]
  BY <1>1, <1>5, TwoParts
<1>7. disk' = Overlay(file, at, one) /\ k \in Nat
  BY <1>1, <1>5
<1>8. (\A i \in 1..Len(one) : one[i] \in Data) /\ (\A i \in 1..Len(two) : two[i] \in Data)
  BY <1>5, <1>6
<1>9. stream'[q] = rest /\ \A r \in Proc : r # q => stream'[r] = stream[r]
  BY <1>1 DEF TypeOK
<1>10. k # Len(cells) => rest = [at |-> at + k, cells |-> two]
  OBVIOUS
<1>. HIDE DEF one, two
<1>11. disk' \in Seq(Cell) /\ Kin(disk', file, o)
  <2>1. at \in Nat
    BY <1>5
  <2>. QED
    BY <1>5, <1>6, <1>7, <1>8, <2>1, OverlayIsFile, KinOverlay
<1>12. Kin(disk', disk, o)
  BY <1>2, <1>5, <1>11, KinKin
<1>13. at + k <= Len(disk') /\ at \in Nat /\ o <= at
  <2>1. at \in 0..Len(file) /\ at \in Nat /\ o <= at /\ Len(file) \in Nat /\ at <= Len(file)
    BY <1>5
  <2>2. Len(disk') = IF at + Len(one) <= Len(file) THEN Len(file) ELSE at + Len(one)
    BY <1>5, <1>6, <1>7, <2>1, OverlayCells
  <2>. QED
    BY <1>6, <1>7, <2>1, <2>2
<1>14. CASE k = Len(cells)
  <2>1. stream'[q].at = 0 /\ stream'[q].cells = <<>>
    BY <1>9, <1>14 DEF NoStream
  <2>2. Streaming(q, o)'
    BY <2>1 DEF Streaming
  <2>3. one = cells
    <3>1. \A i \in 1..Len(cells) : one[i] = cells[i]
      BY <1>6, <1>14
    <3>. QED
      BY <1>5, <1>6, <1>14, <3>1, SameSequences
  <2>4. Flushed(q)' = disk'
    BY <2>1, NothingFlushed DEF Flushed
  <2>. QED
    BY <1>5, <1>7, <1>9, <1>11, <1>12, <2>2, <2>3, <2>4 DEF v
<1>15. CASE k # Len(cells)
  <2>1. stream'[q].at = at + k /\ stream'[q].cells = two
    BY <1>9, <1>10, <1>15
  <2>2. at + k \in o..Len(disk')
    BY <1>7, <1>11, <1>13
  <2>3. Streaming(q, o)'
    BY <1>8, <2>1, <2>2 DEF Streaming
  <2>4. Flushed(q)' = Overlay(disk', at + k, two)
    BY <2>1 DEF Flushed
  <2>5. Overlay(disk', at + k, two) = Overlay(file, at, cells)
    <3>1. at \in 0..Len(file)
      BY <1>5
    <3>2. file \in Seq(Cell) /\ one \in Seq(Cell) /\ two \in Seq(Cell)
      BY <1>5, <1>6
    <3>3. Overlay(Overlay(file, at, one), at + Len(one), two) = Overlay(file, at, one \o two)
      BY <3>1, <3>2, OverlayTwice
    <3>4. Len(one) = k /\ one \o two = cells /\ Overlay(file, at, one) = disk'
      BY <1>6, <1>7
    <3>. QED
      BY <3>3, <3>4, Zenon
  <2>. QED
    BY <1>5, <1>9, <1>11, <1>12, <2>3, <2>4, <2>5 DEF v
<1>. QED
  BY <1>14, <1>15

-----------------------------------------------------------------------------
(* What writing a record changes *)

LEMMA RecordCellsAre ==
    ASSUME NEW p \in Path, NEW c \in Content
    PROVE  LET cells == RecordCells(p, c)
           IN  /\ cells \in Seq(Cell) /\ Len(cells) \in (Len(c) + 1)..(Len(c) + 2)
               /\ cells[1] \in Local
               /\ \A i \in 1..Len(c) : cells[i + 1] = c[i]
               /\ \A i \in 1..Len(cells) : cells[i] \in Data
<1>. DEFINE header == [local |-> p]
            footer == IF c = <<>> THEN <<>> ELSE <<Footer>>
            front == <<header>> \o c
            cells == front \o footer
<1>1. header \in Local /\ header \in Cell /\ header \in Data
  <2>1. header \in Local
    BY DEF Local
  <2>. QED
    BY <2>1, CellTypes DEF Data
<1>2. c \in Seq(Cell) /\ Len(c) \in Nat /\ \A i \in 1..Len(c) : c[i] \in Data
  <2>1. c \in Seq(Byte)
    BY ZipAssumption
  <2>2. \A i \in 1..Len(c) : c[i] \in Byte
    BY <2>1
  <2>. QED
    BY <2>2, ContentIsCells DEF Data
<1>3. /\ footer \in Seq(Cell) /\ Len(footer) \in 0..1 /\ \A i \in 1..Len(footer) : footer[i] \in Data
  <2>1. CASE c = <<>>
    <3>1. footer = <<>>
      BY <2>1
    <3>. HIDE DEF footer
    <3>. QED
      BY <3>1
  <2>2. CASE c # <<>>
    <3>1. footer = <<Footer>> /\ Footer \in Cell /\ Footer \in Data
      BY <2>2, CellTypes DEF Data
    <3>. HIDE DEF footer
    <3>2. footer \in Seq(Cell) /\ Len(footer) = 1 /\ footer[1] = Footer
      BY <3>1
    <3>3. \A i \in 1..1 : i = 1
      OBVIOUS
    <3>. QED
      BY <3>1, <3>2, <3>3
  <2>. QED
    BY <2>1, <2>2
<1>. HIDE DEF header, footer
<1>4. <<header>> \in Seq(Cell) /\ Len(<<header>>) = 1 /\ <<header>>[1] = header
  BY <1>1
<1>5. /\ front \in Seq(Cell) /\ Len(front) = Len(<<header>>) + Len(c)
      /\ \A i \in 1..(Len(<<header>>) + Len(c)) :
           front[i] = IF i <= Len(<<header>>) THEN <<header>>[i] ELSE c[i - Len(<<header>>)]
  BY <1>2, <1>4, Concat
<1>. DEFINE one == <<header>>
<1>. HIDE DEF one
<1>6. front \in Seq(Cell) /\ Len(front) = Len(c) + 1 /\ front[1] = header
      /\ \A i \in 1..Len(c) : front[i + 1] = c[i]
  <2>1. /\ one \in Seq(Cell) /\ Len(one) = 1 /\ one[1] = header
        /\ front \in Seq(Cell) /\ Len(front) = Len(one) + Len(c)
        /\ \A i \in 1..(Len(one) + Len(c)) : front[i] = IF i <= Len(one) THEN one[i] ELSE c[i - Len(one)]
    BY <1>4, <1>5 DEF one
  <2>. HIDE DEF front
  <2>2. Len(front) = Len(c) + 1 /\ 1 \in 1..(1 + Len(c)) /\ 1 <= 1
    BY <1>2, <2>1
  <2>3. front[1] = header
    BY <2>1, <2>2
  <2>4. ASSUME NEW i \in 1..Len(c)
        PROVE  i + 1 \in 1..(1 + Len(c)) /\ ~(i + 1 <= 1) /\ (i + 1) - 1 = i
    BY <1>2
  <2>. QED
    BY <2>1, <2>2, <2>3, <2>4
<1>7. \A i \in 1..Len(front) : front[i] \in Data
  <2>. HIDE DEF front
  <2>1. ASSUME NEW i \in 1..Len(front)
        PROVE  front[i] \in Data
    <3>1. i = 1 \/ (i - 1 \in 1..Len(c) /\ (i - 1) + 1 = i)
      BY <1>2, <1>6
    <3>2. CASE i = 1
      BY <1>1, <1>6, <3>2
    <3>3. CASE i - 1 \in 1..Len(c) /\ (i - 1) + 1 = i
      <4>1. front[(i - 1) + 1] = c[i - 1]
        BY <1>6, <3>3
      <4>. QED
        BY <1>2, <3>3, <4>1
    <3>. QED
      BY <3>1, <3>2, <3>3
  <2>. QED
    BY <2>1
<1>. HIDE DEF front
<1>8. /\ cells \in Seq(Cell) /\ Len(cells) = Len(front) + Len(footer)
      /\ \A i \in 1..(Len(front) + Len(footer)) :
           cells[i] = IF i <= Len(front) THEN front[i] ELSE footer[i - Len(front)]
  BY <1>3, <1>6, Concat
<1>9. \A i \in 1..Len(cells) : cells[i] \in Data
  BY <1>3, <1>6, <1>7, DataJoined
<1>10. RecordCells(p, c) = cells
  BY DEF RecordCells, front, header, footer
<1>. HIDE DEF cells
<1>11. Len(cells) \in (Len(c) + 1)..(Len(c) + 2)
  BY <1>2, <1>3, <1>6, <1>8
<1>12. \A i \in 1..(Len(c) + 1) : cells[i] = front[i]
  <2>1. \A i \in 1..(Len(c) + 1) : i \in 1..(Len(front) + Len(footer)) /\ i <= Len(front)
    BY <1>2, <1>3, <1>6
  <2>. QED
    BY <1>8, <2>1
<1>13. cells[1] \in Local /\ \A i \in 1..Len(c) : cells[i + 1] = c[i]
  <2>1. 1 \in 1..(Len(c) + 1) /\ \A i \in 1..Len(c) : i + 1 \in 1..(Len(c) + 1)
    BY <1>2
  <2>. QED
    BY <1>1, <1>6, <1>12, <2>1
<1>. QED
  BY <1>8, <1>9, <1>10, <1>11, <1>13

\* What comes behind the next record's position, up to Reach.
LEMMA EditedBehind ==
    ASSUME NEW v \in Seq(Cell), NEW w \in Seq(Entry), NEW o2 \in Nat,
           NEW g \in Seq(Cell), NEW o \in Nat, NEW d \in Seq(Entry), Edited(v, w, o2, g, o, d),
           NEW s \in Seq(Cell), \A i \in 1..Len(s) : s[i] \in Data,
           Len(s) - (Len(w) + 3) < Reach
    PROVE  Edited(Overlay(v, o2, s), w, o2, g, o, d)
<1>. DEFINE f == Overlay(v, o2, s)
<1>1. o2 \in 0..Len(v) /\ o2 \in o..Len(v) /\ Len(v) \in Nat /\ Len(s) \in Nat /\ Len(w) \in Nat /\ o2 <= Len(v)
      /\ Len(v) - (o2 + Len(w) + 3) < Reach /\ Reach \in Nat
  BY ZipAssumption DEF Edited
<1>2. /\ f \in Seq(Cell)
      /\ Len(f) = IF o2 + Len(s) <= Len(v) THEN Len(v) ELSE o2 + Len(s)
      /\ \A i \in 1..Len(f) : f[i] = IF o2 < i /\ i <= o2 + Len(s) THEN s[i - o2] ELSE v[i]
  BY <1>1, OverlayCells
<1>3. Kin(f, v, o)
  BY <1>1, KinOverlay
<1>. HIDE DEF f
<1>4. Kin(f, g, o)
  BY <1>2, <1>3, KinKin DEF Edited
<1>5. o2 <= Len(f) /\ Len(f) - (o2 + Len(w) + 3) < Reach
  <2>. DEFINE n == Len(v)
              m == Len(s)
              k == Len(w)
              l == Len(f)
  <2>1. /\ o2 <= n /\ n \in Nat /\ m \in Nat /\ k \in Nat /\ n - (o2 + k + 3) < Reach /\ m - (k + 3) < Reach
        /\ l = IF o2 + m <= n THEN n ELSE o2 + m
    BY <1>1, <1>2
  <2>. HIDE DEF n, m, k, l
  <2>2. o2 <= l /\ l - (o2 + k + 3) < Reach
    BY <1>1, <2>1
  <2>. QED
    BY <2>2 DEF k, l
<1>6. \A i \in 1..o2 : f[i] = v[i]
  <2>1. \A i \in 1..o2 : i \in 1..Len(f) /\ ~(o2 < i)
    BY <1>2, <1>5
  <2>. QED
    BY <1>2, <2>1
<1>7. \A i \in (o + 1)..o2 : f[i] \in Data
  <2>1. \A i \in (o + 1)..o2 : i \in 1..o2
    OBVIOUS
  <2>. QED
    BY <1>6, <2>1 DEF Edited
<1>8. ASSUME NEW i \in DOMAIN w
      PROVE  Recorded(f, w[i], o2)
  <2>1. w[i] \in Entry /\ Recorded(v, w[i], o2)
    <3>. HIDE DEF Entry
    <3>. QED
      BY DEF Edited
  <2>. QED
    BY <1>1, <1>2, <1>5, <1>6, <2>1, RecordedSame
<1>. QED
  BY <1>4, <1>5, <1>7, <1>8 DEF Edited, f

LEMMA AppendIs ==
    ASSUME NEW S, NEW w \in Seq(S), NEW e \in S
    PROVE  /\ Append(w, e) \in Seq(S) /\ Len(Append(w, e)) = Len(w) + 1
           /\ Append(w, e) # <<>> /\ Append(w, e)[Len(w) + 1] = e
           /\ \A i \in 1..Len(w) : Append(w, e)[i] = w[i] /\ w[i] \in S
OBVIOUS

\* A record that is written whole.
LEMMA EditedWrite ==
    ASSUME NEW v \in Seq(Cell), NEW w \in Seq(Entry), NEW o2 \in Nat,
           NEW g \in Seq(Cell), NEW o \in Nat, NEW d \in Seq(Entry), Edited(v, w, o2, g, o, d),
           NEW p \in Path, NEW c \in Content
    PROVE  LET s == RecordCells(p, c)
           IN  Edited(Overlay(v, o2, s), Append(w, [path |-> p, ofs |-> o2, content |-> c]),
                      o2 + Len(s), g, o, d)
<1>. DEFINE s == RecordCells(p, c)
            f == Overlay(v, o2, s)
            e == [path |-> p, ofs |-> o2, content |-> c]
            w2 == Append(w, e)
            l == Len(s)
            n == Len(c)
<1>1. /\ s \in Seq(Cell) /\ l \in (n + 1)..(n + 2) /\ s[1] \in Local
      /\ \A i \in 1..n : s[i + 1] = c[i]
      /\ \A i \in 1..l : s[i] \in Data
      /\ n \in Nat
  BY RecordCellsAre, ContentIsCells
<1>2. e \in Entry /\ e.ofs = o2 /\ e.content = c
  BY DEF Entry
<1>3. /\ w2 \in Seq(Entry) /\ Len(w2) = Len(w) + 1 /\ w2 # <<>> /\ w2[Len(w) + 1] = e
      /\ \A i \in 1..Len(w) : w2[i] = w[i] /\ w[i] \in Entry
  <2>. HIDE DEF e
  <2>. QED
    BY <1>2, AppendIs
<1>. HIDE DEF s, e, w2, l, n
<1>4. o2 \in 0..Len(v) /\ o2 \in o..Len(v) /\ Len(v) \in Nat /\ l \in Nat /\ Len(w) \in Nat /\ Len(d) \in Nat
      /\ o2 <= Len(v) /\ o <= o2 /\ l > 0
      /\ Len(v) - (o2 + Len(w) + 3) < Reach /\ Reach \in Nat \ {0}
  BY <1>1, ZipAssumption DEF Edited
<1>5. /\ f \in Seq(Cell)
      /\ Len(f) = IF o2 + l <= Len(v) THEN Len(v) ELSE o2 + l
      /\ \A i \in 1..Len(f) : f[i] = IF o2 < i /\ i <= o2 + l THEN s[i - o2] ELSE v[i]
  BY <1>1, <1>4, OverlayCells DEF l
<1>6. Kin(f, v, o)
  BY <1>1, <1>4, KinOverlay DEF l
<1>. HIDE DEF f
<1>7. Kin(f, g, o)
  BY <1>5, <1>6, KinKin DEF Edited
<1>8. o2 + l <= Len(f) /\ o2 <= Len(f) /\ Len(f) \in Nat /\ Len(f) - (o2 + l + Len(w2) + 3) < Reach
  <2>. DEFINE x == Len(v)
              k == Len(w)
              y == Len(f)
              k2 == Len(w2)
  <2>1. /\ o2 <= x /\ x \in Nat /\ k \in Nat /\ k2 = k + 1 /\ x - (o2 + k + 3) < Reach
        /\ y = IF o2 + l <= x THEN x ELSE o2 + l
    BY <1>3, <1>4, <1>5
  <2>. HIDE DEF x, y, k, k2
  <2>2. o2 + l <= y /\ o2 <= y /\ y \in Nat /\ y - (o2 + l + k2 + 3) < Reach
    BY <1>4, <2>1
  <2>. QED
    BY <2>2 DEF y, k2
<1>9. \A i \in 1..o2 : f[i] = v[i]
  <2>1. \A i \in 1..o2 : i \in 1..Len(f) /\ ~(o2 < i)
    BY <1>8
  <2>. QED
    BY <1>5, <2>1
<1>10. \A i \in 1..l : f[o2 + i] = s[i]
  <2>1. \A i \in 1..l : o2 + i \in 1..Len(f) /\ o2 < o2 + i /\ o2 + i <= o2 + l /\ (o2 + i) - o2 = i
    BY <1>4, <1>8
  <2>. QED
    BY <1>5, <2>1
<1>11. ASSUME NEW i \in (o + 1)..(o2 + l)
       PROVE  f[i] \in Data
  <2>1. CASE i <= o2
    <3>1. i \in (o + 1)..o2 /\ i \in 1..o2
      BY <1>4, <2>1
    <3>. QED
      BY <1>9, <3>1 DEF Edited
  <2>2. CASE ~(i <= o2)
    <3>1. i - o2 \in 1..l /\ o2 + (i - o2) = i
      BY <1>4, <2>2
    <3>2. f[o2 + (i - o2)] = s[i - o2]
      BY <1>10, <3>1
    <3>. QED
      BY <1>1, <3>1, <3>2
  <2>. QED
    BY <2>1, <2>2
<1>12. Recorded(f, e, o2 + l)
  <2>1. o2 + 1 + n <= o2 + l
    BY <1>1, <1>4
  <2>2. f[o2 + 1] \in Local
    <3>1. 1 \in 1..l
      BY <1>4
    <3>. QED
      BY <1>1, <1>10, <3>1
  <2>3. BytesOf(f, e) = c
    <3>. DEFINE t == SubSeq(f, (o2 + 1) + 1, (o2 + 1) + n)
    <3>1. /\ t \in Seq(Cell) /\ Len(t) = n
          /\ \A i \in 1..n : t[i] = f[(o2 + 1) + i]
      <4>1. (o2 + 1) + n <= Len(f) /\ o2 + 1 \in Nat
        BY <1>1, <1>4, <1>8, <2>1
      <4>. QED
        BY <1>1, <1>5, <4>1, SliceIs
    <3>2. \A i \in 1..n : i + 1 \in 1..l /\ (o2 + 1) + i = o2 + (i + 1)
      <4>1. n + 1 <= l /\ l \in Nat /\ n \in Nat
        BY <1>1, <1>4
      <4>2. ASSUME NEW i \in 1..n
            PROVE  i + 1 \in 1..l /\ (o2 + 1) + i = o2 + (i + 1)
        BY <4>1
      <4>. QED
        BY <4>2
    <3>3. (o2 + 1) + 1 = o2 + 2 /\ (o2 + 1) + n = o2 + 1 + n
      BY <1>1
    <3>4. BytesOf(f, e) = t
      BY <1>2, <3>3 DEF BytesOf, n
    <3>. HIDE DEF t
    <3>5. \A i \in 1..n : t[i] = c[i]
      BY <1>1, <1>10, <3>1, <3>2
    <3>6. t = c
      BY <3>1, <3>5, ContentIsCells, SameSequences DEF n
    <3>. QED
      BY <3>4, <3>6
  <2>. QED
    BY <1>2, <2>1, <2>2, <2>3 DEF Recorded, n
<1>13. ASSUME NEW i \in DOMAIN w2
       PROVE  Recorded(f, w2[i], o2 + l)
  <2>1. i \in 1..Len(w) \/ i = Len(w) + 1
    BY <1>3, <1>4
  <2>2. CASE i \in 1..Len(w)
    <3>1. w2[i] = w[i] /\ w[i] \in Entry /\ Recorded(v, w[i], o2)
      BY <1>3, <2>2 DEF Edited
    <3>2. Recorded(f, w[i], o2)
      BY <1>4, <1>5, <1>8, <1>9, <3>1, RecordedSame
    <3>3. o2 + l \in Nat /\ o2 <= o2 + l
      BY <1>4
    <3>. QED
      BY <3>1, <3>2, <3>3, RecordedMore
  <2>3. CASE i = Len(w) + 1
    BY <1>3, <1>12, <2>3
  <2>. QED
    BY <2>1, <2>2, <2>3
<1>14. Len(w2) > Len(d) /\ o2 + l > o
  <2>1. Len(w) >= Len(d)
    BY <1>4 DEF Edited
  <2>. QED
    BY <1>3, <1>4, <2>1
<1>15. Editable(g, o, d)
  BY DEF Edited
<1>16. Edited(f, w2, o2 + l, g, o, d)
  BY <1>3, <1>7, <1>8, <1>11, <1>13, <1>14, <1>15 DEF Edited
<1>. QED
  BY <1>16 DEF f, w2, e, l, s

\* A record that is written in part.
LEMMA EditedFails ==
    ASSUME Fails => \A c \in Content : Len(c) <= Reach, Fails,
           NEW v \in Seq(Cell), NEW w \in Seq(Entry), NEW o2 \in Nat,
           NEW g \in Seq(Cell), NEW o \in Nat, NEW d \in Seq(Entry), Edited(v, w, o2, g, o, d),
           NEW p \in Path, NEW c \in Content, NEW n \in 0..(Len(RecordCells(p, c)) - 1)
    PROVE  LET s == SubSeq(RecordCells(p, c), 1, n)
           IN  /\ s \in Seq(Cell) /\ \A i \in 1..Len(s) : s[i] \in Data
               /\ Edited(Overlay(v, o2, s), w, o2, g, o, d)
<1>. DEFINE cells == RecordCells(p, c)
            s == SubSeq(cells, 1, n)
            l == Len(cells)
<1>1. /\ cells \in Seq(Cell) /\ l \in (Len(c) + 1)..(Len(c) + 2) /\ Len(c) \in Nat
      /\ \A i \in 1..l : cells[i] \in Data
  BY RecordCellsAre, ContentIsCells
<1>. HIDE DEF cells
<1>2. n \in 0..l /\ n \in Nat /\ n <= l - 1 /\ l \in Nat
  BY <1>1 DEF cells
<1>3. s \in Seq(Cell) /\ Len(s) = n /\ \A i \in 1..n : s[i] = cells[i]
  BY <1>1, <1>2, Prefix
<1>4. \A i \in 1..n : i \in 1..l
  BY <1>2
<1>. HIDE DEF s
<1>5. \A i \in 1..Len(s) : s[i] \in Data
  BY <1>1, <1>3, <1>4
<1>6. Len(s) - (Len(w) + 3) < Reach
  <2>1. Len(c) <= Reach /\ Reach \in Nat /\ Len(w) \in Nat
    BY ZipAssumption
  <2>. DEFINE k == Len(w)
              m == Len(c)
  <2>. HIDE DEF k, m, l
  <2>2. n - (k + 3) < Reach
    BY <1>1, <1>2, <2>1 DEF k, m
  <2>. QED
    BY <1>3, <2>2 DEF k
<1>7. Edited(Overlay(v, o2, s), w, o2, g, o, d)
  BY <1>3, <1>5, <1>6, EditedBehind
<1>. QED
  BY <1>3, <1>5, <1>7 DEF s, cells

-----------------------------------------------------------------------------
(* What directories hold *)

LEMMA HoldingType ==
    ASSUME NEW d \in Seq(Entry)
    PROVE  Holding(d) \in D!Map /\ Holding(d) # Unreadable
<1>1. ASSUME NEW p \in Path
      PROVE  Contents(d, PathMap(d), p) \in Content \cup {Missing}
  <2>1. CASE p \in DOMAIN PathMap(d)
    <3>1. d[PathMap(d)[p] + 1] \in Entry
      <4>1. PathMap(d)[p] + 1 \in DOMAIN d
        BY <2>1, PathMapFinds
      <4>. HIDE DEF Entry
      <4>. QED
        BY <4>1
    <3>. QED
      BY <2>1, <3>1, EntryFields DEF Contents
  <2>2. CASE p \notin DOMAIN PathMap(d)
    BY <2>2 DEF Contents
  <2>. QED
    BY <2>1, <2>2
<1>2. Holding(d) \in [Path -> Content \cup {Missing}]
  BY <1>1 DEF Holding
<1>. QED
  BY <1>2, FilesAssumption DEF D!Map

LEMMA HoldingNothing == Holding(<<>>) = D!Empty
<1>1. \A p \in Path : p \notin DOMAIN PathMap(<<>>)
  BY DEF PathMap
<1>2. \A p \in Path : Contents(<<>>, PathMap(<<>>), p) = Missing
  BY <1>1 DEF Contents
<1>. QED
  BY <1>2 DEF Holding, D!Empty

LEMMA HoldingMore ==
    ASSUME NEW d \in Seq(Entry), NEW e \in Entry
    PROVE  Holding(Append(d, e)) = [Holding(d) EXCEPT ![e.path] = e.content]
<1>. DEFINE d2 == Append(d, e)
            n  == Len(d) + 1
            m  == PathMap(d)
            m2 == PathMap(d2)
<1>1. d2[n] = e /\ \A i \in 1..Len(d) : d2[i] = d[i]
  BY AppendIs
<1>2. m2 = [x \in DOMAIN m \cup {e.path} |-> IF x = e.path THEN n - 1 ELSE m[x]]
  BY PathMapOfAppend DEF Indexed
<1>3. n - 1 + 1 = n
  OBVIOUS
<1>. HIDE DEF d2, m, m2, n
<1>4. ASSUME NEW p \in Path
      PROVE  Contents(d2, m2, p) = IF p = e.path THEN e.content ELSE Contents(d, m, p)
  <2>1. CASE p = e.path
    <3>1. p \in DOMAIN m2 /\ m2[p] + 1 = n
      BY <1>2, <1>3, <2>1
    <3>. QED
      BY <1>1, <2>1, <3>1 DEF Contents
  <2>2. CASE p # e.path /\ p \in DOMAIN m
    <3>1. p \in DOMAIN m2 /\ m2[p] = m[p]
      BY <1>2, <2>2
    <3>2. m[p] + 1 \in 1..Len(d)
      BY <2>2, PathMapFinds DEF m
    <3>. QED
      BY <1>1, <2>2, <3>1, <3>2 DEF Contents
  <2>3. CASE p # e.path /\ p \notin DOMAIN m
    <3>1. p \notin DOMAIN m2
      BY <1>2, <2>3
    <3>. QED
      BY <2>3, <3>1 DEF Contents
  <2>. QED
    BY <2>1, <2>2, <2>3
<1>5. Holding(d) = [p \in Path |-> Contents(d, m, p)] /\ Holding(d2) = [p \in Path |-> Contents(d2, m2, p)]
  BY DEF Holding, m, m2
<1>6. Holding(d2) = [Holding(d) EXCEPT ![e.path] = e.content]
  BY <1>4, <1>5
<1>. QED
  BY <1>6 DEF d2

\* The records of file f are before this.
Floor(f) == IF Opens(f) /\ IsZip64(f) THEN StartOf(f) ELSE Len(f)

LEMMA SoundFound ==
    ASSUME NEW f \in Seq(Cell), Sound(f), Opens(f)
    PROVE  /\ FoundIn(f) = Holding(DirectoryOf(f)) /\ FoundIn(f) # Unreadable
           /\ Floor(f) \in Nat /\ Floor(f) <= Len(f)
           /\ \A i \in DOMAIN DirectoryOf(f) : Recorded(f, DirectoryOf(f)[i], Floor(f))
<1>. DEFINE d == DirectoryOf(f)
            o == StartOf(f)
<1>1. d \in Seq(Entry) /\ o \in Nat /\ Len(f) \in Nat
  BY OpenedIsDirectory
<1>2. Floor(f) \in Nat /\ Floor(f) <= Len(f) /\ \A i \in DOMAIN d : Recorded(f, d[i], Floor(f))
  <2>. HIDE DEF d, o
  <2>1. CASE IsZip64(f)
    <3>1. IsSaved(f, o, d) /\ Floor(f) = o
      BY <2>1 DEF Sound, Floor, d, o
    <3>2. o + Len(d) + 3 <= Len(f)
      BY <1>1, <3>1, SavedCells
    <3>3. o <= Len(f)
      BY <1>1, <3>2
    <3>4. \A i \in DOMAIN d : Recorded(f, d[i], o)
      BY <3>1 DEF IsSaved
    <3>. QED
      BY <1>1, <3>1, <3>3, <3>4
  <2>2. CASE ~IsZip64(f)
    BY <1>1, <2>2 DEF Sound, Floor, d, o
  <2>. QED
    BY <2>1, <2>2
<1>3. FoundIn(f) = Holding(d)
  BY <1>2, FoundIs
<1>4. Holding(d) # Unreadable
  BY <1>1, HoldingType
<1>. QED
  BY <1>2, <1>3, <1>4

-----------------------------------------------------------------------------
(* The invariant of the document *)

Undisturbed(r) == m_mode[r] = "Read" /\ ~disturbed[r]

\* File f has all the records that process r found, before position o.
HasThose(r, f, o) == \A i \in DOMAIN directory[r] : Recorded(f, directory[r][i], o)

\* Process q edits what it found: g, with directory d at o.
Editor(q, g, o, d) ==
    /\ Kin(disk, g, o)
    /\ Streaming(q, o)
    /\ Edited(Flushed(q), directory[q], position[q], g, o, d)
    /\ \A r \in Proc : Undisturbed(r) => HasThose(r, disk, o)

Observed == found = FoundIn(disk) /\ Sound(disk)
History  == /\ disturbed \in [Proc -> BOOLEAN]
            /\ \A q \in Proc : disturbed[q] => m_mode[q] # "closed"
Buffers  == \A q \in Proc : ~Writes(q) => stream[q] = NoStream
Closed   == \A q \in Proc : m_mode[q] = "closed" => directory[q] = <<>>
Readers  == \A q \in Proc : m_mode[q] = "Read" =>
              \A i \in DOMAIN directory[q] : directory[q][i].ofs + 1 + Len(directory[q][i].content) <= position[q]
Alone    == \A q, r \in Proc : Writes(q) /\ Writes(r) => q = r
Editing  == \A q \in Proc : Writes(q) =>
              \E g \in Seq(Cell), o \in Nat, d \in Seq(Entry) : Editor(q, g, o, d)
Idle     == (\A q \in Proc : ~Writes(q)) =>
              \A r \in Proc : Undisturbed(r) => HasThose(r, disk, Floor(disk))

DInv == Observed /\ History /\ Buffers /\ Closed /\ Readers /\ Alone /\ Editing /\ Idle

\* What the history variables record of a step.
Watched == /\ found' = IF disk' = disk THEN found ELSE FoundIn(disk')
           /\ disturbed' = [q \in Proc |-> m_mode'[q] # "closed" /\ m_mode[q] # "closed"
                                           /\ (disturbed[q] \/ NewWriters # {})]

LEMMA WorkingIs ==
    ASSUME IInv
    PROVE  working = [q \in Proc |-> Holding(directory[q])]
BY DEF IInv, Indexes, working, Holding

LEMMA WorkingBecomes ==
    ASSUME IInv'
    PROVE  working' = [q \in Proc |-> Holding(directory'[q])]
BY DEF IInv, Indexes, working, Holding

LEMMA FoundIsOfDisk ==
    ASSUME DInv, Watched
    PROVE  found' = FoundIn(disk')
BY DEF DInv, Observed, Watched

LEMMA StillDisturbed ==
    ASSUME DInv, m_mode' = m_mode
    PROVE  disturbed = [q \in Proc |-> m_mode'[q] # "closed" /\ m_mode[q] # "closed"
                                       /\ (disturbed[q] \/ NewWriters # {})]
<1>1. NewWriters = {}
  BY DEF NewWriters
<1>2. ASSUME NEW q \in Proc
      PROVE  (m_mode'[q] # "closed" /\ m_mode[q] # "closed" /\ (disturbed[q] \/ NewWriters # {})) = disturbed[q]
  <2>1. disturbed[q] \in BOOLEAN /\ (disturbed[q] => m_mode[q] # "closed")
    BY DEF DInv, History
  <2>2. CASE disturbed[q] = TRUE
    BY <2>1, <2>2
  <2>3. CASE disturbed[q] = FALSE
    BY <1>1, <2>3
  <2>. QED
    BY <2>1, <2>2, <2>3
<1>3. disturbed = [q \in Proc |-> disturbed[q]]
  BY DEF DInv, History
<1>. QED
  BY <1>2, <1>3

LEMMA NobodyDisturbed ==
    ASSUME DInv, Watched, m_mode' = m_mode
    PROVE  disturbed' = disturbed
BY StillDisturbed DEF Watched

\* What an editor does keeps the invariant, and the file is found or fades.
LEMMA EditorMoves ==
    ASSUME IInv, IInv', DInv, Watched, NEW q \in Proc, Writes(q), m_mode' = m_mode,
           NEW g \in Seq(Cell), NEW o \in Nat, NEW d \in Seq(Entry), Editor(q, g, o, d),
           Kin(disk', disk, o), Streaming(q, o)',
           Edited(Flushed(q)', directory'[q], position'[q], g, o, d),
           \A r \in Proc : r # q => /\ directory'[r] = directory[r] /\ position'[r] = position[r]
                                    /\ stream'[r] = stream[r]
    PROVE  DInv' /\ found' \in {found, Unreadable} /\ UNCHANGED disturbed
<1>1. disturbed' = disturbed
  BY NobodyDisturbed
<1>2. disk \in Seq(Cell) /\ disk' \in Seq(Cell) /\ directory \in [Proc -> Seq(Entry)]
      /\ directory' \in [Proc -> Seq(Entry)] /\ position' \in [Proc -> Nat]
  BY DEF IInv, TypeOK
<1>3. Editable(g, o, d) /\ Kin(disk, g, o) /\ found = FoundIn(disk) /\ found' = FoundIn(disk')
  BY FoundIsOfDisk DEF Editor, Edited, DInv, Observed
<1>4. Kin(disk', g, o) /\ found' \in {found, Unreadable}
  BY <1>2, <1>3, EditedFades
<1>5. Sound(disk') /\ o <= Len(disk') /\ o <= Len(disk)
  BY <1>2, <1>3, <1>4, EditedFound
<1>6. Observed'
  BY <1>3, <1>5 DEF Observed
<1>7. History'
  BY <1>1 DEF DInv, History
<1>8. \A r \in Proc : Writes(r)' = Writes(r)
  BY DEF Writes
<1>9. Buffers' /\ Alone'
  BY <1>8 DEF DInv, Buffers, Alone
<1>10. Closed'
  BY DEF DInv, Closed, Writes
<1>11. Readers'
  <2>1. ASSUME NEW r \in Proc, m_mode'[r] = "Read"
        PROVE  r # q /\ m_mode[r] = "Read" /\ directory'[r] = directory[r] /\ position'[r] = position[r]
    BY <2>1 DEF Writes
  <2>. QED
    BY <2>1 DEF DInv, Readers
<1>12. ASSUME NEW r \in Proc, Undisturbed(r)'
       PROVE  HasThose(r, disk, o)'
  <2>1. m_mode[r] = "Read" /\ ~disturbed[r] /\ r # q
    BY <1>1, <1>12 DEF Undisturbed, Writes
  <2>2. directory'[r] = directory[r] /\ HasThose(r, disk, o)
    BY <2>1 DEF Editor, Undisturbed
  <2>3. \A i \in 1..o : disk'[i] = disk[i]
    <3>1. \A i \in 1..o : i \in 1..Len(disk') /\ ~(i > o)
      BY <1>2, <1>5
    <3>. QED
      BY <3>1 DEF Kin
  <2>4. ASSUME NEW i \in DOMAIN directory[r]
        PROVE  Recorded(disk', directory[r][i], o)
    <3>1. directory[r][i] \in Entry /\ Recorded(disk, directory[r][i], o)
      <4>1. directory[r] \in Seq(Entry)
        BY <1>2
      <4>. HIDE DEF Entry
      <4>. QED
        BY <2>2, <4>1 DEF HasThose
    <3>. QED
      BY <1>2, <1>5, <2>3, <3>1, RecordedSame
  <2>. QED
    BY <2>2, <2>4 DEF HasThose
<1>13. Editor(q, g, o, d)'
  <2>1. \A r \in Proc : Undisturbed(r)' => HasThose(r, disk, o)'
    BY <1>12
  <2>2. Edited(Flushed(q), directory[q], position[q], g, o, d)'
    OBVIOUS
  <2>. QED
    BY <1>4, <2>1, <2>2 DEF Editor
<1>14. Editing'
  <2>1. \A r \in Proc : Writes(r)' => r = q
    BY <1>8 DEF DInv, Alone
  <2>2. (\E g1 \in Seq(Cell), o1 \in Nat, d1 \in Seq(Entry) : Editor(q, g1, o1, d1))'
    BY <1>13
  <2>. QED
    BY <2>1, <2>2 DEF Editing
<1>15. Idle'
  BY <1>8 DEF Idle
<1>. QED
  BY <1>1, <1>4, <1>6, <1>7, <1>9, <1>10, <1>11, <1>14, <1>15 DEF DInv

\* A step that changes none of this.
LEMMA NothingMoves ==
    ASSUME DInv, Watched, UNCHANGED <<disk, m_mode, directory, position, m_path_map, stream>>
    PROVE  DInv' /\ UNCHANGED <<found, disturbed, working>>
<1>1. disturbed' = disturbed
  BY NobodyDisturbed
<1>2. found' = found /\ UNCHANGED working
  BY DEF Watched, working
<1>3. Observed' /\ History' /\ Closed' /\ Readers'
  BY <1>1, <1>2 DEF DInv, Observed, History, Closed, Readers
<1>4. \A r \in Proc : Writes(r)' = Writes(r)
  BY DEF Writes
<1>5. Buffers' /\ Alone'
  BY <1>4 DEF DInv, Buffers, Alone
<1>6. \A r \in Proc : Undisturbed(r)' = Undisturbed(r)
  BY <1>1 DEF Undisturbed
<1>7. Idle'
  BY <1>4, <1>6 DEF DInv, Idle, HasThose
<1>8. ASSUME NEW r \in Proc, NEW g \in Seq(Cell), NEW o \in Nat, NEW d \in Seq(Entry), Editor(r, g, o, d)
      PROVE  Editor(r, g, o, d)'
  BY <1>6, <1>8 DEF Editor, Streaming, Flushed, HasThose
<1>9. Editing'
  <2>1. \A r \in Proc : Writes(r) => \E g \in Seq(Cell), o \in Nat, d \in Seq(Entry) : Editor(r, g, o, d)'
    BY <1>8 DEF DInv, Editing
  <2>. QED
    BY <1>4, <2>1 DEF Editing
<1>. QED
  BY <1>1, <1>2, <1>3, <1>5, <1>7, <1>9 DEF DInv

-----------------------------------------------------------------------------
(* The steps of an open archive *)

LEMMA EditorPicked ==
    ASSUME IInv, DInv, NEW q \in Proc, Writes(q)
    PROVE  \E g \in Seq(Cell), o \in Nat, d \in Seq(Entry) : Editor(q, g, o, d)
BY DEF DInv, Editing

LEMMA EditorKnows ==
    ASSUME IInv, NEW q \in Proc, NEW g \in Seq(Cell), NEW o \in Nat, NEW d \in Seq(Entry), Editor(q, g, o, d)
    PROVE  /\ disk \in Seq(Cell) /\ o <= Len(disk) /\ Streaming(q, o)
           /\ Flushed(q) \in Seq(Cell) /\ Kin(Flushed(q), disk, o)
           /\ directory[q] \in Seq(Entry) /\ position[q] \in Nat /\ position[q] \in o..Len(Flushed(q))
           /\ Edited(Flushed(q), directory[q], position[q], g, o, d)
<1>1. disk \in Seq(Cell) /\ directory[q] \in Seq(Entry) /\ position[q] \in Nat /\ TypeOK
  BY DEF IInv, TypeOK
<1>2. Editable(g, o, d) /\ Kin(disk, g, o) /\ Streaming(q, o)
      /\ Edited(Flushed(q), directory[q], position[q], g, o, d)
  BY DEF Editor, Edited
<1>3. o <= Len(disk)
  BY <1>1, <1>2, EditedFound
<1>4. Flushed(q) \in Seq(Cell) /\ Kin(Flushed(q), disk, o)
  BY <1>1, <1>2, <1>3, FlushedKin
<1>5. position[q] >= o /\ position[q] <= Len(Flushed(q))
  BY <1>1, <1>2 DEF Edited
<1>. QED
  BY <1>1, <1>2, <1>3, <1>4, <1>5

LEMMA WriteMaps ==
    ASSUME IInv, IInv', DInv, Watched, NEW q \in Proc, NEW p \in Path, NEW c \in Content, WritePtr(q, p, c)
    PROVE  DInv' /\ D!WritePtr(q, p, c)
<1>. DEFINE s == RecordCells(p, c)
            e == [path |-> p, ofs |-> position[q], content |-> c]
<1>1. Writes(q) /\ m_mode' = m_mode
  BY DEF WritePtr
<1>2. PICK g \in Seq(Cell), o \in Nat, d \in Seq(Entry) : Editor(q, g, o, d)
  BY <1>1, EditorPicked
<1>3. PICK k \in 0..(2 * MaxCells) : Stream(q, position[q], s, k)
  BY DEF WritePtr
<1>4. /\ directory' = [directory EXCEPT ![q] = Append(directory[q], e)]
      /\ position' = [position EXCEPT ![q] = position[q] + Len(s)]
      /\ directory \in [Proc -> Seq(Entry)] /\ position \in [Proc -> Nat] /\ TypeOK
  BY DEF WritePtr, IInv, TypeOK
<1>5. s \in Seq(Cell) /\ \A i \in 1..Len(s) : s[i] \in Data
  BY RecordCellsAre
<1>6. /\ disk \in Seq(Cell) /\ o <= Len(disk) /\ Streaming(q, o) /\ Flushed(q) \in Seq(Cell)
      /\ directory[q] \in Seq(Entry) /\ position[q] \in Nat /\ position[q] \in o..Len(Flushed(q))
      /\ Edited(Flushed(q), directory[q], position[q], g, o, d)
  BY <1>2, EditorKnows
<1>7. Edited(Overlay(Flushed(q), position[q], s), Append(directory[q], e), position[q] + Len(s), g, o, d)
  BY <1>6, EditedWrite
<1>8. e \in Entry /\ e.path = p /\ e.content = c
  BY <1>6 DEF Entry
<1>. HIDE DEF s, e
<1>9. /\ Kin(disk', disk, o) /\ Streaming(q, o)'
      /\ Flushed(q)' = Overlay(Flushed(q), position[q], s)
      /\ \A r \in Proc : r # q => stream'[r] = stream[r]
  BY <1>3, <1>4, <1>5, <1>6, StreamWrites
<1>10. /\ directory'[q] = Append(directory[q], e) /\ position'[q] = position[q] + Len(s)
       /\ \A r \in Proc : r # q => directory'[r] = directory[r] /\ position'[r] = position[r]
  BY <1>4
<1>11. Edited(Flushed(q)', directory'[q], position'[q], g, o, d)
  BY <1>7, <1>9, <1>10
<1>12. DInv' /\ found' \in {found, Unreadable} /\ UNCHANGED disturbed
  BY <1>1, <1>2, <1>9, <1>10, <1>11, EditorMoves
<1>13. Holding(Append(directory[q], e)) = [Holding(directory[q]) EXCEPT ![p] = c]
  BY <1>6, <1>8, HoldingMore
<1>14. working' = [working EXCEPT ![q][p] = c]
  <2>1. working = [r \in Proc |-> Holding(directory[r])]
    BY WorkingIs
  <2>2. working' = [r \in Proc |-> Holding(directory'[r])]
    BY WorkingBecomes
  <2>3. \A r \in Proc : Holding(directory'[r]) = IF r = q THEN [Holding(directory[q]) EXCEPT ![p] = c]
                                                 ELSE Holding(directory[r])
    BY <1>10, <1>13
  <2>. QED
    BY <2>1, <2>2, <2>3
<1>15. Returns(q, <<"write">>, NoReply)
  BY DEF WritePtr
<1>. QED
  BY <1>1, <1>12, <1>14, <1>15 DEF D!WritePtr, D!Edits, D!MayFade, D!Returns, Returns, Writes

LEMMA WriteFailsMaps ==
    ASSUME Fails => \A c \in Content : Len(c) <= Reach,
           IInv, IInv', DInv, Watched, NEW q \in Proc, NEW p \in Path, NEW c \in Content, WriteFails(q, p, c)
    PROVE  DInv' /\ D!Refuse(q, <<"write">>)
<1>1. Fails /\ Writes(q) /\ UNCHANGED <<m_mode, directory, position, m_path_map>>
  BY DEF WriteFails
<1>2. PICK g \in Seq(Cell), o \in Nat, d \in Seq(Entry) : Editor(q, g, o, d)
  BY <1>1, EditorPicked
<1>3. PICK n \in 0..(Len(RecordCells(p, c)) - 1) : \E k \in 0..(2 * MaxCells) :
        Stream(q, position[q], SubSeq(RecordCells(p, c), 1, n), k)
  BY DEF WriteFails
<1>. DEFINE s == SubSeq(RecordCells(p, c), 1, n)
<1>4. PICK k \in 0..(2 * MaxCells) : Stream(q, position[q], s, k)
  BY <1>3
<1>5. /\ disk \in Seq(Cell) /\ o <= Len(disk) /\ Streaming(q, o) /\ Flushed(q) \in Seq(Cell)
      /\ directory[q] \in Seq(Entry) /\ position[q] \in Nat /\ position[q] \in o..Len(Flushed(q))
      /\ Edited(Flushed(q), directory[q], position[q], g, o, d)
  BY <1>2, EditorKnows
<1>6. /\ s \in Seq(Cell) /\ \A i \in 1..Len(s) : s[i] \in Data
      /\ Edited(Overlay(Flushed(q), position[q], s), directory[q], position[q], g, o, d)
  BY <1>1, <1>5, EditedFails
<1>. HIDE DEF s
<1>7. TypeOK
  BY DEF IInv
<1>8. /\ Kin(disk', disk, o) /\ Streaming(q, o)'
      /\ Flushed(q)' = Overlay(Flushed(q), position[q], s)
      /\ \A r \in Proc : r # q => stream'[r] = stream[r]
  BY <1>4, <1>5, <1>6, <1>7, StreamWrites
<1>9. Edited(Flushed(q)', directory'[q], position'[q], g, o, d)
  BY <1>1, <1>6, <1>8
<1>10. DInv' /\ found' \in {found, Unreadable} /\ UNCHANGED disturbed
  BY <1>1, <1>2, <1>8, <1>9, EditorMoves
<1>11. UNCHANGED working
  BY <1>1 DEF working
<1>12. Returns(q, <<"write">>, Threw)
  BY DEF WriteFails
<1>. QED
  BY <1>1, <1>10, <1>11, <1>12 DEF D!Refuse, D!Edits, D!MayFade, D!Returns, Returns, Writes

LEMMA ThrowsMap ==
    ASSUME DInv, Watched, NEW q \in Proc, NEW op \in {<<"open">>, <<"write">>}, Returns(q, op, Threw),
           UNCHANGED <<disk, m_mode, directory, position, m_path_map, stream>>
    PROVE  DInv' /\ D!Refuse(q, op)
<1>1. DInv' /\ UNCHANGED <<found, disturbed, working>>
  BY NothingMoves
<1>. QED
  BY <1>1 DEF D!Refuse, D!MayFade, D!Returns, Returns

LEMMA ReadMissingMaps ==
    ASSUME DInv, Watched, NEW q \in Proc, NEW p \in Path, ReadMissing(q, p)
    PROVE  DInv' /\ D!Read(q, p)
<1>1. /\ UNCHANGED <<disk, m_mode, directory, position, m_path_map, stream>>
      /\ m_mode[q] # "closed" /\ p \notin DOMAIN m_path_map[q] /\ Returns(q, <<"read", p>>, Missing)
  BY DEF ReadMissing
<1>2. DInv' /\ UNCHANGED <<found, disturbed, working>>
  BY <1>1, NothingMoves
<1>3. working[q][p] = Missing
  BY <1>1 DEF working, Contents
<1>. QED
  BY <1>1, <1>2, <1>3 DEF D!Read, D!MayFade, D!Returns, Returns

\* What a reader found is where it was, unless the file was taken from it.
LEMMA ReaderHas ==
    ASSUME IInv, DInv, NEW q \in Proc, Undisturbed(q)
    PROVE  \E o \in Nat : o <= Len(disk) /\ HasThose(q, disk, o)
<1>1. disk \in Seq(Cell) /\ Len(disk) \in Nat
  BY DEF IInv, TypeOK
<1>2. CASE \A r \in Proc : ~Writes(r)
  <2>1. HasThose(q, disk, Floor(disk))
    BY <1>2 DEF DInv, Idle
  <2>2. Floor(disk) \in Nat /\ Floor(disk) <= Len(disk)
    <3>1. CASE Opens(disk)
      BY <1>1, <3>1, SoundFound DEF DInv, Observed
    <3>2. CASE ~Opens(disk)
      BY <1>1, <3>2 DEF Floor
    <3>. QED
      BY <3>1, <3>2
  <2>. QED
    BY <2>1, <2>2
<1>3. ASSUME NEW r \in Proc, Writes(r)
      PROVE  \E o \in Nat : o <= Len(disk) /\ HasThose(q, disk, o)
  <2>1. PICK g \in Seq(Cell), o \in Nat, d \in Seq(Entry) : Editor(r, g, o, d)
    BY <1>3, EditorPicked
  <2>2. o <= Len(disk) /\ HasThose(q, disk, o)
    BY <2>1, EditorKnows DEF Editor
  <2>. QED
    BY <2>2
<1>. QED
  BY <1>2, <1>3

LEMMA ReadMaps ==
    ASSUME IInv, IInv', DInv, Watched, NEW q \in Proc, NEW p \in Path, Read(q, p)
    PROVE  DInv' /\ D!Read(q, p)
<1>. DEFINE i == m_path_map[q][p] + 1
            e == directory[q][i]
            x == Extracts(disk', e, position[q])
<1>1. /\ m_mode[q] # "closed" /\ p \in DOMAIN m_path_map[q]
      /\ UNCHANGED <<m_mode, directory, position, m_path_map>>
      /\ IF e.content = <<>> THEN UNCHANGED <<disk, stream>>
         ELSE disk' = Flushed(q) /\ stream' = [stream EXCEPT ![q] = NoStream]
      /\ Returns(q, <<"read", p>>, IF ~x THEN Threw
                   ELSE IF e.content = <<>> THEN <<>> ELSE BytesOf(disk', e))
  BY DEF Read
<1>2. directory[q] \in Seq(Entry) /\ position[q] \in Nat /\ TypeOK /\ m_path_map[q] = PathMap(directory[q])
  BY DEF IInv, TypeOK, Indexes
<1>3. i \in DOMAIN directory[q]
  BY <1>1, <1>2, PathMapFinds
<1>4. e \in Entry
  <2>. HIDE DEF Entry, i
  <2>. QED
    BY <1>2, <1>3
<1>5. working[q][p] = e.content /\ UNCHANGED working
  BY <1>1 DEF working, Contents
<1>. HIDE DEF e, i
<1>6. Returns(q, <<"read", p>>, IF x THEN working[q][p] ELSE Threw)
  <2>1. x /\ e.content # <<>> => BytesOf(disk', e) = e.content
    BY DEF Extracts, Checks
  <2>2. (IF ~x THEN Threw ELSE IF e.content = <<>> THEN <<>> ELSE BytesOf(disk', e))
          = IF x THEN working[q][p] ELSE Threw
    <3>. HIDE DEF x
    <3>. QED
      BY <1>5, <2>1
  <2>. QED
    BY <1>1, <2>2
<1>. HIDE DEF x
<1>. DEFINE fades == found' \in IF D!Edits(q) THEN {found, Unreadable} ELSE {found}
<1>7. CASE Writes(q)
  <2>1. PICK g \in Seq(Cell), o \in Nat, d \in Seq(Entry) : Editor(q, g, o, d)
    BY <1>7, EditorPicked
  <2>2. /\ disk \in Seq(Cell) /\ Flushed(q) \in Seq(Cell) /\ Kin(Flushed(q), disk, o)
        /\ position[q] <= Len(Flushed(q))
        /\ Edited(Flushed(q), directory[q], position[q], g, o, d)
    BY <2>1, EditorKnows DEF Edited
  <2>3. Recorded(Flushed(q), e, position[q])
    BY <1>3, <2>2 DEF Edited, e
  <2>4. Extracts(Flushed(q), e, position[q])
    <3>1. e.ofs + 1 + Len(e.content) <= position[q]
      BY <2>3 DEF Recorded
    <3>. QED
      BY <1>2, <1>4, <2>2, <2>3, <3>1, RecordedExtracts
  <2>5. x
    <3>1. CASE e.content = <<>>
      BY <3>1 DEF x, Extracts
    <3>2. CASE e.content # <<>>
      BY <1>1, <2>4, <3>2 DEF x
    <3>. QED
      BY <3>1, <3>2
  <2>6. DInv' /\ found' \in {found, Unreadable} /\ UNCHANGED disturbed
    <3>1. CASE e.content = <<>>
      BY <1>1, <3>1, NothingMoves
    <3>2. CASE e.content # <<>>
      <4>1. disk' = Flushed(q) /\ stream' = [stream EXCEPT ![q] = NoStream]
        BY <1>1, <3>2
      <4>2. stream'[q].at = 0 /\ stream'[q].cells = <<>> /\ \A r \in Proc : r # q => stream'[r] = stream[r]
        BY <1>2, <4>1 DEF TypeOK, NoStream
      <4>3. Streaming(q, o)' /\ Flushed(q)' = Flushed(q)
        <5>1. Flushed(q)' = disk'
          BY <4>2, NothingFlushed DEF Flushed
        <5>2. Streaming(q, o)'
          BY <4>2 DEF Streaming
        <5>. QED
          BY <4>1, <5>1, <5>2
      <4>4. Edited(Flushed(q)', directory'[q], position'[q], g, o, d)
        BY <1>1, <2>2, <4>3
      <4>5. Kin(disk', disk, o)
        BY <2>2, <4>1
      <4>. QED
        BY <1>1, <1>7, <2>1, <4>2, <4>3, <4>4, <4>5, EditorMoves
    <3>. QED
      BY <3>1, <3>2
  <2>7. D!Edits(q)
    BY <1>7 DEF Writes, D!Edits
  <2>. QED
    BY <1>1, <1>5, <1>6, <2>5, <2>6, <2>7 DEF D!Read, D!MayFade, D!Returns, Returns
<1>8. CASE ~Writes(q)
  <2>1. m_mode[q] = "Read" /\ stream[q] = NoStream
    BY <1>1, <1>2, <1>8 DEF Writes, TypeOK, DInv, Buffers
  <2>2. Flushed(q) = disk
    BY <2>1, NothingFlushed DEF NoStream, Flushed
  <2>3. UNCHANGED <<disk, stream>>
    BY <1>1, <1>2, <2>1, <2>2 DEF TypeOK
  <2>4. DInv' /\ UNCHANGED <<found, disturbed, working>>
    BY <1>1, <2>3, NothingMoves
  <2>5. x \/ disturbed[q]
    <3>1. SUFFICES ASSUME ~disturbed[q] PROVE x
      OBVIOUS
    <3>2. PICK o \in Nat : o <= Len(disk) /\ HasThose(q, disk, o)
      BY <2>1, <3>1, ReaderHas DEF Undisturbed
    <3>3. Recorded(disk, e, o)
      BY <1>3, <3>2 DEF HasThose, e
    <3>4. e.ofs + 1 + Len(e.content) <= position[q]
      BY <1>3, <2>1 DEF DInv, Readers, e
    <3>5. disk \in Seq(Cell)
      BY <1>2 DEF TypeOK
    <3>6. Extracts(disk, e, position[q])
      BY <1>2, <1>4, <3>2, <3>3, <3>4, <3>5, RecordedExtracts
    <3>. QED
      BY <2>3, <3>6 DEF x
  <2>6. Returns(q, <<"read", p>>, working[q][p]) \/ (disturbed[q] /\ Returns(q, <<"read", p>>, Threw))
    BY <1>6, <2>5
  <2>. QED
    BY <1>1, <2>4, <2>6 DEF D!Read, D!MayFade, D!Returns, Returns
<1>. QED
  BY <1>7, <1>8

-----------------------------------------------------------------------------
(* The end of an archive *)

\* What goes with the object, whatever the file has become.
LEMMA Forgotten ==
    ASSUME IInv, IInv', DInv, Watched, NEW q \in Proc, NEW x, m_mode[q] # "closed", Forget(q, x)
    PROVE  /\ disturbed' = [disturbed EXCEPT ![q] = FALSE]
           /\ working' = [working EXCEPT ![q] = D!Empty]
           /\ m_mode' = [m_mode EXCEPT ![q] = "closed"] /\ m_mode'[q] = "closed"
           /\ \A r \in Proc : r # q => /\ m_mode'[r] = m_mode[r] /\ directory'[r] = directory[r]
                                       /\ position'[r] = position[r] /\ stream'[r] = stream[r]
                                       /\ disturbed'[r] = disturbed[r]
           /\ History' /\ Buffers' /\ Closed' /\ Readers' /\ Alone'
<1>1. /\ m_mode' = [m_mode EXCEPT ![q] = "closed"]
      /\ directory' = [directory EXCEPT ![q] = <<>>]
      /\ position' = [position EXCEPT ![q] = 0]
      /\ stream' = [stream EXCEPT ![q] = NoStream]
  BY DEF Forget
<1>2. /\ m_mode \in [Proc -> {"closed", "Read", "Write", "Append"}]
      /\ directory \in [Proc -> Seq(Entry)] /\ position \in [Proc -> Nat]
      /\ stream \in [Proc -> [at : Nat, cells : Seq(Cell)]]
  BY DEF IInv, TypeOK
<1>3. /\ m_mode'[q] = "closed" /\ directory'[q] = <<>> /\ stream'[q] = NoStream
      /\ \A r \in Proc : r # q => /\ m_mode'[r] = m_mode[r] /\ directory'[r] = directory[r]
                                  /\ position'[r] = position[r] /\ stream'[r] = stream[r]
  BY <1>1, <1>2
<1>4. NewWriters = {}
  BY <1>3 DEF NewWriters
<1>5. disturbed \in [Proc -> BOOLEAN] /\ \A r \in Proc : disturbed[r] => m_mode[r] # "closed"
  BY DEF DInv, History
<1>6. ASSUME NEW r \in Proc
      PROVE  (m_mode'[r] # "closed" /\ m_mode[r] # "closed" /\ (disturbed[r] \/ NewWriters # {}))
               = IF r = q THEN FALSE ELSE disturbed[r]
  <2>1. CASE r = q
    BY <1>3, <2>1
  <2>2. CASE r # q /\ disturbed[r] = TRUE
    BY <1>3, <1>5, <2>2
  <2>3. CASE r # q /\ disturbed[r] = FALSE
    BY <1>4, <2>3
  <2>4. disturbed[r] = TRUE \/ disturbed[r] = FALSE
    BY <1>5
  <2>. QED
    BY <2>1, <2>2, <2>3, <2>4
<1>7. disturbed' = [r \in Proc |-> IF r = q THEN FALSE ELSE disturbed[r]]
  BY <1>6 DEF Watched
<1>8. disturbed' = [disturbed EXCEPT ![q] = FALSE] /\ \A r \in Proc : r # q => disturbed'[r] = disturbed[r]
  BY <1>5, <1>7
<1>9. working' = [working EXCEPT ![q] = D!Empty]
  <2>1. working = [r \in Proc |-> Holding(directory[r])]
    BY WorkingIs
  <2>2. working' = [r \in Proc |-> Holding(directory'[r])]
    BY WorkingBecomes
  <2>3. \A r \in Proc : Holding(directory'[r]) = IF r = q THEN D!Empty ELSE Holding(directory[r])
    BY <1>3, HoldingNothing
  <2>. QED
    BY <2>1, <2>2, <2>3
<1>10. History'
  <2>1. disturbed' \in [Proc -> BOOLEAN] /\ disturbed'[q] = FALSE
    BY <1>5, <1>8
  <2>2. \A r \in Proc : disturbed'[r] => m_mode'[r] # "closed"
    BY <1>3, <1>5, <1>8, <2>1
  <2>. QED
    BY <2>1, <2>2 DEF History
<1>11. \A r \in Proc : Writes(r)' => r # q /\ Writes(r)
  BY <1>3 DEF Writes
<1>12. Buffers'
  <2>1. \A r \in Proc : r # q => Writes(r)' = Writes(r)
    BY <1>3 DEF Writes
  <2>2. ASSUME NEW r \in Proc, ~Writes(r)'
        PROVE  stream'[r] = NoStream
    BY <1>3, <2>1, <2>2 DEF DInv, Buffers
  <2>. QED
    BY <2>2 DEF Buffers
<1>13. Closed'
  BY <1>3 DEF DInv, Closed
<1>14. Readers'
  <2>1. ASSUME NEW r \in Proc, m_mode'[r] = "Read"
        PROVE  r # q /\ m_mode[r] = "Read" /\ directory'[r] = directory[r] /\ position'[r] = position[r]
    BY <1>3, <2>1
  <2>. QED
    BY <2>1 DEF DInv, Readers
<1>15. Alone'
  BY <1>11 DEF DInv, Alone
<1>. QED
  BY <1>1, <1>3, <1>8, <1>9, <1>10, <1>12, <1>13, <1>14, <1>15

\* A reader goes.
LEMMA ReaderForgets ==
    ASSUME IInv, IInv', DInv, Watched, NEW q \in Proc, NEW x, m_mode[q] # "closed", Forget(q, x),
           ~Writes(q), disk' = disk
    PROVE  DInv' /\ found' = found
<1>1. /\ m_mode'[q] = "closed"
      /\ \A r \in Proc : r # q => /\ m_mode'[r] = m_mode[r] /\ directory'[r] = directory[r]
                                  /\ position'[r] = position[r] /\ stream'[r] = stream[r]
                                  /\ disturbed'[r] = disturbed[r]
      /\ History' /\ Buffers' /\ Closed' /\ Readers' /\ Alone'
  BY Forgotten
<1>2. found' = found /\ Observed'
  BY DEF Watched, DInv, Observed
<1>3. \A r \in Proc : Writes(r)' = Writes(r)
  BY <1>1 DEF Writes
<1>4. \A r \in Proc : Undisturbed(r)' => Undisturbed(r) /\ directory'[r] = directory[r]
  BY <1>1 DEF Undisturbed
<1>5. Idle'
  BY <1>3, <1>4 DEF DInv, Idle, HasThose
<1>6. ASSUME NEW r \in Proc, Writes(r), NEW g \in Seq(Cell), NEW o \in Nat, NEW d \in Seq(Entry), Editor(r, g, o, d)
      PROVE  Editor(r, g, o, d)'
  <2>1. r # q
    BY <1>6
  <2>2. stream'[r] = stream[r] /\ directory'[r] = directory[r] /\ position'[r] = position[r]
    BY <1>1, <2>1
  <2>3. Flushed(r)' = Flushed(r)
    BY <2>2 DEF Flushed
  <2>. QED
    BY <1>4, <1>6, <2>2, <2>3 DEF Editor, Streaming, HasThose
<1>7. Editing'
  <2>1. \A r \in Proc : Writes(r) => \E g \in Seq(Cell), o \in Nat, d \in Seq(Entry) : Editor(r, g, o, d)'
    BY <1>6 DEF DInv, Editing
  <2>. QED
    BY <1>3, <2>1 DEF Editing
<1>. QED
  BY <1>1, <1>2, <1>5, <1>7 DEF DInv

LEMMA FloorAbove ==
    ASSUME NEW f \in Seq(Cell), NEW o \in Nat, o <= Len(f), Opens(f) => StartOf(f) >= o
    PROVE  Floor(f) \in Nat /\ o <= Floor(f)
<1>1. CASE Opens(f) /\ IsZip64(f)
  <2>1. StartOf(f) \in Nat /\ StartOf(f) >= o
    BY <1>1, OpenedIsDirectory
  <2>. QED
    BY <1>1, <2>1 DEF Floor
<1>2. CASE ~(Opens(f) /\ IsZip64(f))
  BY <1>2 DEF Floor
<1>. QED
  BY <1>1, <1>2

\* An editor goes, and leaves what was before what it edited.
LEMMA EditorForgets ==
    ASSUME IInv, IInv', DInv, Watched, NEW q \in Proc, NEW x, m_mode[q] # "closed", Forget(q, x), Writes(q),
           NEW g \in Seq(Cell), NEW o \in Nat, NEW d \in Seq(Entry), Editor(q, g, o, d),
           Sound(disk'), o <= Len(disk'), o <= Len(disk), \A i \in 1..o : disk'[i] = disk[i],
           Opens(disk') => StartOf(disk') >= o
    PROVE  DInv' /\ found' = FoundIn(disk')
<1>1. /\ m_mode'[q] = "closed"
      /\ \A r \in Proc : r # q => /\ m_mode'[r] = m_mode[r] /\ directory'[r] = directory[r]
                                  /\ position'[r] = position[r] /\ stream'[r] = stream[r]
                                  /\ disturbed'[r] = disturbed[r]
      /\ History' /\ Buffers' /\ Closed' /\ Readers' /\ Alone'
  BY Forgotten
<1>2. found' = FoundIn(disk')
  BY FoundIsOfDisk
<1>3. Observed'
  BY <1>2 DEF Observed
<1>4. \A r \in Proc : ~Writes(r)'
  BY <1>1 DEF DInv, Alone, Writes
<1>5. Editing'
  BY <1>4 DEF Editing
<1>6. disk \in Seq(Cell) /\ disk' \in Seq(Cell) /\ directory \in [Proc -> Seq(Entry)]
  BY DEF IInv, TypeOK
<1>7. Floor(disk') \in Nat /\ o <= Floor(disk')
  BY <1>6, FloorAbove
<1>8. ASSUME NEW r \in Proc, Undisturbed(r)'
      PROVE  HasThose(r, disk, Floor(disk))'
  <2>1. r # q /\ Undisturbed(r) /\ directory'[r] = directory[r]
    BY <1>1, <1>8 DEF Undisturbed
  <2>2. HasThose(r, disk, o)
    BY <2>1 DEF Editor
  <2>3. ASSUME NEW i \in DOMAIN directory[r]
        PROVE  Recorded(disk', directory[r][i], Floor(disk'))
    <3>1. directory[r][i] \in Entry /\ Recorded(disk, directory[r][i], o)
      <4>1. directory[r] \in Seq(Entry)
        BY <1>6
      <4>. HIDE DEF Entry
      <4>. QED
        BY <2>2, <4>1 DEF HasThose
    <3>2. Recorded(disk', directory[r][i], o)
      BY <1>6, <3>1, RecordedSame
    <3>. QED
      BY <1>7, <3>1, <3>2, RecordedMore
  <2>4. Floor(disk)' = Floor(disk')
    BY DEF Floor
  <2>. QED
    BY <2>1, <2>3, <2>4 DEF HasThose
<1>9. Idle'
  BY <1>8 DEF Idle
<1>. QED
  BY <1>1, <1>2, <1>3, <1>5, <1>9 DEF DInv

\* Neither what was written behind the records nor the directory disturbs them.
LEMMA PartlyKeeps ==
    ASSUME NEW v \in Seq(Cell), NEW w \in Seq(Entry), NEW o2 \in Nat, NEW h \in Seq(Cell), NEW o \in Nat,
           o2 \in o..Len(v), o <= Len(h), Kin(v, h, o)
    PROVE  LET f == Partly(v, w, o2, Len(w) + 3)
           IN  o <= Len(f) /\ \A i \in 1..o : f[i] = h[i]
<1>. DEFINE n == Len(w) + 3
            f == Partly(v, w, o2, n)
            cells == DirectoryCells(w, o2)
<1>1. n \in Nat /\ n \in 0..n /\ Len(v) \in Nat /\ o2 <= Len(v) /\ o <= o2 /\ o <= Len(v)
  OBVIOUS
<1>2. /\ Len(f) = IF o2 + n <= Len(v) THEN Len(v) ELSE o2 + n
      /\ \A i \in 1..Len(f) : f[i] = IF o2 < i /\ i <= o2 + n THEN cells[i - o2] ELSE v[i]
  BY <1>1, PartlyCells
<1>. HIDE DEF f, n, cells
<1>3. o <= Len(f)
  BY <1>1, <1>2
<1>4. \A i \in 1..Len(v) : v[i] = h[i] \/ i > o
  BY DEF Kin
<1>5. \A i \in 1..o : i \in 1..Len(f) /\ i \in 1..Len(v) /\ ~(o2 < i) /\ ~(i > o)
  BY <1>1, <1>2, <1>3
<1>6. \A i \in 1..o : f[i] = h[i]
  BY <1>2, <1>4, <1>5
<1>. QED
  BY <1>3, <1>6 DEF f, n

LEMMA CloseMaps ==
    ASSUME IInv, IInv', DInv, Watched, NEW q \in Proc, Close(q)
    PROVE  DInv' /\ D!Close(q)
<1>1. /\ m_mode[q] # "closed"
      /\ disk' = IF Writes(q) THEN WithDirectory(q) ELSE disk
      /\ Forget(q, IF Writes(q) THEN Saved ELSE NoReply)
  BY DEF Close
<1>2. /\ disturbed' = [disturbed EXCEPT ![q] = FALSE]
      /\ working' = [working EXCEPT ![q] = D!Empty]
      /\ m_mode' = [m_mode EXCEPT ![q] = "closed"]
  BY <1>1, Forgotten
<1>3. Returns(q, <<"close">>, IF Writes(q) THEN Saved ELSE NoReply)
  BY <1>1 DEF Forget
<1>4. Writes(q) <=> D!Edits(q)
  BY DEF Writes, D!Edits
<1>5. CASE ~Writes(q)
  <2>1. DInv' /\ found' = found
    BY <1>1, <1>5, ReaderForgets
  <2>. QED
    BY <1>1, <1>2, <1>3, <1>4, <1>5, <2>1 DEF D!Close, D!End, D!Returns, Returns
<1>6. CASE Writes(q)
  <2>1. PICK g \in Seq(Cell), o \in Nat, d \in Seq(Entry) : Editor(q, g, o, d)
    BY <1>6, EditorPicked
  <2>2. /\ disk \in Seq(Cell) /\ o <= Len(disk)
        /\ Flushed(q) \in Seq(Cell) /\ Kin(Flushed(q), disk, o)
        /\ directory[q] \in Seq(Entry) /\ position[q] \in Nat /\ position[q] \in o..Len(Flushed(q))
        /\ Edited(Flushed(q), directory[q], position[q], g, o, d)
    BY <2>1, EditorKnows
  <2>3. disk' = Partly(Flushed(q), directory[q], position[q], Len(directory[q]) + 3)
    <3>1. Len(DirectoryCells(directory[q], position[q])) = Len(directory[q]) + 3
      BY <2>2, DirectoryIsCells
    <3>. QED
      BY <1>1, <1>6, <3>1 DEF WithDirectory, Finalized, Partly
  <2>4. disk' \in Seq(Cell) /\ IsSaved(disk', position[q], directory[q])
    BY <2>2, <2>3, AllOfIt
  <2>5. Sound(disk') /\ StartOf(disk') = position[q] /\ FoundIn(disk') = Holding(directory[q])
    BY <2>2, <2>4, SavedFound
  <2>6. o <= Len(disk') /\ \A i \in 1..o : disk'[i] = disk[i]
    BY <2>2, <2>3, PartlyKeeps
  <2>7. StartOf(disk') >= o
    BY <2>2, <2>5
  <2>8. DInv' /\ found' = FoundIn(disk')
    BY <1>1, <1>6, <2>1, <2>2, <2>5, <2>6, <2>7, EditorForgets
  <2>9. found' = working[q]
    BY <2>5, <2>8, WorkingIs
  <2>. QED
    BY <1>1, <1>2, <1>3, <1>4, <1>6, <2>8, <2>9 DEF D!Close, D!End, D!Returns, Returns
<1>. QED
  BY <1>5, <1>6

\* What an editor leaves when it goes without having closed the archive.
LEMMA LoseMaps ==
    ASSUME IInv, IInv', DInv, Watched, NEW q \in Proc, Writes(q), Forget(q, NoReply),
           NEW g \in Seq(Cell), NEW o \in Nat, NEW d \in Seq(Entry), Editor(q, g, o, d),
           Sound(disk'), o <= Len(disk'), o <= Len(disk), \A i \in 1..o : disk'[i] = disk[i],
           Opens(disk') => StartOf(disk') >= o,
           FoundIn(disk') \in {found, Unreadable, working[q]}
    PROVE  DInv' /\ D!Lose(q)
<1>1. m_mode[q] # "closed" /\ D!Edits(q)
  BY DEF Writes, D!Edits
<1>2. /\ disturbed' = [disturbed EXCEPT ![q] = FALSE]
      /\ working' = [working EXCEPT ![q] = D!Empty]
      /\ m_mode' = [m_mode EXCEPT ![q] = "closed"]
  BY <1>1, Forgotten
<1>3. DInv' /\ found' = FoundIn(disk')
  BY <1>1, EditorForgets
<1>4. Returns(q, <<"close">>, NoReply)
  BY DEF Forget
<1>. QED
  BY <1>1, <1>2, <1>3, <1>4 DEF D!Lose, D!End, D!Returns, Returns

\* The same when it was only records that it still wrote, or nothing.
LEMMA LoseAfterKin ==
    ASSUME IInv, IInv', DInv, Watched, NEW q \in Proc, Writes(q), Forget(q, NoReply),
           NEW g \in Seq(Cell), NEW o \in Nat, NEW d \in Seq(Entry), Editor(q, g, o, d),
           Kin(disk', disk, o)
    PROVE  DInv' /\ D!Lose(q)
<1>1. /\ disk \in Seq(Cell) /\ disk' \in Seq(Cell) /\ o <= Len(disk)
      /\ Editable(g, o, d) /\ Kin(disk, g, o) /\ found = FoundIn(disk)
  BY EditorKnows DEF IInv, TypeOK, Editor, Edited, DInv, Observed
<1>2. Kin(disk', g, o) /\ FoundIn(disk') \in {found, Unreadable}
  BY <1>1, EditedFades
<1>3. Sound(disk') /\ o <= Len(disk') /\ (Opens(disk') => StartOf(disk') = o)
  BY <1>1, <1>2, EditedFound
<1>4. \A i \in 1..o : disk'[i] = disk[i]
  <2>1. \A i \in 1..o : i \in 1..Len(disk') /\ ~(i > o)
    BY <1>1, <1>3
  <2>. QED
    BY <2>1 DEF Kin
<1>5. Opens(disk') => StartOf(disk') >= o
  BY <1>3
<1>. QED
  BY <1>1, <1>2, <1>3, <1>4, <1>5, LoseMaps

LEMMA CloseFailsMaps ==
    ASSUME IInv, IInv', DInv, Watched, NEW q \in Proc, CloseFails(q)
    PROVE  DInv' /\ D!Lose(q)
<1>1. Writes(q) /\ Forget(q, NoReply)
  BY DEF CloseFails
<1>2. PICK g \in Seq(Cell), o \in Nat, d \in Seq(Entry) : Editor(q, g, o, d)
  BY <1>1, EditorPicked
<1>3. /\ disk \in Seq(Cell) /\ o <= Len(disk) /\ Streaming(q, o)
      /\ Flushed(q) \in Seq(Cell) /\ Kin(Flushed(q), disk, o)
      /\ directory[q] \in Seq(Entry) /\ position[q] \in Nat /\ position[q] \in o..Len(Flushed(q))
      /\ Edited(Flushed(q), directory[q], position[q], g, o, d)
  BY <1>2, EditorKnows
<1>4. TypeOK
  BY DEF IInv
<1>5. ASSUME NEW k \in 0..Len(stream[q].cells), disk' = Overlay(disk, stream[q].at, SubSeq(stream[q].cells, 1, k))
      PROVE  DInv' /\ D!Lose(q)
  <2>. DEFINE c == stream[q].cells
              s == SubSeq(c, 1, k)
  <2>1. c \in Seq(Cell) /\ Len(c) \in Nat
    BY <1>4, StreamOf
  <2>2. \A i \in 1..Len(c) : c[i] \in Data
    BY <1>3 DEF Streaming
  <2>3. k \in 0..Len(c)
    OBVIOUS
  <2>4. c # <<>> => stream[q].at \in o..Len(disk)
    BY <1>3 DEF Streaming
  <2>. HIDE DEF c
  <2>5. s \in Seq(Cell) /\ Len(s) = k /\ \A i \in 1..k : s[i] = c[i]
    BY <2>1, <2>3, Prefix
  <2>6. \A i \in 1..k : i \in 1..Len(c)
    BY <2>1, <2>3
  <2>7. disk' = Overlay(disk, stream[q].at, s)
    BY <1>5 DEF c
  <2>. HIDE DEF s
  <2>8. \A i \in 1..Len(s) : s[i] \in Data
    BY <2>2, <2>5, <2>6
  <2>9. Kin(disk', disk, o)
    <3>1. CASE c = <<>>
      <4>1. Len(s) = 0
        BY <2>3, <2>5, <3>1
      <4>2. s = <<>>
        BY <2>5, <4>1
      <4>3. disk' = disk
        BY <2>7, <4>2, NothingFlushed
      <4>. QED
        BY <1>3, <4>3, KinItself
    <3>2. CASE c # <<>>
      BY <1>3, <2>4, <2>5, <2>7, <2>8, <3>2, KinOverlay
    <3>. QED
      BY <3>1, <3>2
  <2>. QED
    BY <1>1, <1>2, <2>9, LoseAfterKin
<1>6. ASSUME NEW n \in 0..Len(directory[q]) + 2, disk' = Finalized(q, n)
      PROVE  DInv' /\ D!Lose(q)
  <2>1. disk' = Partly(Flushed(q), directory[q], position[q], n)
    BY <1>6 DEF Finalized, Partly
  <2>2. n \in 0..(Len(directory[q]) + 2)
    BY <1>6
  <2>3. Kin(disk, g, o)
    BY <1>2 DEF Editor
  <2>4. /\ Sound(disk') /\ o <= Len(disk') /\ o <= Len(disk)
        /\ \A i \in 1..o : disk'[i] = disk[i]
        /\ Opens(disk') => StartOf(disk') = o
        /\ FoundIn(disk') \in {FoundIn(disk), Unreadable, Holding(directory[q])}
    <3>. DEFINE v == Flushed(q)
                w == directory[q]
                p == position[q]
    <3>1. /\ v \in Seq(Cell) /\ w \in Seq(Entry) /\ p \in Nat /\ n \in 0..(Len(w) + 2)
          /\ Edited(v, w, p, g, o, d) /\ Kin(v, disk, o) /\ disk \in Seq(Cell)
          /\ disk' = Partly(v, w, p, n)
      BY <1>3, <2>1, <2>2
    <3>. HIDE DEF v, w, p
    <3>2. LET f == Partly(v, w, p, n)
          IN  /\ f \in Seq(Cell) /\ Sound(f) /\ o <= Len(f) /\ o <= Len(disk)
              /\ \A i \in 1..o : f[i] = disk[i]
              /\ Opens(f) => StartOf(f) = o
              /\ FoundIn(f) \in {FoundIn(disk), Unreadable, Holding(w)}
      BY <2>3, <3>1, PartOfIt, Zenon
    <3>. QED
      BY <3>1, <3>2, Zenon DEF w
  <2>5. FoundIn(disk) = found /\ Holding(directory[q]) = working[q]
    BY WorkingIs DEF DInv, Observed
  <2>6. Opens(disk') => StartOf(disk') >= o
    BY <2>4
  <2>. QED
    BY <1>1, <1>2, <2>4, <2>5, <2>6, LoseMaps
<1>. QED
  BY <1>5, <1>6 DEF CloseFails

LEMMA DieMaps ==
    ASSUME IInv, IInv', DInv, Watched, NEW q \in Proc, Die(q)
    PROVE  DInv' /\ (D!Lose(q) \/ D!Close(q))
<1>1. m_mode[q] # "closed" /\ disk' = disk /\ Forget(q, NoReply)
  BY DEF Die
<1>2. disk \in Seq(Cell)
  BY DEF IInv, TypeOK
<1>3. CASE Writes(q)
  <2>1. PICK g \in Seq(Cell), o \in Nat, d \in Seq(Entry) : Editor(q, g, o, d)
    BY <1>3, EditorPicked
  <2>2. Kin(disk', disk, o)
    BY <1>1, <1>2, KinItself
  <2>. QED
    BY <1>1, <1>3, <2>1, <2>2, LoseAfterKin
<1>4. CASE ~Writes(q)
  <2>1. DInv' /\ found' = found
    BY <1>1, <1>4, ReaderForgets
  <2>2. /\ disturbed' = [disturbed EXCEPT ![q] = FALSE]
        /\ working' = [working EXCEPT ![q] = D!Empty]
        /\ m_mode' = [m_mode EXCEPT ![q] = "closed"]
    BY <1>1, Forgotten
  <2>3. ~D!Edits(q) /\ Returns(q, <<"close">>, NoReply)
    BY <1>1, <1>4 DEF Forget, Writes, D!Edits
  <2>. QED
    BY <1>1, <2>1, <2>2, <2>3 DEF D!Close, D!End, D!Returns, Returns
<1>. QED
  BY <1>3, <1>4

-----------------------------------------------------------------------------
(* The constructor *)

\* What the constructor makes of process q, that had no archive open.
LEMMA OpenedKeeps ==
    ASSUME IInv, IInv', DInv, Watched, NEW q \in Proc, NEW mode \in {"Read", "Write", "Append"},
           NEW d \in Seq(Entry), NEW o \in Nat, m_mode[q] = "closed", Opened(q, mode, d, o),
           mode # "Read" => \A r \in Proc : ~Writes(r),
           mode = "Read" => \A i \in DOMAIN d : d[i].ofs + 1 + Len(d[i].content) <= o
    PROVE  /\ working' = [working EXCEPT ![q] = Holding(d)]
           /\ m_mode' = [m_mode EXCEPT ![q] = mode] /\ m_mode'[q] = mode
           /\ directory'[q] = d /\ position'[q] = o /\ stream'[q] = NoStream /\ stream' = stream
           /\ \A r \in Proc : r # q => /\ m_mode'[r] = m_mode[r] /\ directory'[r] = directory[r]
                                       /\ position'[r] = position[r]
           /\ mode # "Write" => disturbed' = disturbed
           /\ mode = "Write" => disturbed' = [r \in Proc |-> m_mode[r] # "closed"]
           /\ History' /\ Buffers' /\ Closed' /\ Readers' /\ Alone'
<1>1. /\ m_mode' = [m_mode EXCEPT ![q] = mode]
      /\ directory' = [directory EXCEPT ![q] = d]
      /\ position' = [position EXCEPT ![q] = o]
      /\ stream' = stream
  BY DEF Opened
<1>2. /\ m_mode \in [Proc -> {"closed", "Read", "Write", "Append"}]
      /\ directory \in [Proc -> Seq(Entry)] /\ position \in [Proc -> Nat]
  BY DEF IInv, TypeOK
<1>3. /\ m_mode'[q] = mode /\ directory'[q] = d /\ position'[q] = o
      /\ \A r \in Proc : r # q => /\ m_mode'[r] = m_mode[r] /\ directory'[r] = directory[r]
                                  /\ position'[r] = position[r]
  BY <1>1, <1>2
<1>4. ~Writes(q) /\ stream[q] = NoStream
  BY DEF DInv, Buffers, Writes
<1>5. disturbed \in [Proc -> BOOLEAN] /\ \A r \in Proc : disturbed[r] => m_mode[r] # "closed"
  BY DEF DInv, History
<1>6. mode # "Write" => disturbed' = disturbed
  <2>1. SUFFICES ASSUME mode # "Write" PROVE disturbed' = disturbed
    OBVIOUS
  <2>2. NewWriters = {}
    BY <1>3, <2>1 DEF NewWriters
  <2>3. ASSUME NEW r \in Proc
        PROVE  (m_mode'[r] # "closed" /\ m_mode[r] # "closed" /\ (disturbed[r] \/ NewWriters # {})) = disturbed[r]
    <3>1. CASE disturbed[r] = TRUE
      BY <1>3, <1>5, <3>1
    <3>2. CASE disturbed[r] = FALSE
      BY <2>2, <3>2
    <3>. QED
      BY <1>5, <3>1, <3>2
  <2>4. disturbed' = [r \in Proc |-> disturbed[r]]
    BY <2>3 DEF Watched
  <2>. QED
    BY <1>5, <2>4
<1>7. mode = "Write" => disturbed' = [r \in Proc |-> m_mode[r] # "closed"]
  <2>1. SUFFICES ASSUME mode = "Write" PROVE disturbed' = [r \in Proc |-> m_mode[r] # "closed"]
    OBVIOUS
  <2>2. NewWriters # {}
    BY <1>3, <2>1 DEF NewWriters
  <2>3. ASSUME NEW r \in Proc
        PROVE  (m_mode'[r] # "closed" /\ m_mode[r] # "closed" /\ (disturbed[r] \/ NewWriters # {}))
                 = (m_mode[r] # "closed")
    BY <1>3, <2>2
  <2>. QED
    BY <2>3 DEF Watched
<1>8. working' = [working EXCEPT ![q] = Holding(d)]
  <2>1. working = [r \in Proc |-> Holding(directory[r])]
    BY WorkingIs
  <2>2. working' = [r \in Proc |-> Holding(directory'[r])]
    BY WorkingBecomes
  <2>3. \A r \in Proc : Holding(directory'[r]) = IF r = q THEN Holding(d) ELSE Holding(directory[r])
    BY <1>3
  <2>. QED
    BY <2>1, <2>2, <2>3
<1>9. History'
  <2>1. disturbed' \in [Proc -> BOOLEAN]
    BY <1>5, <1>6, <1>7
  <2>2. \A r \in Proc : disturbed'[r] => m_mode'[r] # "closed"
    BY DEF Watched
  <2>. QED
    BY <2>1, <2>2 DEF History
<1>10. \A r \in Proc : r # q => Writes(r)' = Writes(r)
  BY <1>3 DEF Writes
<1>11. Buffers'
  <2>1. ASSUME NEW r \in Proc, ~Writes(r)'
        PROVE  stream'[r] = NoStream
    <3>1. ~Writes(r)
      BY <1>4, <1>10, <2>1
    <3>. QED
      BY <1>1, <3>1 DEF DInv, Buffers
  <2>. QED
    BY <2>1 DEF Buffers
<1>12. Closed'
  <2>1. ASSUME NEW r \in Proc, m_mode'[r] = "closed"
        PROVE  directory'[r] = <<>>
    BY <1>3, <2>1 DEF DInv, Closed
  <2>. QED
    BY <2>1 DEF Closed
<1>13. Readers'
  <2>1. ASSUME NEW r \in Proc, m_mode'[r] = "Read", NEW i \in DOMAIN directory'[r]
        PROVE  directory'[r][i].ofs + 1 + Len(directory'[r][i].content) <= position'[r]
    <3>1. CASE r = q
      BY <1>3, <2>1, <3>1
    <3>2. CASE r # q
      BY <1>3, <2>1, <3>2 DEF DInv, Readers
    <3>. QED
      BY <3>1, <3>2
  <2>. QED
    BY <2>1 DEF Readers
<1>14. Alone'
  <2>1. CASE mode = "Read"
    <3>1. ~Writes(q)'
      BY <1>3, <2>1 DEF Writes
    <3>. QED
      BY <1>10, <3>1 DEF DInv, Alone
  <2>2. CASE mode # "Read"
    BY <1>10, <2>2 DEF Alone
  <2>. QED
    BY <2>1, <2>2
<1>. QED
  BY <1>1, <1>3, <1>4, <1>6, <1>7, <1>8, <1>9, <1>11, <1>12, <1>13, <1>14

\* The process becomes the only editor.
LEMMA EditorOpens ==
    ASSUME IInv, IInv', NEW q \in Proc, \A r \in Proc : r # q => ~Writes(r)', Writes(q)',
           found' = FoundIn(disk'), stream'[q] = NoStream, NEW g \in Seq(Cell), disk' = g,
           NEW o \in Nat, NEW d \in Seq(Entry), directory'[q] = d, position'[q] = o,
           Editable(g, o, d),
           \A r \in Proc : Undisturbed(r)' => HasThose(r, disk, o)',
           History', Buffers', Closed', Readers', Alone'
    PROVE  DInv'
<1>2. Kin(g, g, o)
  BY KinItself
<1>3. Observed'
  <2>1. Sound(g)
    BY <1>2, EditedFound
  <2>. QED
    BY <2>1 DEF Observed
<1>4. Flushed(q)' = g /\ Streaming(q, o)'
  <2>1. stream'[q].at = 0 /\ stream'[q].cells = <<>>
    BY DEF NoStream
  <2>2. Overlay(disk', stream'[q].at, stream'[q].cells) = g
    BY <2>1, NothingFlushed
  <2>. QED
    BY <2>1, <2>2 DEF Flushed, Streaming
<1>5. /\ d = <<>> => o = 0
      /\ o <= Len(g) /\ Len(g) - (o + Len(d) + 3) < Reach
      /\ \A i \in DOMAIN d : Recorded(g, d[i], o)
  <2>1. CASE g = <<>> /\ o = 0 /\ d = <<>>
    BY <2>1, ZipAssumption
  <2>2. CASE IsSaved(g, o, d)
    <3>1. o + Len(d) + 3 <= Len(g)
      BY <2>2, SavedCells
    <3>2. o <= Len(g)
      BY <3>1
    <3>. QED
      BY <2>2, <3>2 DEF IsSaved
  <2>. QED
    BY <2>1, <2>2 DEF Editable
<1>6. Edited(g, d, o, g, o, d)
  <2>1. (o + 1)..o = {}
    OBVIOUS
  <2>. QED
    BY <1>2, <1>5, <2>1 DEF Edited
<1>7. Editor(q, g, o, d)'
  <2>1. Edited(Flushed(q)', directory'[q], position'[q], g, o, d)
    BY <1>4, <1>6
  <2>2. Edited(Flushed(q), directory[q], position[q], g, o, d)'
    BY <2>1
  <2>. QED
    BY <1>2, <1>4, <2>2 DEF Editor
<1>8. Editing'
  <2>1. (\E g1 \in Seq(Cell), o1 \in Nat, d1 \in Seq(Entry) : Editor(q, g1, o1, d1))'
    BY <1>7
  <2>. QED
    BY <2>1 DEF Editing
<1>9. Idle'
  BY DEF Idle
<1>. QED
  BY <1>3, <1>8, <1>9 DEF DInv

LEMMA OpenWriteMaps ==
    ASSUME OneWriter, IInv, IInv', DInv, Watched, NEW q \in Proc, OpenWrite(q)
    PROVE  DInv' /\ D!OpenWrite(q)
<1>1. m_mode[q] = "closed" /\ disk' = <<>> /\ Opened(q, "Write", <<>>, 0) /\ \A r \in Proc : ~Writes(r)
  BY DEF OpenWrite, MayWrite
<1>2. <<>> \in Seq(Entry) /\ <<>> \in Seq(Cell)
  BY Lists
<1>3. /\ working' = [working EXCEPT ![q] = Holding(<<>>)]
      /\ m_mode' = [m_mode EXCEPT ![q] = "Write"] /\ m_mode'[q] = "Write"
      /\ directory'[q] = <<>> /\ position'[q] = 0 /\ stream'[q] = NoStream
      /\ \A r \in Proc : r # q => m_mode'[r] = m_mode[r]
      /\ disturbed' = [r \in Proc |-> m_mode[r] # "closed"]
      /\ History' /\ Buffers' /\ Closed' /\ Readers' /\ Alone'
  BY <1>1, <1>2, OpenedKeeps
<1>4. found' = FoundIn(disk') /\ found' = Unreadable
  <2>1. \A i \in 1..Len(disk') : disk'[i] \notin End
    BY <1>1
  <2>2. disk' \in Seq(Cell)
    BY DEF IInv, TypeOK
  <2>. QED
    BY <2>1, <2>2, NothingFound, FoundIsOfDisk
<1>5. Writes(q)' /\ \A r \in Proc : r # q => ~Writes(r)'
  BY <1>1, <1>3 DEF Writes
<1>6. \A r \in Proc : ~Undisturbed(r)'
  BY <1>3 DEF Undisturbed
<1>7. Editable(<<>>, 0, <<>>)
  BY DEF Editable
<1>8. DInv'
  <2>1. PICK g \in Seq(Cell), o \in Nat, d \in Seq(Entry) : g = <<>> /\ o = 0 /\ d = <<>>
    BY <1>2
  <2>2. disk' = g /\ directory'[q] = d /\ position'[q] = o /\ Editable(g, o, d)
    BY <1>1, <1>3, <1>7, <2>1
  <2>. QED
    BY <1>3, <1>4, <1>5, <1>6, <2>2, EditorOpens
<1>9. D!NobodyEdits
  BY <1>1 DEF D!NobodyEdits, D!Edits, Writes
<1>10. Returns(q, <<"open">>, NoReply)
  BY <1>1 DEF Opened
<1>. QED
  BY <1>1, <1>3, <1>4, <1>8, <1>9, <1>10, HoldingNothing DEF D!OpenWrite, D!Returns, Returns

LEMMA OpenAppendMaps ==
    ASSUME OneWriter, IInv, IInv', DInv, Watched, NEW q \in Proc, OpenAppend(q)
    PROVE  DInv' /\ D!Open(q, "Append")
<1>1. /\ m_mode[q] = "closed" /\ disk' = disk /\ Opens(disk) /\ IsZip64(disk)
      /\ Opened(q, "Append", DirectoryOf(disk), StartOf(disk)) /\ \A r \in Proc : ~Writes(r)
  BY DEF OpenAppend, MayWrite, AppendAt
<1>2. PICK g \in Seq(Cell), o \in Nat, d \in Seq(Entry) : disk = g /\ StartOf(disk) = o /\ DirectoryOf(disk) = d
  BY <1>1, OpenedIsDirectory DEF IInv, TypeOK
<1>3. IsSaved(g, o, d) /\ Floor(disk) = o
  BY <1>1, <1>2 DEF DInv, Observed, Sound, Floor
<1>4. found = Holding(d) /\ found # Unreadable
  BY <1>1, <1>2, SoundFound DEF DInv, Observed
<1>5. /\ working' = [working EXCEPT ![q] = Holding(d)]
      /\ m_mode' = [m_mode EXCEPT ![q] = "Append"] /\ m_mode'[q] = "Append"
      /\ directory'[q] = d /\ position'[q] = o /\ stream'[q] = NoStream
      /\ \A r \in Proc : r # q => m_mode'[r] = m_mode[r] /\ directory'[r] = directory[r]
      /\ disturbed' = disturbed
      /\ History' /\ Buffers' /\ Closed' /\ Readers' /\ Alone'
  BY <1>1, <1>2, OpenedKeeps
<1>6. found' = FoundIn(disk') /\ found' = found
  BY <1>1, FoundIsOfDisk DEF Watched
<1>7. Writes(q)' /\ \A r \in Proc : r # q => ~Writes(r)'
  BY <1>1, <1>5 DEF Writes
<1>8. ASSUME NEW r \in Proc, Undisturbed(r)'
      PROVE  HasThose(r, disk, o)'
  <2>1. r # q /\ Undisturbed(r) /\ directory'[r] = directory[r]
    BY <1>5, <1>8 DEF Undisturbed
  <2>2. HasThose(r, disk, o)
    BY <1>1, <1>3, <2>1 DEF DInv, Idle
  <2>. QED
    BY <1>1, <2>1, <2>2 DEF HasThose
<1>9. Editable(g, o, d)
  BY <1>3 DEF Editable
<1>10. DInv'
  BY <1>1, <1>2, <1>5, <1>6, <1>7, <1>8, <1>9, EditorOpens
<1>11. D!NobodyEdits
  BY <1>1 DEF D!NobodyEdits, D!Edits, Writes
<1>12. Returns(q, <<"open">>, NoReply)
  BY <1>1 DEF Opened
<1>. QED
  BY <1>1, <1>4, <1>5, <1>6, <1>10, <1>11, <1>12 DEF D!Open, D!Returns, Returns

LEMMA OpenReadMaps ==
    ASSUME IInv, IInv', DInv, Watched, NEW q \in Proc, OpenRead(q)
    PROVE  DInv' /\ D!Open(q, "Read")
<1>1. /\ m_mode[q] = "closed" /\ disk' = disk /\ Opens(disk)
      /\ Opened(q, "Read", DirectoryOf(disk), Len(disk))
  BY DEF OpenRead
<1>2. disk \in Seq(Cell) /\ Len(disk) \in Nat /\ DirectoryOf(disk) \in Seq(Entry)
  <2>1. disk \in Seq(Cell)
    BY DEF IInv, TypeOK
  <2>2. Len(disk) \in Nat
    BY <2>1
  <2>. QED
    BY <1>1, <2>1, <2>2, OpenedIsDirectory
<1>3. PICK end \in Nat, d \in Seq(Entry) : Len(disk) = end /\ DirectoryOf(disk) = d
  BY <1>2, Zenon
<1>4. /\ found = Holding(d) /\ found # Unreadable
      /\ \A i \in DOMAIN d : Recorded(disk, d[i], Floor(disk))
  BY <1>1, <1>2, <1>3, SoundFound DEF DInv, Observed
<1>5. \A i \in DOMAIN d : d[i].ofs + 1 + Len(d[i].content) <= end
  BY <1>1, <1>3 DEF Opens
<1>6. /\ working' = [working EXCEPT ![q] = Holding(d)]
      /\ m_mode' = [m_mode EXCEPT ![q] = "Read"] /\ m_mode'[q] = "Read"
      /\ directory'[q] = d /\ stream' = stream
      /\ \A r \in Proc : r # q => /\ m_mode'[r] = m_mode[r] /\ directory'[r] = directory[r]
                                  /\ position'[r] = position[r]
      /\ disturbed' = disturbed
      /\ History' /\ Buffers' /\ Closed' /\ Readers' /\ Alone'
  BY <1>1, <1>3, <1>5, OpenedKeeps
<1>7. found' = found /\ Observed'
  BY <1>1 DEF Watched, DInv, Observed
<1>8. \A r \in Proc : Writes(r)' = Writes(r)
  <2>1. (m_mode[q] \in {"Write", "Append"}) = FALSE /\ (m_mode'[q] \in {"Write", "Append"}) = FALSE
    BY <1>1, <1>6
  <2>2. ASSUME NEW r \in Proc
        PROVE  Writes(r)' = Writes(r)
    <3>1. CASE r = q
      BY <2>1, <3>1 DEF Writes
    <3>2. CASE r # q
      BY <1>6, <3>2 DEF Writes
    <3>. QED
      BY <3>1, <3>2
  <2>. QED
    BY <2>2
<1>9. \A r \in Proc : Undisturbed(r)' => r = q \/ (Undisturbed(r) /\ directory'[r] = directory[r])
  BY <1>6 DEF Undisturbed
<1>10. Idle'
  <2>1. ASSUME \A r \in Proc : ~Writes(r), NEW r \in Proc, Undisturbed(r)'
        PROVE  HasThose(r, disk, Floor(disk))'
    <3>1. Floor(disk)' = Floor(disk)
      BY <1>1 DEF Floor
    <3>2. CASE r = q
      BY <1>1, <1>4, <1>6, <3>1, <3>2 DEF HasThose
    <3>3. CASE r # q
      BY <1>1, <1>9, <2>1, <3>1, <3>3 DEF HasThose, DInv, Idle
    <3>. QED
      BY <3>2, <3>3
  <2>. QED
    BY <1>8, <2>1 DEF Idle
<1>11. ASSUME NEW r \in Proc, Writes(r), NEW g \in Seq(Cell), NEW o \in Nat, NEW e \in Seq(Entry), Editor(r, g, o, e)
       PROVE  Editor(r, g, o, e)'
  <2>1. r # q
    BY <1>1, <1>11 DEF Writes
  <2>2. /\ Kin(disk, g, o) /\ Streaming(r, o) /\ Editable(g, o, e)
        /\ Edited(Flushed(r), directory[r], position[r], g, o, e)
        /\ \A p \in Proc : Undisturbed(p) => HasThose(p, disk, o)
    BY <1>11 DEF Editor, Edited
  <2>3. d = e /\ \A i \in DOMAIN e : Recorded(disk, e[i], o)
    BY <1>1, <1>2, <1>3, <2>2, EditedFound
  <2>4. Kin(disk, g, o)' /\ Streaming(r, o)'
    BY <1>1, <1>6, <2>2 DEF Streaming
  <2>5. Edited(Flushed(r), directory[r], position[r], g, o, e)'
    <3>1. Flushed(r)' = Flushed(r)
      BY <1>1, <1>6 DEF Flushed
    <3>2. Edited(Flushed(r)', directory'[r], position'[r], g, o, e)
      BY <1>6, <2>1, <2>2, <3>1
    <3>. QED
      BY <3>2
  <2>6. ASSUME NEW p \in Proc, Undisturbed(p)'
        PROVE  HasThose(p, disk, o)'
    <3>1. CASE p = q
      BY <1>1, <1>6, <2>3, <3>1 DEF HasThose
    <3>2. CASE p # q
      BY <1>1, <1>9, <2>2, <2>6, <3>2 DEF HasThose
    <3>. QED
      BY <3>1, <3>2
  <2>. QED
    BY <2>4, <2>5, <2>6 DEF Editor
<1>12. Editing'
  <2>1. \A r \in Proc : Writes(r) => \E g \in Seq(Cell), o \in Nat, e \in Seq(Entry) : Editor(r, g, o, e)'
    BY <1>11 DEF DInv, Editing
  <2>. QED
    BY <1>8, <2>1 DEF Editing
<1>13. DInv'
  BY <1>6, <1>7, <1>10, <1>12 DEF DInv
<1>14. Returns(q, <<"open">>, NoReply)
  BY <1>1 DEF Opened
<1>. QED
  BY <1>1, <1>4, <1>6, <1>7, <1>13, <1>14 DEF D!Open, D!Returns, Returns

-----------------------------------------------------------------------------
(* The document *)

LEMMA DocumentInit == ObservedInit => DInv /\ D!Init
<1>. SUFFICES ASSUME ObservedInit PROVE DInv /\ D!Init
  OBVIOUS
<1>1. /\ Init /\ found = FoundIn(disk) /\ disturbed = [q \in Proc |-> FALSE]
      /\ m_mode = [q \in Proc |-> "closed"] /\ directory = [q \in Proc |-> <<>>]
      /\ stream = [q \in Proc |-> NoStream]
      /\ reply \in [by : Proc, op : {<<"close">>}, value : {NoReply}]
  BY DEF ObservedInit, Init
<1>2. IInv
  BY <1>1, InitHolds
<1>3. disk \in Seq(Cell)
  BY <1>2 DEF IInv, TypeOK
<1>4. Sound(disk)
  <2>1. CASE disk = <<>>
    <3>1. \A i \in 1..Len(disk) : disk[i] \notin End
      BY <2>1
    <3>. QED
      BY <1>3, <3>1, NothingFound
  <2>2. CASE disk \in InitialFiles
    BY <2>2, FilesAssumption
  <2>. QED
    BY <1>1, <2>1, <2>2 DEF Init
<1>5. \A q \in Proc : m_mode[q] = "closed" /\ ~Writes(q)
  BY <1>1 DEF Writes
<1>6. Observed /\ History /\ Buffers /\ Closed /\ Readers /\ Alone /\ Editing
  BY <1>1, <1>4, <1>5 DEF Observed, History, Buffers, Closed, Readers, Alone, Editing
<1>7. Idle
  BY <1>5 DEF Idle, Undisturbed
<1>8. found \in D!Map \cup {Unreadable}
  <2>1. CASE Opens(disk)
    <3>1. found = Holding(DirectoryOf(disk)) /\ DirectoryOf(disk) \in Seq(Entry)
      BY <1>1, <1>3, <1>4, <2>1, SoundFound, OpenedIsDirectory
    <3>. QED
      BY <3>1, HoldingType
  <2>2. CASE ~Opens(disk)
    BY <1>1, <2>2 DEF FoundIn
  <2>. QED
    BY <2>1, <2>2
<1>9. working = [q \in Proc |-> D!Empty]
  <2>1. working = [q \in Proc |-> Holding(directory[q])]
    BY <1>2, WorkingIs
  <2>2. \A q \in Proc : Holding(directory[q]) = D!Empty
    BY <1>1, HoldingNothing
  <2>. QED
    BY <2>1, <2>2
<1>. QED
  BY <1>1, <1>6, <1>7, <1>8, <1>9 DEF DInv, D!Init

\* A process's step is a step of the document.
LEMMA StepMaps ==
    ASSUME OneWriter, Fails => \A c \in Content : Len(c) <= Reach,
           IInv, IInv', DInv, Watched, Next
    PROVE  DInv' /\ D!Next
<1>1. PICK q \in Proc :
        \/ OpenWrite(q) \/ OpenRead(q) \/ OpenAppend(q)
        \/ \E mode \in {"Read", "Append"} : OpenThrows(q, mode)
        \/ \E p \in Path, c \in Content : WritePtr(q, p, c) \/ WriteFails(q, p, c)
        \/ \E p \in Path : WriteThrows(q, p) \/ Read(q, p) \/ ReadMissing(q, p)
        \/ Close(q) \/ CloseFails(q) \/ Die(q)
  BY DEF Next
<1>2. CASE OpenWrite(q)
  BY <1>2, OpenWriteMaps DEF D!Next
<1>3. CASE OpenRead(q)
  BY <1>3, OpenReadMaps DEF D!Next
<1>4. CASE OpenAppend(q)
  BY <1>4, OpenAppendMaps DEF D!Next
<1>5. CASE \E mode \in {"Read", "Append"} : OpenThrows(q, mode)
  <2>1. /\ Returns(q, <<"open">>, Threw)
        /\ UNCHANGED <<disk, m_mode, directory, position, m_path_map, stream>>
    BY <1>5 DEF OpenThrows
  <2>2. DInv' /\ D!Refuse(q, <<"open">>)
    BY <2>1, ThrowsMap
  <2>. QED
    BY <2>2 DEF D!Next
<1>6. ASSUME NEW p \in Path, NEW c \in Content, WritePtr(q, p, c)
      PROVE  DInv' /\ D!Next
  BY <1>6, WriteMaps DEF D!Next
<1>7. ASSUME NEW p \in Path, NEW c \in Content, WriteFails(q, p, c)
      PROVE  DInv' /\ D!Next
  BY <1>7, WriteFailsMaps DEF D!Next
<1>8. ASSUME NEW p \in Path, WriteThrows(q, p)
      PROVE  DInv' /\ D!Next
  <2>1. /\ Returns(q, <<"write">>, Threw)
        /\ UNCHANGED <<disk, m_mode, directory, position, m_path_map, stream>>
    BY <1>8 DEF WriteThrows
  <2>2. DInv' /\ D!Refuse(q, <<"write">>)
    BY <2>1, ThrowsMap
  <2>. QED
    BY <2>2 DEF D!Next
<1>9. ASSUME NEW p \in Path, Read(q, p)
      PROVE  DInv' /\ D!Next
  BY <1>9, ReadMaps DEF D!Next
<1>10. ASSUME NEW p \in Path, ReadMissing(q, p)
       PROVE  DInv' /\ D!Next
  BY <1>10, ReadMissingMaps DEF D!Next
<1>11. CASE Close(q)
  BY <1>11, CloseMaps DEF D!Next
<1>12. CASE CloseFails(q)
  BY <1>12, CloseFailsMaps DEF D!Next
<1>13. CASE Die(q)
  BY <1>13, DieMaps DEF D!Next
<1>. QED
  BY <1>1, <1>2, <1>3, <1>4, <1>5, <1>6, <1>7, <1>8, <1>9, <1>10, <1>11, <1>12, <1>13

LEMMA DocumentNext ==
    ASSUME OneWriter, Fails => \A c \in Content : Len(c) <= Reach
    PROVE  IInv /\ IInv' /\ DInv /\ [ObservedNext]_<<vars, found, disturbed>>
             => DInv' /\ [D!Next]_<<found, m_mode, working, disturbed, reply>>
<1>. SUFFICES ASSUME IInv, IInv', DInv, [ObservedNext]_<<vars, found, disturbed>>
              PROVE  DInv' /\ [D!Next]_<<found, m_mode, working, disturbed, reply>>
  OBVIOUS
<1>1. CASE UNCHANGED <<vars, found, disturbed>>
  <2>1. Watched
    BY <1>1, StillDisturbed DEF Watched, vars
  <2>2. DInv' /\ UNCHANGED <<found, disturbed, working>>
    BY <1>1, <2>1, NothingMoves DEF vars
  <2>. QED
    BY <1>1, <2>2 DEF vars
<1>2. CASE ObservedNext
  <2>1. Next /\ Watched
    BY <1>2 DEF ObservedNext, Watched
  <2>. QED
    BY <2>1, StepMaps
<1>. QED
  BY <1>1, <1>2

LEMMA ObservedHolds == ObservedSpec => []IInv
<1>1. ObservedInit => IInv
  BY InitHolds DEF ObservedInit
<1>2. IInv /\ [ObservedNext]_<<vars, found, disturbed>> => IInv'
  <2>1. [ObservedNext]_<<vars, found, disturbed>> => [Next]_vars
    BY DEF ObservedNext
  <2>. QED
    BY <2>1, NextHolds
<1>. QED
  BY <1>1, <1>2, PTL DEF ObservedSpec

\* The zip file is a document: whatever the processes read, write, append, fail to write or
\* die in the middle of, a process that opens it finds all that was last saved, or what its
\* last editor had in memory, or nothing; never a part, never a mixture; and what a process
\* found stays readable until a Write mode opening takes it away (ZipArchive.cpp:26-112, 148,
\* 167-194).  One process at a time edits, and a record that fails in the middle leaves no
\* more behind the directory than an archive is searched for its end.
THEOREM DocumentImplemented ==
    ASSUME OneWriter, Fails => \A c \in Content : Len(c) <= Reach
    PROVE  ObservedSpec => ImplementsDocument
<1>1. ObservedSpec => []IInv
  BY ObservedHolds
<1>2. ObservedInit => DInv /\ D!Init
  BY DocumentInit
<1>3. IInv /\ IInv' /\ DInv /\ [ObservedNext]_<<vars, found, disturbed>>
        => DInv' /\ [D!Next]_<<found, m_mode, working, disturbed, reply>>
  BY DocumentNext
<1>. QED
  BY <1>1, <1>2, <1>3, PTL DEF ObservedSpec, ImplementsDocument, D!Spec, D!vars
=============================================================================
