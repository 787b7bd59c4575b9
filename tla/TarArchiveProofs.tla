--------------------------- MODULE TarArchiveProofs ---------------------------
(***************************************************************************)
(* What holds of the tar backend for every file in which no size has a     *)
(* minus sign, every path, content and length of history: the stream is    *)
(* where the index says, no write or crash touches a record that is in the *)
(* file, extents never overlap, the scan moves on to its end.  And for     *)
(* files whose headers can hold what is written: the index is what a fresh *)
(* reading of the file finds, and the backend implements Archive.          *)
(***************************************************************************)
EXTENDS TarArchiveRefinement, SequenceTheorems, FiniteSetTheorems, TLAPS

-----------------------------------------------------------------------------
(* The operators on cells *)

\* Padding rounds up, to a natural number.
LEMMA PaddedProperties ==
    ASSUME NEW n \in Nat
    PROVE  Padded(n) \in Nat /\ Padded(n) >= n
BY DEF Padded, Block

\* Zeros is a sequence of cells of the length asked for.
LEMMA ZerosProperties ==
    ASSUME NEW n \in Nat
    PROVE  Zeros(n) \in Seq(Cell) /\ Len(Zeros(n)) = n
<1>1. Zero \in Cell
  BY DEF Cell
<1>2. Zeros(n) \in [1..n -> Cell]
  BY <1>1 DEF Zeros
<1>. QED
  BY <1>2, LenProperties, IsASeq

\* Writing at position o keeps the file a file, never shortens it and keeps
\* every cell before o.
LEMMA OverlayProperties ==
    ASSUME NEW f \in Seq(Cell), NEW o \in Nat, NEW s \in Seq(Cell)
    PROVE  /\ Overlay(f, o, s) \in Seq(Cell)
           /\ Len(Overlay(f, o, s)) >= Len(f)
           /\ \A i \in 1..o : i <= Len(f) => Overlay(f, o, s)[i] = f[i]
<1>1. CASE s = <<>>
  BY <1>1 DEF Overlay
<1>2. CASE s # <<>> /\ Len(f) < o
  <2>1. o - Len(f) \in Nat
    BY <1>2
  <2>2. Zeros(o - Len(f)) \in Seq(Cell) /\ Len(Zeros(o - Len(f))) = o - Len(f)
    BY <2>1, ZerosProperties
  <2>. QED
    BY <1>2, <2>2, ConcatProperties DEF Overlay
<1>3. CASE s # <<>> /\ o <= Len(f)
  <2>. DEFINE head == SubSeq(f, 1, o)
              tail == SubSeq(f, o + Len(s) + 1, Len(f))
  <2>1. /\ head \in Seq(Cell)
        /\ Len(head) = o
        /\ \A i \in 1..o : head[i] = f[i]
    BY <1>3
  <2>2. tail \in Seq(Cell) /\ Len(tail) \in Nat /\ Len(tail) >= Len(f) - (o + Len(s))
    <3>1. /\ o + Len(s) + 1 \in Int /\ Len(f) \in Int
          /\ \A i \in (o + Len(s) + 1)..Len(f) : f[i] \in Cell
      OBVIOUS
    <3>2. /\ tail \in Seq(Cell)
          /\ Len(tail) = IF o + Len(s) + 1 <= Len(f) THEN Len(f) - (o + Len(s) + 1) + 1 ELSE 0
      BY <3>1, SubSeqProperties
    <3>. QED
      BY <3>2
  <2>3. Overlay(f, o, s) = (head \o s) \o tail
    <3>1. ~ (Len(f) < o)
      BY <1>3
    <3>. QED
      BY <1>3, <3>1, Zenon DEF Overlay, head, tail
  <2>. HIDE DEF head, tail
  <2>4. /\ head \o s \in Seq(Cell)
        /\ Len(head \o s) = o + Len(s)
        /\ \A i \in 1..o : (head \o s)[i] = f[i]
    <3>1. /\ head \o s \in Seq(Cell)
          /\ Len(head \o s) = Len(head) + Len(s)
          /\ \A i \in 1..Len(head) + Len(s) :
               (head \o s)[i] = IF i <= Len(head) THEN head[i] ELSE s[i - Len(head)]
      BY <2>1, ConcatProperties, Zenon
    <3>. QED
      BY <2>1, <3>1
  <2>5. /\ (head \o s) \o tail \in Seq(Cell)
        /\ Len((head \o s) \o tail) = o + Len(s) + Len(tail)
        /\ \A i \in 1..o : ((head \o s) \o tail)[i] = f[i]
    <3>. DEFINE front == head \o s
    <3>. HIDE DEF front
    <3>1. /\ front \in Seq(Cell) /\ Len(front) = o + Len(s)
          /\ \A i \in 1..o : front[i] = f[i]
      BY <2>4 DEF front
    <3>2. /\ front \o tail \in Seq(Cell)
          /\ Len(front \o tail) = Len(front) + Len(tail)
          /\ \A i \in 1..Len(front) + Len(tail) :
               (front \o tail)[i] = IF i <= Len(front) THEN front[i] ELSE tail[i - Len(front)]
      <4>1. front \in Seq(Cell) /\ tail \in Seq(Cell)
        BY <2>2, <3>1
      <4>. HIDE DEF tail
      <4>. QED
        BY <4>1, ConcatProperties, Zenon
    <3>3. \A i \in 1..o : (front \o tail)[i] = f[i]
      BY <2>2, <3>1, <3>2
    <3>. QED
      BY <3>1, <3>2, <3>3, Zenon DEF front
  <2>. QED
    BY <2>2, <2>3, <2>5
<1>. QED
  BY <1>1, <1>2, <1>3

\* A record is whole blocks: its header and its padded contents.
LEMMA RecordCellsProperties ==
    ASSUME NEW p \in Path, NEW c \in Content
    PROVE  /\ Len(c) \in Nat
           /\ RecordCells(p, c) \in Seq(Cell)
           /\ Len(RecordCells(p, c)) = Block + Padded(Len(c))
           /\ Block + Padded(Len(c)) \in Nat
           /\ Block + Padded(Len(c)) > 0
<1>1. c \in Seq(Cell) /\ Len(c) \in Nat
  BY TarAssumption DEF Cell
<1>2. StoredSize(Len(c)) \in Nat
  BY <1>1, TarAssumption DEF StoredSize
<1>3. p \in AnyPath
  BY TarAssumption
<1>4. Header(p, Len(c)) \in Seq(Cell) /\ Len(Header(p, Len(c))) = Block
  <2>. DEFINE entry  == [name |-> StoredPath(p).name, size |-> StoredSize(Len(c))]
              prefix == [prefix |-> StoredPath(p).prefix]
  <2>1. entry \in Cell
    BY <1>2, <1>3 DEF Cell, Entry, AnyPath, StoredPath
  <2>2. prefix \in Cell
    BY <1>3 DEF Cell, Prefix, AnyPath, StoredPath
  <2>3. Magic \in Cell
    BY DEF Cell
  <2>4. Header(p, Len(c)) = <<entry, Magic, prefix>>
    BY DEF Header
  <2>. HIDE DEF entry, prefix
  <2>. QED
    BY <2>1, <2>2, <2>3, <2>4 DEF Block
<1>5. Padded(Len(c)) \in Nat /\ Padded(Len(c)) >= Len(c)
  BY <1>1, PaddedProperties
<1>6. Padded(Len(c)) - Len(c) \in Nat
  BY <1>1, <1>5
<1>7. Zeros(Padded(Len(c)) - Len(c)) \in Seq(Cell)
      /\ Len(Zeros(Padded(Len(c)) - Len(c))) = Padded(Len(c)) - Len(c)
  BY <1>6, ZerosProperties
<1>8. /\ RecordCells(p, c) \in Seq(Cell)
      /\ Len(RecordCells(p, c)) =
           (Len(Header(p, Len(c))) + Len(c)) + Len(Zeros(Padded(Len(c)) - Len(c)))
  <2>1. /\ Header(p, Len(c)) \o c \in Seq(Cell)
        /\ Len(Header(p, Len(c)) \o c) = Len(Header(p, Len(c))) + Len(c)
    BY <1>1, <1>4, ConcatProperties
  <2>. QED
    BY <1>7, <2>1, ConcatProperties DEF RecordCells
<1>. QED
  BY <1>1, <1>4, <1>5, <1>7, <1>8 DEF Block

\* Setting a key keeps a map a map.
LEMMA PutProperties ==
    ASSUME NEW map, PartialMap(map, Nat), NEW p \in AnyPath, NEW v \in Nat
    PROVE  /\ PartialMap(Put(map, p, v), Nat)
           /\ DOMAIN Put(map, p, v) = DOMAIN map \cup {p}
           /\ Put(map, p, v)[p] = v
           /\ \A q \in DOMAIN map : q # p => Put(map, p, v)[q] = map[q]
BY DEF Put, PartialMap

\* A map with no key is a map.
LEMMA EmptyMap == \A S : PartialMap(<<>>, S)
<1>. SUFFICES ASSUME NEW S PROVE PartialMap(<<>>, S)
  OBVIOUS
<1>1. DOMAIN <<>> = {}
  OBVIOUS
<1>2. <<>> = [x \in DOMAIN <<>> |-> <<>>[x]]
  OBVIOUS
<1>. QED
  BY <1>1, <1>2 DEF PartialMap

\* Appending a name adds it to the set of names, as the last one.
LEMMA NameAppended ==
    ASSUME NEW names \in Seq(AnyPath), NEW p \in AnyPath
    PROVE  /\ Append(names, p) \in Seq(AnyPath)
           /\ {Append(names, p)[i] : i \in DOMAIN Append(names, p)} =
                {names[i] : i \in DOMAIN names} \cup {p}
           /\ Append(names, p) # <<>> /\ Append(names, p)[Len(Append(names, p))] = p
<1>. SUFFICES ASSUME NEW longer, longer = Append(names, p)
               PROVE  /\ longer \in Seq(AnyPath)
                      /\ {longer[i] : i \in DOMAIN longer} =
                           {names[i] : i \in DOMAIN names} \cup {p}
                      /\ longer # <<>> /\ longer[Len(longer)] = p
  OBVIOUS
<1>1. /\ longer \in Seq(AnyPath) /\ longer # <<>>
      /\ DOMAIN names = 1..Len(names) /\ DOMAIN longer = 1..(Len(names) + 1)
      /\ Len(longer) = Len(names) + 1 /\ Len(names) \in Nat
      /\ \A i \in 1..Len(names) : longer[i] = names[i]
      /\ longer[Len(names) + 1] = p
  OBVIOUS
<1>2. ASSUME NEW i \in DOMAIN longer
      PROVE  longer[i] \in {names[j] : j \in DOMAIN names} \cup {p}
  BY <1>1
<1>3. ASSUME NEW i \in DOMAIN names
      PROVE  names[i] \in {longer[j] : j \in DOMAIN longer}
  <2>1. i \in DOMAIN longer /\ longer[i] = names[i]
    BY <1>1
  <2>. QED
    BY <2>1
<1>4. p \in {longer[j] : j \in DOMAIN longer}
  <2>1. Len(names) + 1 \in DOMAIN longer
    BY <1>1
  <2>. QED
    BY <1>1, <2>1
<1>5. {longer[i] : i \in DOMAIN longer} = {names[i] : i \in DOMAIN names} \cup {p}
  BY <1>2, <1>3, <1>4
<1>. QED
  BY <1>1, <1>5

\* The types when no size has a minus sign: positions and sizes are natural numbers.
Typed ==
    /\ disk \in Seq(Cell) /\ exists \in BOOLEAN
    /\ pc \in {"closed", "scanning", "open"}
    /\ m_mode \in {"Read", "Write", "Append"}
    /\ pos \in Nat /\ buf \in Seq(Cell) /\ fail \in BOOLEAN
    /\ offset \in Nat /\ m_filePosition \in Nat /\ m_maxPosition \in Nat
    /\ m_fileNames \in Seq(AnyPath)
    /\ PartialMap(m_fileOffsets, Nat) /\ PartialMap(m_fileSizes, Nat)
    /\ reply \in Seq(Cell \cup {Uninit}) \cup {NoReply, Synced, Missing}

\* The path and size a scan takes from a header have their types, whatever the
\* file holds.
LEMMA HeaderFields ==
    ASSUME NoMinus, NEW f \in Seq(Cell), NEW o \in Nat
    PROVE  PathOf(f, o) \in AnyPath /\ SizeOf(f, o) \in Nat
<1>1. \A x : EntryOf(x) \in Entry
  BY TarAssumption DEF EntryOf, Entry
<1>2. \A x : PrefixOf(x) \in Str
  BY TarAssumption DEF PrefixOf, Prefix
<1>3. Entry = [name : Str, size : Nat]
  BY DEF Entry, NoMinus
<1>. QED
  BY <1>1, <1>2, <1>3, TarAssumption DEF PathOf, SizeOf, AnyPath

\* Flushing the buffer, wholly or in part, keeps the file a file and every cell
\* the buffer does not precede.
LEMMA FlushProperties ==
    ASSUME Typed, BufferAtEnd, NEW k \in 0..Len(buf)
    PROVE  LET out == Overlay(disk, pos - Len(buf), SubSeq(buf, 1, k))
           IN  /\ SubSeq(buf, 1, Len(buf)) = buf
               /\ out \in Seq(Cell)
               /\ Len(out) >= Len(disk)
               /\ \A i \in 1..Settled : i <= Len(disk) => out[i] = disk[i]
<1>1. disk \in Seq(Cell) /\ buf \in Seq(Cell) /\ pos \in Nat /\ m_maxPosition \in Nat
  BY DEF Typed
<1>2. SubSeq(buf, 1, Len(buf)) = buf
  BY <1>1
<1>3. CASE buf = <<>>
  <2>1. SubSeq(buf, 1, k) = <<>>
    BY <1>3
  <2>2. Overlay(disk, pos - Len(buf), SubSeq(buf, 1, k)) = disk
    BY <2>1 DEF Overlay
  <2>. QED
    BY <1>1, <1>2, <2>2
<1>4. CASE buf # <<>>
  <2>1. Settled = pos - Len(buf) /\ pos - Len(buf) \in Nat
    BY <1>1, <1>4 DEF Settled, BufferAtEnd
  <2>2. SubSeq(buf, 1, k) \in Seq(Cell)
    BY <1>1
  <2>. QED
    BY <1>1, <1>2, <2>1, <2>2, OverlayProperties
<1>. QED
  BY <1>3, <1>4

\* The same for a whole flush.
LEMMA FlushedProperties ==
    ASSUME Typed, BufferAtEnd
    PROVE  /\ Flushed \in Seq(Cell)
           /\ Len(Flushed) >= Len(disk)
           /\ \A i \in 1..Settled : i <= Len(disk) => Flushed[i] = disk[i]
<1>1. Len(buf) \in 0..Len(buf)
  BY DEF Typed
<1>2. LET out == Overlay(disk, pos - Len(buf), SubSeq(buf, 1, Len(buf)))
      IN  /\ SubSeq(buf, 1, Len(buf)) = buf
          /\ out \in Seq(Cell)
          /\ Len(out) >= Len(disk)
          /\ \A i \in 1..Settled : i <= Len(disk) => out[i] = disk[i]
  BY <1>1, FlushProperties
<1>. QED
  BY <1>2 DEF Flushed

-----------------------------------------------------------------------------
(* The inductive invariant *)

\* Where the records end, for the constructor's locals, and what is left of an
\* archive that is closed: neither is visible to a caller, both are needed to
\* carry ExtentsInside through the constructor.
SessionShape ==
    /\ pc = "scanning" => offset = EndOfRecords /\ buf = <<>> /\ (fail \/ offset <= pos)
    /\ pc = "closed" => /\ buf = <<>> /\ fail = FALSE /\ offset = 0
                        /\ m_maxPosition = 0
                        /\ m_fileNames = <<>> /\ m_fileOffsets = <<>> /\ m_fileSizes = <<>>

IInv == Typed /\ PositionCoherent /\ BufferAtEnd /\ ExtentsInside /\ SessionShape

\* An object that is gone satisfies the invariant, whatever file it leaves.
LEMMA ForgetStep ==
    ASSUME disk' \in Seq(Cell), exists' \in BOOLEAN, Forget
    PROVE  IInv'
<1>1. Typed'
  <2>1. <<>> \in Seq(Cell) /\ <<>> \in Seq(AnyPath)
    OBVIOUS
  <2>2. PartialMap(m_fileOffsets', Nat) /\ PartialMap(m_fileSizes', Nat)
    BY EmptyMap DEF Forget
  <2>. QED
    BY <2>1, <2>2 DEF Forget, Typed
<1>2. PositionCoherent' /\ BufferAtEnd' /\ SessionShape'
  BY DEF Forget, PositionCoherent, BufferAtEnd, SessionShape
<1>3. ExtentsInside'
  BY DEF Forget, ExtentsInside
<1>. QED
  BY <1>1, <1>2, <1>3 DEF IInv

\* The initial states.
LEMMA InitStep ==
    Init => IInv
<1>. SUFFICES ASSUME Init PROVE IInv
  OBVIOUS
<1>1. Typed
  <2>1. <<>> \in Seq(Cell) /\ <<>> \in Seq(AnyPath) /\ disk \in Seq(Cell)
    <3>1. InitialFiles \subseteq Seq(Cell)
      BY TarAssumption
    <3>2. <<>> \in Seq(Cell) /\ <<>> \in Seq(AnyPath)
      OBVIOUS
    <3>. QED
      BY <3>1, <3>2, Zenon DEF Init
  <2>2. PartialMap(m_fileOffsets, Nat) /\ PartialMap(m_fileSizes, Nat)
    BY EmptyMap DEF Init
  <2>. QED
    BY <2>1, <2>2 DEF Init, Typed
<1>2. PositionCoherent /\ BufferAtEnd /\ SessionShape
  BY DEF Init, PositionCoherent, BufferAtEnd, SessionShape
<1>3. ExtentsInside
  BY DEF Init, ExtentsInside
<1>. QED
  BY <1>1, <1>2, <1>3 DEF IInv

\* The constructor opens the file.
LEMMA OpenStep ==
    ASSUME IInv, NEW mode \in {"Read", "Write", "Append"}, Open(mode)
    PROVE  IInv'
<1>1. Typed'
  BY DEF IInv, Typed, Open, stream, index
<1>2. PositionCoherent' /\ BufferAtEnd'
  BY DEF IInv, SessionShape, Open, stream, PositionCoherent, BufferAtEnd
<1>3. SessionShape'
  BY DEF IInv, Typed, SessionShape, Open, stream, index, EndOfRecords
<1>4. ExtentsInside'
  BY DEF IInv, SessionShape, Open, index, ExtentsInside
<1>. QED
  BY <1>1, <1>2, <1>3, <1>4 DEF IInv

\* Where the scan goes after a header.
LEMMA ScanRecordMoves ==
    ASSUME NoMinus, Typed, ScanRecord
    PROVE  /\ offset' = offset + Block + Padded(SizeOf(disk, pos)) /\ offset' \in Nat
           /\ fail' \in BOOLEAN /\ (fail' <=> HitsEnd)
           /\ pos' = IF HitsEnd THEN Len(disk) ELSE offset'
<1>1. offset \in Nat /\ Padded(SizeOf(disk, pos)) \in Nat
  BY HeaderFields, PaddedProperties DEF Typed
<1>2. /\ offset' = offset + Block + Padded(SizeOf(disk, pos))
      /\ fail' = (HitsEnd \/ offset' < 0)
      /\ pos' = IF HitsEnd THEN Len(disk) ELSE IF offset' < 0 THEN pos + Block ELSE offset'
  BY DEF ScanRecord
<1>3. offset' \in Nat /\ ~(offset' < 0)
  BY <1>1, <1>2 DEF Block
<1>4. fail' \in BOOLEAN /\ (fail' <=> HitsEnd)
  BY <1>2, <1>3, Zenon
<1>5. pos' = IF HitsEnd THEN Len(disk) ELSE offset'
  BY <1>2, <1>3, Zenon
<1>. QED
  BY <1>2, <1>3, <1>4, <1>5

\* The scan indexes one record: it ends where the next header is sought.
LEMMA ScanRecordStep ==
    ASSUME NoMinus, IInv, ScanRecord
    PROVE  IInv'
<1>. DEFINE path == PathOf(disk, pos)
            size == SizeOf(disk, pos)
<1>1. path \in AnyPath /\ size \in Nat
  BY HeaderFields DEF IInv, Typed
<1>2. Padded(size) \in Nat /\ Padded(size) >= size
  BY <1>1, PaddedProperties
<1>3. /\ pc = "scanning" /\ pc' = pc /\ UNCHANGED <<file, m_mode, buf, m_filePosition, m_maxPosition, reply>>
      /\ m_fileNames' = Append(m_fileNames, path)
      /\ m_fileOffsets' = Put(m_fileOffsets, path, offset + Block)
      /\ m_fileSizes' = Put(m_fileSizes, path, size)
      /\ offset' = offset + Block + Padded(size)
      /\ fail' \in BOOLEAN /\ (fail' <=> HitsEnd)
      /\ pos' = IF HitsEnd THEN Len(disk) ELSE offset'
  BY ScanRecordMoves DEF IInv, ScanRecord
<1>. HIDE DEF path, size
<1>4. /\ disk \in Seq(Cell) /\ offset \in Nat /\ pos \in Nat /\ m_fileNames \in Seq(AnyPath)
      /\ PartialMap(m_fileOffsets, Nat) /\ PartialMap(m_fileSizes, Nat)
      /\ offset + Block \in Nat /\ offset' \in Nat
  BY <1>2, <1>3 DEF IInv, Typed, Block
<1>5. /\ PartialMap(m_fileOffsets', Nat)
      /\ DOMAIN m_fileOffsets' = DOMAIN m_fileOffsets \cup {path}
      /\ m_fileOffsets'[path] = offset + Block
      /\ \A q \in DOMAIN m_fileOffsets : q # path => m_fileOffsets'[q] = m_fileOffsets[q]
  <2>. DEFINE place == offset + Block
  <2>. HIDE DEF place
  <2>1. place \in Nat /\ PartialMap(m_fileOffsets, Nat)
    BY <1>4 DEF place
  <2>2. m_fileOffsets' = Put(m_fileOffsets, path, place)
    BY <1>3 DEF place
  <2>3. /\ PartialMap(Put(m_fileOffsets, path, place), Nat)
        /\ DOMAIN Put(m_fileOffsets, path, place) = DOMAIN m_fileOffsets \cup {path}
        /\ Put(m_fileOffsets, path, place)[path] = place
        /\ \A q \in DOMAIN m_fileOffsets :
             q # path => Put(m_fileOffsets, path, place)[q] = m_fileOffsets[q]
    BY <1>1, <2>1, PutProperties
  <2>. QED
    BY <2>2, <2>3 DEF place
<1>6. /\ PartialMap(m_fileSizes', Nat)
      /\ DOMAIN m_fileSizes' = DOMAIN m_fileSizes \cup {path}
      /\ m_fileSizes'[path] = size
      /\ \A q \in DOMAIN m_fileSizes : q # path => m_fileSizes'[q] = m_fileSizes[q]
  <2>1. /\ PartialMap(Put(m_fileSizes, path, size), Nat)
        /\ DOMAIN Put(m_fileSizes, path, size) = DOMAIN m_fileSizes \cup {path}
        /\ Put(m_fileSizes, path, size)[path] = size
        /\ \A q \in DOMAIN m_fileSizes :
             q # path => Put(m_fileSizes, path, size)[q] = m_fileSizes[q]
    BY <1>1, <1>4, PutProperties
  <2>. QED
    BY <1>3, <2>1
<1>7. /\ m_fileNames' \in Seq(AnyPath)
      /\ {m_fileNames'[i] : i \in DOMAIN m_fileNames'} =
           {m_fileNames[i] : i \in DOMAIN m_fileNames} \cup {path}
      /\ m_fileNames' # <<>> /\ m_fileNames'[Len(m_fileNames')] = path
  <2>1. m_fileNames \in Seq(AnyPath) /\ m_fileNames' = Append(m_fileNames, path)
    BY <1>3, <1>4
  <2>. QED
    BY <1>1, <2>1, NameAppended
<1>8. Typed'
  <2>1. pos' \in Nat
    BY <1>3, <1>4
  <2>. QED
    BY <1>3, <1>4, <1>5, <1>6, <1>7, <2>1 DEF IInv, Typed, file
<1>9. PositionCoherent' /\ BufferAtEnd'
  BY <1>3 DEF IInv, SessionShape, PositionCoherent, BufferAtEnd
<1>10. SessionShape'
  BY <1>2, <1>3, <1>4, <1>5, <1>6, <1>7 DEF IInv, SessionShape, EndOfRecords, HitsEnd
<1>11. ExtentsInside'
  <2>1. \A q \in DOMAIN m_fileOffsets : m_fileOffsets[q] \in Nat /\ m_fileSizes[q] \in Nat
    BY <1>4 DEF PartialMap, IInv, ExtentsInside
  <2>2. ExtentsInside /\ Bound = offset /\ Bound' = offset'
    BY <1>3 DEF IInv, Bound
  <2>3. DOMAIN m_fileOffsets' = {m_fileNames'[i] : i \in DOMAIN m_fileNames'}
    BY <1>5, <1>7, <2>2, Zenon DEF ExtentsInside
  <2>4. DOMAIN m_fileSizes' = DOMAIN m_fileOffsets'
    BY <1>5, <1>6, <2>2, Zenon DEF ExtentsInside
  <2>5. ASSUME NEW q \in DOMAIN m_fileOffsets'
        PROVE  m_fileOffsets'[q] + m_fileSizes'[q] <= offset'
    <3>1. CASE q = path
      BY <1>1, <1>2, <1>3, <1>4, <1>5, <1>6, <3>1
    <3>2. CASE q # path
      <4>1. /\ q \in DOMAIN m_fileOffsets /\ q \in DOMAIN m_fileSizes
            /\ m_fileOffsets'[q] = m_fileOffsets[q] /\ m_fileSizes'[q] = m_fileSizes[q]
        BY <1>5, <1>6, <2>2, <2>5, <3>2, Zenon DEF ExtentsInside
      <4>2. m_fileOffsets[q] + m_fileSizes[q] <= offset
        BY <2>2, <4>1 DEF ExtentsInside
      <4>. QED
        BY <1>2, <1>3, <1>4, <2>1, <4>1, <4>2 DEF Block
    <3>. QED
      BY <3>1, <3>2
  <2>. QED
    BY <2>2, <2>3, <2>4, <2>5 DEF ExtentsInside
<1>. QED
  BY <1>8, <1>9, <1>10, <1>11 DEF IInv

\* The scan passes over a block: only the stream moves.
LEMMA ScanSkipStep ==
    ASSUME IInv, ScanSkip
    PROVE  IInv'
<1>1. Typed'
  BY DEF IInv, Typed, ScanSkip, NextBlock, Block, file, index
<1>2. PositionCoherent' /\ BufferAtEnd' /\ SessionShape'
  BY DEF IInv, Typed, ScanSkip, NextBlock, Block, file, index, SessionShape, PositionCoherent,
     BufferAtEnd, EndOfRecords
<1>3. ExtentsInside'
  BY DEF IInv, ScanSkip, file, index, ExtentsInside, Bound
<1>. QED
  BY <1>1, <1>2, <1>3 DEF IInv

\* The constructor returns: the end of the records becomes m_maxPosition.
LEMMA ScanDoneGives ==
    ASSUME IInv, ScanDone
    PROVE  /\ pc = "scanning" /\ pc' = "open" /\ buf = <<>> /\ fail' = FALSE
           /\ EndOfRecords = offset /\ m_maxPosition' = offset /\ offset \in Nat
           /\ pos' = IF m_mode = "Append" THEN m_maxPosition' ELSE 0
           /\ m_filePosition' = IF m_mode = "Append" THEN m_maxPosition' ELSE 0
           /\ UNCHANGED <<file, m_mode, buf, offset, index, reply>>
<1>1. pc = "scanning" /\ offset \in Nat /\ EndOfRecords = offset /\ buf = <<>>
  BY DEF IInv, Typed, SessionShape, ScanDone
<1>2. m_maxPosition' = offset
  BY <1>1 DEF ScanDone
<1>3. ~(m_maxPosition' < 0) /\ m_maxPosition' >= 0
  BY <1>1, <1>2
<1>4. fail' = FALSE
  <2>1. fail' = (m_mode = "Append" /\ m_maxPosition' < 0)
    BY DEF ScanDone
  <2>. QED
    BY <1>3, <2>1, Zenon
<1>5. pos' = IF m_mode = "Append" THEN m_maxPosition' ELSE 0
  <2>1. pos' = IF m_mode = "Append" /\ m_maxPosition' >= 0 THEN m_maxPosition' ELSE 0
    BY DEF ScanDone
  <2>. QED
    BY <1>3, <2>1, Zenon
<1>6. /\ pc' = "open"
      /\ m_filePosition' = IF m_mode = "Append" THEN m_maxPosition' ELSE 0
      /\ UNCHANGED <<file, m_mode, buf, offset, index, reply>>
  BY DEF ScanDone
<1>. QED
  BY <1>1, <1>2, <1>4, <1>5, <1>6

\* The constructor's last step keeps the invariant.
LEMMA ScanDoneStep ==
    ASSUME IInv, ScanDone
    PROVE  IInv'
<1>1. /\ pc = "scanning" /\ pc' = "open" /\ buf = <<>> /\ fail' = FALSE
      /\ EndOfRecords = offset /\ m_maxPosition' = offset /\ offset \in Nat
      /\ pos' = IF m_mode = "Append" THEN m_maxPosition' ELSE 0
      /\ m_filePosition' = IF m_mode = "Append" THEN m_maxPosition' ELSE 0
      /\ UNCHANGED <<file, m_mode, buf, offset, index, reply>>
  BY ScanDoneGives
<1>2. Typed'
  BY <1>1 DEF IInv, Typed, file, index
<1>3. PositionCoherent' /\ BufferAtEnd' /\ SessionShape'
  BY <1>1 DEF PositionCoherent, BufferAtEnd, SessionShape
<1>4. ExtentsInside'
  BY <1>1 DEF IInv, ExtentsInside, Bound, index
<1>. QED
  BY <1>2, <1>3, <1>4 DEF IInv

\* Where a write lands: the end of the records, behind whatever is buffered.
LEMMA WritesAtEnd ==
    ASSUME IInv, pc = "open", ~fail
    PROVE  /\ WritePosition = m_maxPosition
           /\ UnwrittenBuffer = buf
           /\ SoughtFile = disk
           /\ Len(buf) <= m_maxPosition
           /\ Settled = m_maxPosition - Len(buf)
<1>1. CASE m_filePosition = m_maxPosition
  BY <1>1 DEF IInv, Typed, PositionCoherent, BufferAtEnd, WritePosition, UnwrittenBuffer,
              SoughtFile, Seeks, Settled
<1>2. CASE m_filePosition # m_maxPosition
  <2>1. buf = <<>>
    BY <1>2 DEF IInv, BufferAtEnd
  <2>2. Flushed = disk
    BY <2>1 DEF Flushed, Overlay
  <2>. QED
    BY <1>2, <2>1, <2>2 DEF IInv, Typed, WritePosition, UnwrittenBuffer, SoughtFile, Seeks,
                            Settled
<1>. QED
  BY <1>1, <1>2

\* A write, by a stream that works or by one that failed.
LEMMA WritePtrStep ==
    ASSUME IInv, NEW p \in Path, NEW c \in Content, NEW immediate \in BOOLEAN,
           WritePtr(p, c, immediate)
    PROVE  /\ IInv'
           /\ \A i \in 1..Settled : i <= Len(disk) => i <= Len(disk') /\ disk'[i] = disk[i]
<1>. DEFINE cells == RecordCells(p, c)
            delta == Block + Padded(Len(c))
            queued == buf \o cells
            place == m_maxPosition + Block
            size == Len(c)
<1>1. /\ pc = "open" /\ UNCHANGED <<exists, pc, m_mode, offset>>
      /\ m_filePosition' = m_maxPosition + delta
      /\ m_maxPosition' = m_maxPosition + delta
      /\ m_fileNames' = Append(m_fileNames, p)
      /\ m_fileOffsets' = Put(m_fileOffsets, p, place)
      /\ m_fileSizes' = Put(m_fileSizes, p, size)
      /\ reply' \in {Synced, NoReply}
  BY DEF WritePtr
<1>2. /\ p \in AnyPath /\ size \in Nat
      /\ cells \in Seq(Cell) /\ Len(cells) = delta /\ delta \in Nat /\ delta > 0
      /\ delta >= Block + size
  BY RecordCellsProperties, TarAssumption, PaddedProperties DEF Block
<1>3. fail => UNCHANGED <<disk, stream>>
  BY DEF WritePtr
<1>4. ~fail => /\ pos' = m_maxPosition + Len(cells)
               /\ buf' = IF immediate THEN <<>> ELSE queued
               /\ disk' = IF immediate THEN Overlay(disk, pos' - Len(queued), queued)
                          ELSE disk
               /\ fail' = FALSE
  BY <1>1, WritesAtEnd DEF WritePtr
<1>. HIDE DEF cells, delta, place, size
<1>5. /\ disk \in Seq(Cell) /\ buf \in Seq(Cell) /\ pos \in Nat /\ m_maxPosition \in Nat
      /\ offset \in Nat /\ m_fileNames \in Seq(AnyPath) /\ fail \in BOOLEAN
      /\ PartialMap(m_fileOffsets, Nat) /\ PartialMap(m_fileSizes, Nat)
  BY DEF IInv, Typed
<1>6. /\ queued \in Seq(Cell) /\ Len(queued) = Len(buf) + Len(cells)
      /\ queued # <<>>
  <2>1. queued \in Seq(Cell) /\ Len(queued) = Len(buf) + Len(cells)
    BY <1>2, <1>5, ConcatProperties
  <2>. HIDE DEF queued
  <2>. QED
    BY <1>2, <1>5, <2>1
<1>. HIDE DEF queued
<1>7. ~fail => /\ pos' - Len(queued) = Settled /\ Settled \in Nat
               /\ Len(buf) <= m_maxPosition
  BY <1>1, <1>2, <1>4, <1>5, <1>6, WritesAtEnd
<1>8. /\ disk' \in Seq(Cell)
      /\ \A i \in 1..Settled : i <= Len(disk) => i <= Len(disk') /\ disk'[i] = disk[i]
  <2>1. CASE fail \/ ~immediate
    BY <1>3, <1>4, <1>5, <2>1
  <2>2. CASE ~fail /\ immediate
    <3>1. disk' = Overlay(disk, Settled, queued)
      BY <1>4, <1>7, <2>2
    <3>2. /\ Overlay(disk, Settled, queued) \in Seq(Cell)
          /\ Len(Overlay(disk, Settled, queued)) >= Len(disk)
          /\ \A i \in 1..Settled : i <= Len(disk) =>
               Overlay(disk, Settled, queued)[i] = disk[i]
      BY <1>5, <1>6, <1>7, <2>2, OverlayProperties
    <3>. HIDE DEF Settled
    <3>. QED
      BY <1>5, <1>7, <2>2, <3>1, <3>2
  <2>. QED
    BY <2>1, <2>2
<1>9. place \in Nat /\ m_maxPosition' \in Nat
  BY <1>1, <1>2, <1>5 DEF place, Block
<1>10. /\ PartialMap(m_fileOffsets', Nat)
       /\ DOMAIN m_fileOffsets' = DOMAIN m_fileOffsets \cup {p}
       /\ m_fileOffsets'[p] = place
       /\ \A q \in DOMAIN m_fileOffsets : q # p => m_fileOffsets'[q] = m_fileOffsets[q]
  <2>1. PartialMap(m_fileOffsets, Nat) /\ p \in AnyPath /\ place \in Nat
    BY <1>2, <1>5, <1>9
  <2>2. /\ PartialMap(Put(m_fileOffsets, p, place), Nat)
        /\ DOMAIN Put(m_fileOffsets, p, place) = DOMAIN m_fileOffsets \cup {p}
        /\ Put(m_fileOffsets, p, place)[p] = place
        /\ \A q \in DOMAIN m_fileOffsets :
             q # p => Put(m_fileOffsets, p, place)[q] = m_fileOffsets[q]
    BY <2>1, PutProperties
  <2>. QED
    BY <1>1, <2>2
<1>11. /\ PartialMap(m_fileSizes', Nat)
       /\ DOMAIN m_fileSizes' = DOMAIN m_fileSizes \cup {p}
       /\ m_fileSizes'[p] = size
       /\ \A q \in DOMAIN m_fileSizes : q # p => m_fileSizes'[q] = m_fileSizes[q]
  <2>1. PartialMap(m_fileSizes, Nat) /\ p \in AnyPath /\ size \in Nat
    BY <1>2, <1>5
  <2>2. /\ PartialMap(Put(m_fileSizes, p, size), Nat)
        /\ DOMAIN Put(m_fileSizes, p, size) = DOMAIN m_fileSizes \cup {p}
        /\ Put(m_fileSizes, p, size)[p] = size
        /\ \A q \in DOMAIN m_fileSizes :
             q # p => Put(m_fileSizes, p, size)[q] = m_fileSizes[q]
    BY <2>1, PutProperties
  <2>. QED
    BY <1>1, <2>2
<1>12. /\ m_fileNames' \in Seq(AnyPath)
       /\ {m_fileNames'[i] : i \in DOMAIN m_fileNames'} =
            {m_fileNames[i] : i \in DOMAIN m_fileNames} \cup {p}
  <2>1. m_fileNames \in Seq(AnyPath) /\ p \in AnyPath
    BY <1>2, <1>5
  <2>2. m_fileNames' = Append(m_fileNames, p)
    BY <1>1
  <2>. QED
    BY <2>1, <2>2, NameAppended
<1>13. Typed'
  <2>1. pos' \in Nat /\ buf' \in Seq(Cell) /\ fail' \in BOOLEAN
    <3>1. CASE fail
      BY <1>3, <1>5, <3>1 DEF stream
    <3>2. CASE ~fail
      <4>1. pos' = m_maxPosition + delta /\ fail' = FALSE
        BY <1>2, <1>4, <3>2
      <4>2. buf' = <<>> \/ buf' = queued
        BY <1>4, <3>2
      <4>3. m_maxPosition \in Nat /\ delta \in Nat
        BY <1>2, <1>5
      <4>4. pos' \in Nat /\ fail' \in BOOLEAN
        <5>1. pos' \in Nat
          BY <4>1, <4>3
        <5>. QED
          BY <4>1, <5>1
      <4>5. queued \in Seq(Cell) /\ <<>> \in Seq(Cell)
        BY <1>6
      <4>6. buf' \in Seq(Cell)
        BY <4>2, <4>5, Zenon
      <4>. QED
        BY <4>4, <4>6
    <3>. QED
      BY <3>1, <3>2
  <2>2. m_filePosition' \in Nat
    BY <1>1, <1>9
  <2>. QED
    BY <1>1, <1>8, <1>9, <1>10, <1>11, <1>12, <2>1, <2>2 DEF IInv, Typed
<1>14. PositionCoherent' /\ BufferAtEnd' /\ SessionShape'
  <2>1. CASE fail
    BY <1>1, <1>3, <2>1 DEF stream, IInv, PositionCoherent, BufferAtEnd, SessionShape
  <2>2. CASE ~fail
    BY <1>1, <1>2, <1>4, <1>5, <1>6, <1>7, <2>2 DEF PositionCoherent, BufferAtEnd, SessionShape
  <2>. QED
    BY <2>1, <2>2
<1>15. ExtentsInside'
  <2>1. ExtentsInside /\ Bound = m_maxPosition /\ Bound' = m_maxPosition'
    BY <1>1 DEF IInv, Bound
  <2>2. DOMAIN m_fileOffsets' = {m_fileNames'[i] : i \in DOMAIN m_fileNames'}
    BY <1>10, <1>12, <2>1, Zenon DEF ExtentsInside
  <2>3. DOMAIN m_fileSizes' = DOMAIN m_fileOffsets'
    BY <1>10, <1>11, <2>1, Zenon DEF ExtentsInside
  <2>4. ASSUME NEW q \in DOMAIN m_fileOffsets'
        PROVE  m_fileOffsets'[q] + m_fileSizes'[q] <= m_maxPosition'
    <3>1. CASE q = p
      BY <1>1, <1>2, <1>5, <1>10, <1>11, <3>1 DEF place, Block
    <3>2. CASE q # p
      <4>1. /\ q \in DOMAIN m_fileOffsets /\ q \in DOMAIN m_fileSizes
            /\ m_fileOffsets'[q] = m_fileOffsets[q] /\ m_fileSizes'[q] = m_fileSizes[q]
        BY <1>10, <1>11, <2>1, <2>4, <3>2, Zenon DEF ExtentsInside
      <4>2. m_fileOffsets[q] + m_fileSizes[q] <= m_maxPosition
        BY <2>1, <4>1 DEF ExtentsInside
      <4>3. m_fileOffsets[q] \in Nat /\ m_fileSizes[q] \in Nat
        BY <1>5, <4>1 DEF PartialMap
      <4>. QED
        BY <1>1, <1>2, <1>5, <4>1, <4>2, <4>3
    <3>. QED
      BY <3>1, <3>2
  <2>. QED
    BY <2>1, <2>2, <2>3, <2>4 DEF ExtentsInside
<1>. QED
  BY <1>8, <1>13, <1>14, <1>15 DEF IInv

\* What an operation of an open archive owes: the invariant, and the cells that
\* nothing buffered precedes.
Keeps == IInv' /\ \A i \in 1..Settled : i <= Len(disk) => i <= Len(disk') /\ disk'[i] = disk[i]

\* An operation that leaves the file, the stream and the index alone.
LEMMA QuietStep ==
    ASSUME IInv, pc = "open", reply' \in {NoReply, Missing},
           UNCHANGED <<file, pc, m_mode, stream, offset, m_filePosition, m_maxPosition, index>>
    PROVE  Keeps
<1>1. Typed'
  BY DEF IInv, Typed, file, stream, index
<1>2. PositionCoherent' /\ BufferAtEnd' /\ SessionShape'
  BY DEF IInv, stream, PositionCoherent, BufferAtEnd, SessionShape
<1>3. ExtentsInside'
  BY DEF IInv, ExtentsInside, Bound, index
<1>4. disk \in Seq(Cell) /\ disk' = disk
  BY DEF IInv, Typed, file
<1>. QED
  BY <1>1, <1>2, <1>3, <1>4 DEF IInv, Keeps

\* A refused write may have sought, and then m_filePosition says so.
LEMMA WriteTooLongStep ==
    ASSUME IInv, NEW p \in Path, WriteTooLong(p)
    PROVE  Keeps
<1>1. /\ pc = "open" /\ m_filePosition' = m_maxPosition /\ reply' = NoReply
      /\ UNCHANGED <<exists, pc, m_mode, fail, offset, m_maxPosition, index>>
      /\ disk' = SoughtFile /\ pos' = WritePosition /\ buf' = UnwrittenBuffer
  BY DEF WriteTooLong
<1>2. /\ disk \in Seq(Cell) /\ buf \in Seq(Cell) /\ pos \in Nat /\ m_maxPosition \in Nat
  BY DEF IInv, Typed
<1>3. disk' = disk /\ buf' = buf /\ (fail => pos' = pos) /\ (~fail => pos' = m_maxPosition)
  <2>1. CASE fail
    BY <1>1, <2>1 DEF SoughtFile, WritePosition, UnwrittenBuffer, Seeks
  <2>2. CASE ~fail
    BY <1>1, <2>2, WritesAtEnd
  <2>. QED
    BY <2>1, <2>2
<1>4. Typed'
  BY <1>1, <1>2, <1>3 DEF IInv, Typed, index
<1>5. PositionCoherent' /\ SessionShape'
  BY <1>1, <1>3 DEF PositionCoherent, SessionShape
<1>6. BufferAtEnd'
  BY <1>1, <1>2, <1>3 DEF IInv, BufferAtEnd
<1>7. ExtentsInside'
  BY <1>1 DEF IInv, ExtentsInside, Bound, index
<1>. QED
  BY <1>2, <1>3, <1>4, <1>5, <1>6, <1>7 DEF IInv, Keeps

\* A flush empties the buffer into the file.
LEMMA EndBulkWritesStep ==
    ASSUME IInv, EndBulkWrites
    PROVE  Keeps
<1>1. /\ pc = "open" /\ disk' = Flushed /\ buf' = <<>> /\ reply' = Synced
      /\ UNCHANGED <<exists, pc, m_mode, pos, fail, offset, m_filePosition, m_maxPosition, index>>
  BY DEF EndBulkWrites
<1>2. /\ disk' \in Seq(Cell) /\ Len(disk') >= Len(disk) /\ disk \in Seq(Cell)
      /\ \A i \in 1..Settled : i <= Len(disk) => disk'[i] = disk[i]
  BY <1>1, FlushedProperties DEF IInv, Typed
<1>3. Typed'
  <2>1. buf' \in Seq(Cell)
    BY <1>1
  <2>. QED
    BY <1>1, <1>2, <2>1 DEF IInv, Typed, index
<1>4. PositionCoherent' /\ BufferAtEnd' /\ SessionShape'
  BY <1>1 DEF IInv, PositionCoherent, BufferAtEnd, SessionShape
<1>5. ExtentsInside'
  BY <1>1 DEF IInv, ExtentsInside, Bound, index
<1>6. \A i \in 1..Settled : i <= Len(disk) => i <= Len(disk') /\ disk'[i] = disk[i]
  <2>. HIDE DEF Settled
  <2>1. Settled \in Int
    BY DEF IInv, Typed, Settled
  <2>. QED
    BY <1>2, <2>1
<1>. QED
  BY <1>3, <1>4, <1>5, <1>6 DEF IInv, Keeps

\* A read: if it succeeds the stream is where m_filePosition says, if the file is
\* too short the stream fails.
LEMMA ReadStep ==
    ASSUME IInv, NEW p \in Path, Read(p)
    PROVE  Keeps
<1>. DEFINE start == m_fileOffsets[p]
            size  == m_fileSizes[p]
            short == fail \/ (size > 0 /\ Len(Flushed) < start + size)
<1>1. /\ pc = "open" /\ p \in DOMAIN m_fileOffsets
      /\ disk' = Flushed /\ buf' = <<>>
      /\ fail' = short
      /\ pos' = IF fail THEN pos ELSE IF short THEN AtLeast(start, Len(Flushed))
                ELSE start + AtLeast(size, 0)
      /\ m_filePosition' = IF size < 0 THEN m_filePosition ELSE start + size
      /\ UNCHANGED <<exists, pc, m_mode, offset, m_maxPosition, index>>
  BY DEF Read, PositionAfterRead
<1>2. /\ disk' \in Seq(Cell) /\ Len(disk') >= Len(disk) /\ disk \in Seq(Cell)
      /\ \A i \in 1..Settled : i <= Len(disk) => disk'[i] = disk[i]
  BY <1>1, FlushedProperties DEF IInv, Typed
<1>3. start \in Nat /\ size \in Nat /\ pos \in Nat /\ fail \in BOOLEAN /\ Len(Flushed) \in Nat
  <2>1. p \in DOMAIN m_fileSizes
    BY <1>1 DEF IInv, ExtentsInside
  <2>2. Len(Flushed) \in Nat
    BY <1>1, <1>2
  <2>. QED
    BY <1>1, <2>1, <2>2 DEF IInv, Typed, PartialMap
<1>9. /\ ~(size < 0) /\ AtLeast(size, 0) = size
      /\ pos' = IF fail THEN pos ELSE IF short THEN AtLeast(start, Len(Flushed)) ELSE start + size
      /\ m_filePosition' = start + size
  BY <1>1, <1>3 DEF AtLeast
<1>4. reply' \in Seq(Cell \cup {Uninit})
  <2>. DEFINE cell(i) == IF fail \/ Len(Flushed) < start + i THEN Uninit ELSE Flushed[start + i]
  <2>1. reply' = [i \in 1..size |-> cell(i)]
    BY <1>9 DEF Read
  <2>2. ASSUME NEW i \in 1..size PROVE cell(i) \in Cell \cup {Uninit}
    <3>1. CASE fail \/ Len(Flushed) < start + i
      BY <3>1
    <3>2. CASE ~fail /\ start + i <= Len(Flushed)
      <4>1. start + i \in 1..Len(Flushed)
        BY <1>3, <3>2
      <4>2. Flushed \in Seq(Cell)
        BY <1>1, <1>2
      <4>3. Flushed[start + i] \in Cell
        BY <4>1, <4>2
      <4>. QED
        BY <1>3, <3>2, <4>3
    <3>. QED
      BY <1>3, <3>1, <3>2
  <2>. HIDE DEF cell, size
  <2>3. [i \in 1..size |-> cell(i)] \in [1..size -> Cell \cup {Uninit}]
    BY <2>2
  <2>. QED
    BY <1>3, <2>1, <2>3, IsASeq
<1>. HIDE DEF start, size
<1>5. Typed'
  <2>1. buf' \in Seq(Cell) /\ fail' \in BOOLEAN
    BY <1>1
  <2>2. pos' \in Nat /\ m_filePosition' \in Nat
    BY <1>3, <1>9 DEF AtLeast
  <2>. QED
    BY <1>1, <1>2, <1>4, <2>1, <2>2 DEF IInv, Typed, index
<1>6. PositionCoherent' /\ BufferAtEnd' /\ SessionShape'
  <2>1. ~fail' => ~fail /\ pos' = m_filePosition'
    BY <1>1, <1>3, <1>9
  <2>. QED
    BY <1>1, <2>1 DEF PositionCoherent, BufferAtEnd, SessionShape
<1>7. ExtentsInside'
  BY <1>1 DEF IInv, ExtentsInside, Bound, index
<1>8. \A i \in 1..Settled : i <= Len(disk) => i <= Len(disk') /\ disk'[i] = disk[i]
  <2>. HIDE DEF Settled
  <2>1. Settled \in Int
    BY DEF IInv, Typed, Settled
  <2>. QED
    BY <1>2, <2>1
<1>. QED
  BY <1>5, <1>6, <1>7, <1>8 DEF IInv, Keeps

\* Writing part of the trailer behind the records, after a flush.
LEMMA TrailerProperties ==
    ASSUME IInv, pc = "open", NEW k \in 0..Len(Trailer)
    PROVE  LET out == Overlay(Flushed, m_maxPosition, SubSeq(Trailer, 1, k))
           IN  /\ Trailer \in Seq(Cell) /\ SubSeq(Trailer, 1, Len(Trailer)) = Trailer
               /\ out \in Seq(Cell)
               /\ \A i \in 1..Settled : i <= Len(disk) => i <= Len(out) /\ out[i] = disk[i]
<1>1. Trailer \in Seq(Cell)
  <2>1. 2 * Block \in Nat
    BY DEF Block
  <2>2. Zeros(2 * Block) \in Seq(Cell)
    BY <2>1, ZerosProperties
  <2>3. <<>> \in Seq(Cell)
    OBVIOUS
  <2>. QED
    BY <2>2, <2>3, Zenon DEF Trailer
<1>2. SubSeq(Trailer, 1, k) \in Seq(Cell) /\ SubSeq(Trailer, 1, Len(Trailer)) = Trailer
  BY <1>1
<1>3. /\ Flushed \in Seq(Cell) /\ Len(Flushed) >= Len(disk) /\ disk \in Seq(Cell)
      /\ \A i \in 1..Settled : i <= Len(disk) => Flushed[i] = disk[i]
  BY FlushedProperties DEF IInv, Typed
<1>4. m_maxPosition \in Nat /\ Settled \in Int /\ Settled <= m_maxPosition
  BY DEF IInv, Typed, BufferAtEnd, Settled
<1>. DEFINE part == SubSeq(Trailer, 1, k)
            out == Overlay(Flushed, m_maxPosition, part)
<1>5. /\ out \in Seq(Cell) /\ Len(out) >= Len(Flushed)
      /\ \A i \in 1..m_maxPosition : i <= Len(Flushed) => out[i] = Flushed[i]
  <2>1. part \in Seq(Cell)
    BY <1>2
  <2>. HIDE DEF part
  <2>. QED
    BY <1>3, <1>4, <2>1, OverlayProperties
<1>. HIDE DEF out
<1>6. \A i \in 1..Settled : i <= Len(disk) => i <= Len(out) /\ out[i] = disk[i]
  <2>. SUFFICES ASSUME NEW i \in 1..Settled, i <= Len(disk)
                PROVE  i <= Len(out) /\ out[i] = disk[i]
    OBVIOUS
  <2>1. Len(disk) \in Nat /\ Len(Flushed) \in Nat /\ Len(out) \in Nat
    BY <1>3, <1>5
  <2>2. i \in 1..m_maxPosition /\ i <= Len(Flushed)
    BY <1>3, <1>4, <2>1
  <2>3. i <= Len(out)
    BY <1>5, <2>1, <2>2
  <2>. QED
    BY <1>3, <1>5, <2>2, <2>3
<1>. QED
  BY <1>1, <1>2, <1>5, <1>6 DEF out

\* close writes the trailer and forgets the session.
LEMMA CloseStep ==
    ASSUME IInv, Close
    PROVE  Keeps
<1>1. pc = "open" /\ disk' = Overlay(Flushed, m_maxPosition, Trailer) /\ Forget
      /\ exists' = exists
  BY DEF Close
<1>2. Trailer \in Seq(Cell)
  <2>1. 0 \in 0..Len(Trailer)
    BY ZerosProperties DEF Trailer, Block
  <2>. QED
    BY <1>1, <2>1, TrailerProperties
<1>3. Len(Trailer) \in 0..Len(Trailer)
  BY <1>2
<1>4. LET out == Overlay(Flushed, m_maxPosition, SubSeq(Trailer, 1, Len(Trailer)))
      IN  /\ Trailer \in Seq(Cell) /\ SubSeq(Trailer, 1, Len(Trailer)) = Trailer
          /\ out \in Seq(Cell)
          /\ \A i \in 1..Settled : i <= Len(disk) => i <= Len(out) /\ out[i] = disk[i]
  BY <1>1, <1>3, TrailerProperties
<1>5. /\ disk' \in Seq(Cell)
      /\ \A i \in 1..Settled : i <= Len(disk) => i <= Len(disk') /\ disk'[i] = disk[i]
  BY <1>1, <1>4
<1>6. IInv'
  BY <1>1, <1>5, ForgetStep DEF IInv, Typed
<1>. QED
  BY <1>5, <1>6 DEF Keeps

\* A crash inside close.
LEMMA CrashInCloseStep ==
    ASSUME IInv, CrashInClose
    PROVE  Keeps
<1>1. pc = "open" /\ Forget /\ exists' = exists
  BY DEF CrashInClose
<1>2. PICK k \in 1..Len(Trailer) :
        disk' = Overlay(Flushed, m_maxPosition, SubSeq(Trailer, 1, k))
  BY DEF CrashInClose
<1>3. k \in 0..Len(Trailer)
  OBVIOUS
<1>4. LET out == Overlay(Flushed, m_maxPosition, SubSeq(Trailer, 1, k))
      IN  /\ Trailer \in Seq(Cell) /\ SubSeq(Trailer, 1, Len(Trailer)) = Trailer
          /\ out \in Seq(Cell)
          /\ \A i \in 1..Settled : i <= Len(disk) => i <= Len(out) /\ out[i] = disk[i]
  BY <1>1, <1>3, TrailerProperties
<1>5. /\ disk' \in Seq(Cell)
      /\ \A i \in 1..Settled : i <= Len(disk) => i <= Len(disk') /\ disk'[i] = disk[i]
  BY <1>2, <1>4
<1>6. IInv'
  BY <1>1, <1>5, ForgetStep DEF IInv, Typed
<1>. QED
  BY <1>5, <1>6 DEF Keeps

\* A crash: part of the buffer is in the file, the session is gone.
LEMMA CrashStep ==
    ASSUME IInv, Crash
    PROVE  Keeps
<1>1. Forget /\ exists' = exists
  BY DEF Crash
<1>2. PICK k \in 0..Len(buf) : disk' = Overlay(disk, pos - Len(buf), SubSeq(buf, 1, k))
  BY DEF Crash
<1>3. LET out == Overlay(disk, pos - Len(buf), SubSeq(buf, 1, k))
      IN  /\ SubSeq(buf, 1, Len(buf)) = buf
          /\ out \in Seq(Cell)
          /\ Len(out) >= Len(disk)
          /\ \A i \in 1..Settled : i <= Len(disk) => out[i] = disk[i]
  BY FlushProperties DEF IInv
<1>4. disk' \in Seq(Cell) /\ Len(disk') >= Len(disk)
      /\ \A i \in 1..Settled : i <= Len(disk) => disk'[i] = disk[i]
  BY <1>2, <1>3
<1>5. IInv'
  BY <1>1, <1>4, ForgetStep DEF IInv, Typed
<1>6. \A i \in 1..Settled : i <= Len(disk) => i <= Len(disk') /\ disk'[i] = disk[i]
  <2>1. Settled \in Int /\ disk \in Seq(Cell)
    BY DEF IInv, Typed, Settled
  <2>. HIDE DEF Settled
  <2>. QED
    BY <1>4, <2>1
<1>. QED
  BY <1>5, <1>6 DEF Keeps

\* Every step keeps the invariant, and the cells of an open archive.
LEMMA NextStep ==
    ASSUME NoMinus, IInv, [Next]_vars
    PROVE  IInv' /\ (pc = "open" => Keeps)
<1>1. ASSUME NEW mode \in {"Read", "Write", "Append"}, Open(mode)
      PROVE  IInv' /\ (pc = "open" => Keeps)
  BY <1>1, OpenStep DEF Open
<1>2. CASE ScanRecord
  BY <1>2, ScanRecordStep DEF ScanRecord
<1>3. CASE ScanSkip
  BY <1>3, ScanSkipStep DEF ScanSkip
<1>4. CASE ScanThrow
  BY <1>4, ForgetStep DEF ScanThrow, IInv, Typed, file
<1>5. CASE ScanDone
  BY <1>5, ScanDoneStep DEF ScanDone
<1>6. ASSUME NEW p \in Path, NEW c \in Content, NEW immediate \in BOOLEAN,
             WritePtr(p, c, immediate)
      PROVE  IInv' /\ (pc = "open" => Keeps)
  BY <1>6, WritePtrStep DEF Keeps
<1>7. ASSUME NEW p \in Path, WriteTooLong(p)
      PROVE  IInv' /\ (pc = "open" => Keeps)
  BY <1>7, WriteTooLongStep DEF Keeps
<1>8. ASSUME NEW p \in Path, Read(p)
      PROVE  IInv' /\ (pc = "open" => Keeps)
  BY <1>8, ReadStep DEF Keeps
<1>9. ASSUME NEW p \in Path, ReadMissing(p)
      PROVE  IInv' /\ (pc = "open" => Keeps)
  BY <1>9, QuietStep DEF Keeps, ReadMissing
<1>10. CASE WriteReadOnly
  BY <1>10, QuietStep DEF Keeps, WriteReadOnly
<1>11. CASE EndBulkWrites
  BY <1>11, EndBulkWritesStep DEF Keeps
<1>12. CASE Close
  BY <1>12, CloseStep DEF Keeps
<1>13. CASE Crash
  BY <1>13, CrashStep DEF Keeps
<1>14. CASE CrashInClose
  BY <1>14, CrashInCloseStep DEF Keeps
<1>15. CASE UNCHANGED vars
  <2>1. UNCHANGED <<file, stream, index, pc, m_mode, offset, m_filePosition, m_maxPosition, reply>>
    BY <1>15 DEF vars
  <2>2. IInv'
    BY <2>1 DEF file, stream, index, IInv, Typed, PositionCoherent, BufferAtEnd,
                ExtentsInside, Bound, SessionShape, EndOfRecords
  <2>3. disk \in Seq(Cell) /\ disk' = disk
    BY <2>1 DEF file, IInv, Typed
  <2>. QED
    BY <2>2, <2>3 DEF Keeps
<1>. QED
  BY <1>1, <1>2, <1>3, <1>4, <1>5, <1>6, <1>7, <1>8, <1>9, <1>10, <1>11, <1>12, <1>13,
     <1>14, <1>15 DEF Next, Scan

-----------------------------------------------------------------------------
(* Theorems *)

\* Every reachable state of a tar archive satisfies the inductive invariant.
THEOREM Invariance ==
    ASSUME NoMinus
    PROVE  Spec => []IInv
<1>1. Init => IInv
  BY InitStep
<1>2. IInv /\ [Next]_vars => IInv'
  BY NextStep
<1>. QED
  BY <1>1, <1>2, PTL DEF Spec

\* The file, the stream and the index have their types (TarArchive.hpp:56-72).
THEOREM TypeCorrect ==
    ASSUME NoMinus
    PROVE  Spec => []TypeOK
<1>1. IInv => TypeOK
  BY DEF IInv, Typed, TypeOK, PartialMap, NoMinus, Position
<1>. QED
  BY <1>1, Invariance, PTL

\* When writePtr skips its seek the stream is at the end of the records.
THEOREM StreamPosition ==
    ASSUME NoMinus
    PROVE  Spec => []PositionCoherent
<1>1. IInv => PositionCoherent
  BY DEF IInv
<1>. QED
  BY <1>1, Invariance, PTL

\* What is buffered lies behind every record that is in the file.
THEOREM BufferBehindRecords ==
    ASSUME NoMinus
    PROVE  Spec => []BufferAtEnd
<1>1. IInv => BufferAtEnd
  BY DEF IInv
<1>. QED
  BY <1>1, Invariance, PTL

\* Every indexed extent ends before the place of the next record.
THEOREM ExtentsBeforeEnd ==
    ASSUME NoMinus
    PROVE  Spec => []ExtentsInside
<1>1. IInv => ExtentsInside
  BY DEF IInv
<1>. QED
  BY <1>1, Invariance, PTL

\* The constructor's loop has a variant, bounded by the length of the file.
THEOREM ScanMovesOn ==
    ASSUME NoMinus
    PROVE  Spec => ScanAdvances
<1>1. ASSUME IInv, Next, pc = "scanning", pc' = "scanning"
      PROVE  /\ offset <= pos /\ pos < Len(disk)
             /\ offset' > offset \/ (offset' = offset /\ pos' > pos)
  <2>1. ScanRecord \/ ScanSkip
    BY <1>1 DEF Next, Scan, Open, ScanThrow, ScanDone, Forget, WritePtr, WriteTooLong, Read,
       ReadMissing, WriteReadOnly, EndBulkWrites, Close, Crash, CrashInClose
  <2>2. /\ disk \in Seq(Cell) /\ pos \in Nat /\ offset \in Nat
        /\ fail \/ offset <= pos
    BY <1>1 DEF IInv, Typed, SessionShape
  <2>3. CASE ScanRecord
    <3>1. HeaderCell(1) = Magic /\ Zero # Magic
      BY <2>3, TarAssumption DEF ScanRecord
    <3>2. ~fail /\ CellAt(disk, pos + 1) = Magic
      BY <3>1 DEF HeaderCell
    <3>3. pos + 1 < Len(disk)
      BY <2>2, <3>1, <3>2 DEF CellAt
    <3>4. SizeOf(disk, pos) \in Nat
      BY <2>2, HeaderFields
    <3>5. Padded(SizeOf(disk, pos)) \in Nat
      BY <3>4, PaddedProperties
    <3>6. offset' = offset + Block + Padded(SizeOf(disk, pos))
      BY <2>3 DEF ScanRecord
    <3>. QED
      BY <2>2, <3>2, <3>3, <3>5, <3>6 DEF Block
  <2>4. CASE ScanSkip
    BY <2>2, <2>4 DEF ScanSkip, NextBlock, HitsEnd, Block
  <2>. QED
    BY <2>1, <2>3, <2>4
<1>2. IInv /\ [Next]_vars =>
        [pc = "scanning" /\ pc' = "scanning" =>
           /\ offset <= pos /\ pos < Len(disk)
           /\ offset' > offset \/ (offset' = offset /\ pos' > pos)]_vars
  BY <1>1
<1>. QED
  BY <1>2, Invariance, PTL DEF Spec, ScanAdvances

\* No operation, close or crash changes a cell of a record in the file.
THEOREM RecordsAreKept ==
    ASSUME NoMinus
    PROVE  Spec => RecordsKept
<1>1. IInv /\ [Next]_vars =>
        [pc = "open" =>
           \A i \in 1..Settled : i <= Len(disk) => i <= Len(disk') /\ disk'[i] = disk[i]]_vars
  BY NextStep DEF Keeps
<1>. QED
  BY <1>1, Invariance, PTL DEF Spec, RecordsKept

-----------------------------------------------------------------------------
(* Numbers *)

\* A set of natural numbers that is not empty has a least element.
LEMMA LeastElement ==
    ASSUME NEW T \in SUBSET Nat, T # {}
    PROVE  \E least \in T : \A k \in T : least <= k
<1>. DEFINE Upto(k) == 0..k
            family == {Upto(k) : k \in T}
<1>1. family \subseteq FiniteSubsetsOf(Nat) /\ family # {}
  <2>1. ASSUME NEW k \in T
        PROVE  IsFiniteSet(Upto(k)) /\ Upto(k) \subseteq Nat
    <3>1. k \in Int /\ 0 \in Int
      OBVIOUS
    <3>. QED
      BY <3>1, FS_Interval
  <2>. QED
    BY <2>1 DEF FiniteSubsetsOf
<1>2. \E X \in family : \A Y \in family : <<Y, X>> \notin StrictSubsetOrdering(Nat)
  <2>. HIDE DEF family
  <2>. QED
    BY <1>1, FS_StrictSubsetOrderingWellFounded, WFMin
<1>3. PICK least \in T : \A k \in T : <<Upto(k), Upto(least)>> \notin StrictSubsetOrdering(Nat)
  BY <1>2
<1>4. ASSUME NEW k \in T, k < least
      PROVE  <<Upto(k), Upto(least)>> \in StrictSubsetOrdering(Nat)
  BY <1>4 DEF StrictSubsetOrdering
<1>5. \A k \in T : ~(k < least)
  <2>. HIDE DEF Upto
  <2>. QED
    BY <1>3, <1>4
<1>6. \A k \in T : k \in Nat /\ least \in Nat
  OBVIOUS
<1>. QED
  BY <1>5, <1>6

-----------------------------------------------------------------------------
(* The records of a file, without recursion *)

\* What a listing of a file says of one record, and what the header at o says.
FileRecord == [path : AnyPath, start : Nat, size : Nat]
RecordAt(f, o) == [path |-> PathOf(f, o), start |-> o + Block, size |-> SizeOf(f, o)]

\* rs lists records of f from position o on: each begins where the one before it
\* ends, with a header.
ListsFrom(f, o, rs) ==
    /\ rs \in Seq(FileRecord)
    /\ \A i \in 1..Len(rs) : /\ CellAt(f, PlaceFrom(o, rs, i) + 1) = Magic
                             /\ rs[i] = RecordAt(f, PlaceFrom(o, rs, i))
Lists(f, rs) == ListsFrom(f, 0, rs)

\* rs lists all of them.
ListsAllFrom(f, o, rs) ==
    ListsFrom(f, o, rs) /\ CellAt(f, PlaceFrom(o, rs, Len(rs) + 1) + 1) # Magic
ListsAll(f, rs) == ListsAllFrom(f, 0, rs)

\* Nothing but such cells lies behind the records of f.
Tidy(f) == \A q \in Nat : q > EndOfAll(Records(f)) => CellAt(f, q) \in Leftover

\* The i-th record of rs is the last one of path p.
IsLast(rs, p, i) ==
    i \in 1..Len(rs) /\ rs[i].path = p /\ \A j \in 1..Len(rs) : rs[j].path = p => j <= i

\* An index that says what the listing rs says.
Indexes(names, offsets, sizes, rs) ==
    /\ names = [i \in 1..Len(rs) |-> rs[i].path]
    /\ \A p \in DOMAIN offsets :
         \E i \in 1..Len(rs) :
           IsLast(rs, p, i) /\ offsets[p] = rs[i].start /\ sizes[p] = rs[i].size

IndexIs(rs) == Indexes(m_fileNames, m_fileOffsets, m_fileSizes, rs)

\* In the constructor: the index lists the first records of the file, and the
\* scan is at the header that comes next, or past it when it is the end.
ScanAgrees ==
    pc = "scanning" =>
      LET rs == Records(disk)
          n  == Len(m_fileNames)
      IN  /\ n <= Len(rs)
          /\ IndexIs(SubSeq(rs, 1, n))
          /\ offset = HeaderPlace(rs, n + 1)
          /\ ~fail => pos = offset \/ (n = Len(rs) /\ pos > offset)
          /\ fail => n = Len(rs)

\* In a session: the index lists the records of the file as flushed, which end where
\* the next write begins; those in the file itself end where the buffer begins.
OpenAgrees ==
    pc = "open" /\ ~fail =>
      /\ Tidy(Flushed)
      /\ IndexIs(Records(Flushed))
      /\ EndOfAll(Records(Flushed)) = m_maxPosition
      /\ EndOfAll(Records(disk)) = Settled

\* A closed archive's stream, for the constructor to start from.
ClosedAtStart == pc = "closed" => pos = 0

\* A record in the buffer is one a caller wrote, whole.
PendingWhole ==
    pc = "open" /\ ~fail =>
      LET all  == Records(Flushed)
          kept == Len(Records(disk))
      IN  \A i \in 1..Len(all) : i > kept =>
            all[i].path \in Path \ TooLong /\ ContentOf(Flushed, all[i]) \in Content

\* The file at every moment of a session, and between sessions.
FileInv == Tidy(disk) /\ ScanAgrees /\ OpenAgrees /\ ClosedAtStart

-----------------------------------------------------------------------------
(* Cells of a file *)

\* Past the end of a file there is a NUL, and every cell read is a cell.
LEMMA CellAtProperties ==
    ASSUME NEW f \in Seq(Cell), NEW o \in Nat
    PROVE  /\ CellAt(f, o) \in Cell
           /\ o >= Len(f) => CellAt(f, o) = Zero
           /\ o < Len(f) => CellAt(f, o) = f[o + 1]
           /\ CellAt(f, o) = Magic => o < Len(f)
<1>1. Zero \in Cell /\ Zero # Magic
  BY TarAssumption DEF Cell
<1>2. o < Len(f) => f[o + 1] \in Cell
  OBVIOUS
<1>. QED
  BY <1>1, <1>2 DEF CellAt

\* Padding is an upper bound, and the header is three cells.
LEMMA RecordAtProperties ==
    ASSUME NoMinus, NEW f \in Seq(Cell), NEW o \in Nat
    PROVE  /\ RecordAt(f, o) \in FileRecord
           /\ EndOf(RecordAt(f, o)) = o + Block + Padded(SizeOf(f, o))
           /\ EndOf(RecordAt(f, o)) \in Nat
           /\ EndOf(RecordAt(f, o)) >= o + 3
<1>1. PathOf(f, o) \in AnyPath /\ SizeOf(f, o) \in Nat
  BY HeaderFields
<1>2. Padded(SizeOf(f, o)) \in Nat
  BY <1>1, PaddedProperties
<1>3. o + Block \in Nat /\ Block = 3
  BY DEF Block
<1>. HIDE DEF Block
<1>4. RecordAt(f, o) \in FileRecord
  BY <1>1, <1>3 DEF RecordAt, FileRecord
<1>5. RecordAt(f, o).start = o + Block /\ RecordAt(f, o).size = SizeOf(f, o)
  BY DEF RecordAt
<1>6. EndOf(RecordAt(f, o)) = o + Block + Padded(SizeOf(f, o))
  BY <1>5 DEF EndOf
<1>. QED
  BY <1>2, <1>3, <1>4, <1>6

\* A record has an end, not before its contents end.
LEMMA EndOfProperties ==
    ASSUME NEW r \in FileRecord
    PROVE  /\ EndOf(r) \in Nat
           /\ r.start \in Nat /\ r.size \in Nat
           /\ EndOf(r) >= r.start + r.size
<1>1. r.start \in Nat /\ r.size \in Nat
  BY DEF FileRecord
<1>. QED
  BY <1>1, PaddedProperties DEF EndOf

\* Three sequences, one after the other.
LEMMA ThreeParts ==
    ASSUME NEW S, NEW s \in Seq(S), NEW t \in Seq(S), NEW u \in Seq(S),
           NEW all, all = (s \o t) \o u
    PROVE  /\ all \in Seq(S)
           /\ Len(all) = Len(s) + Len(t) + Len(u)
           /\ \A i \in 1..Len(all) :
                all[i] = IF i <= Len(s) THEN s[i]
                         ELSE IF i <= Len(s) + Len(t) THEN t[i - Len(s)]
                         ELSE u[i - Len(s) - Len(t)]
<1>. DEFINE front == s \o t
<1>1. /\ front \in Seq(S) /\ Len(front) = Len(s) + Len(t)
      /\ \A i \in 1..Len(s) + Len(t) :
           front[i] = IF i <= Len(s) THEN s[i] ELSE t[i - Len(s)]
  BY ConcatProperties, Zenon
<1>. HIDE DEF front
<1>2. /\ front \o u \in Seq(S) /\ Len(front \o u) = Len(front) + Len(u)
      /\ \A i \in 1..Len(front) + Len(u) :
           (front \o u)[i] = IF i <= Len(front) THEN front[i] ELSE u[i - Len(front)]
  <2>1. front \in Seq(S)
    BY <1>1
  <2>. QED
    BY <2>1, ConcatProperties, Zenon
<1>3. /\ all \in Seq(S) /\ Len(all) = Len(front) + Len(u)
      /\ \A i \in 1..Len(front) + Len(u) :
           all[i] = IF i <= Len(front) THEN front[i] ELSE u[i - Len(front)]
  <2>1. all = front \o u
    BY DEF front
  <2>. QED
    BY <1>2, <2>1
<1>4. Len(s) \in Nat /\ Len(t) \in Nat /\ Len(u) \in Nat
  OBVIOUS
<1>5. ASSUME NEW i \in 1..Len(all)
      PROVE  all[i] = IF i <= Len(s) THEN s[i]
                      ELSE IF i <= Len(s) + Len(t) THEN t[i - Len(s)]
                      ELSE u[i - Len(s) - Len(t)]
  <2>1. i \in 1..Len(front) + Len(u)
    BY <1>3
  <2>2. CASE i <= Len(front)
    <3>1. i \in 1..Len(s) + Len(t)
      BY <1>1, <1>4, <2>2
    <3>. QED
      BY <1>1, <1>3, <1>4, <2>1, <2>2, <3>1
  <2>3. CASE ~(i <= Len(front))
    <3>1. all[i] = u[i - Len(front)]
      BY <1>3, <2>1, <2>3
    <3>2. i - Len(front) = i - Len(s) - Len(t) /\ ~(i <= Len(s)) /\ ~(i <= Len(s) + Len(t))
      BY <1>1, <1>4, <2>3
    <3>. QED
      BY <3>1, <3>2
  <2>. QED
    BY <2>2, <2>3
<1>6. all \in Seq(S) /\ Len(all) = Len(s) + Len(t) + Len(u)
  BY <1>1, <1>3
<1>. QED
  BY <1>5, <1>6

\* What one overwrite leaves in each cell, and how long the file is then.
LEMMA OverlayCells ==
    ASSUME NEW f \in Seq(Cell), NEW o \in Nat, NEW s \in Seq(Cell)
    PROVE  LET out == Overlay(f, o, s)
           IN  /\ out \in Seq(Cell)
               /\ Len(out) = IF s = <<>> \/ o + Len(s) <= Len(f) THEN Len(f) ELSE o + Len(s)
               /\ \A q \in Nat :
                    CellAt(out, q) = IF o <= q /\ q < o + Len(s) THEN s[q - o + 1]
                                     ELSE CellAt(f, q)
<1>1. CASE s = <<>>
  BY <1>1 DEF Overlay
<1>2. CASE s # <<>> /\ Len(f) < o
  <2>. DEFINE hole == Zeros(o - Len(f))
              out == (f \o hole) \o s
  <2>1. hole \in Seq(Cell) /\ Len(hole) = o - Len(f) /\ (\A i \in 1..Len(hole) : hole[i] = Zero)
    <3>1. o - Len(f) \in Nat
      BY <1>2
    <3>2. Zeros(o - Len(f)) \in Seq(Cell) /\ Len(Zeros(o - Len(f))) = o - Len(f)
      BY <3>1, ZerosProperties
    <3>3. \A i \in 1..(o - Len(f)) : Zeros(o - Len(f))[i] = Zero
      BY DEF Zeros
    <3>. QED
      BY <3>2, <3>3
  <2>2. Overlay(f, o, s) = out
    BY <1>2, Zenon DEF Overlay, hole, out
  <2>. HIDE DEF hole
  <2>3. /\ out \in Seq(Cell) /\ Len(out) = Len(f) + Len(hole) + Len(s)
        /\ \A i \in 1..Len(out) :
             out[i] = IF i <= Len(f) THEN f[i]
                      ELSE IF i <= Len(f) + Len(hole) THEN hole[i - Len(f)]
                      ELSE s[i - Len(f) - Len(hole)]
    <3>1. f \in Seq(Cell) /\ hole \in Seq(Cell) /\ s \in Seq(Cell)
      BY <2>1
    <3>2. out = (f \o hole) \o s
      BY DEF out
    <3>. HIDE DEF out
    <3>. QED
      BY <3>1, <3>2, ThreeParts
  <2>. HIDE DEF out
  <2>4. Len(out) = o + Len(s) /\ Len(f) \in Nat /\ Len(s) \in Nat /\ Len(f) < o
    BY <1>2, <2>1, <2>3
  <2>5. ASSUME NEW q \in Nat
        PROVE  CellAt(out, q) = IF o <= q /\ q < o + Len(s) THEN s[q - o + 1]
                                ELSE CellAt(f, q)
    <3>1. CASE q < Len(f)
      <4>1. q + 1 \in 1..Len(out) /\ q + 1 <= Len(f) /\ q < Len(out) /\ ~(o <= q)
        BY <2>4, <3>1
      <4>2. out[q + 1] = f[q + 1]
        BY <2>3, <4>1
      <4>. QED
        BY <3>1, <4>1, <4>2 DEF CellAt
    <3>2. CASE Len(f) <= q /\ q < o
      <4>1. /\ q + 1 \in 1..Len(out) /\ ~(q + 1 <= Len(f)) /\ q + 1 <= Len(f) + Len(hole)
            /\ q < Len(out) /\ ~(o <= q) /\ ~(q < Len(f)) /\ q + 1 - Len(f) \in 1..Len(hole)
        BY <2>1, <2>4, <3>2
      <4>2. out[q + 1] = hole[q + 1 - Len(f)]
        BY <2>3, <4>1
      <4>. QED
        BY <2>1, <4>1, <4>2 DEF CellAt
    <3>3. CASE o <= q /\ q < o + Len(s)
      <4>1. /\ q + 1 \in 1..Len(out) /\ ~(q + 1 <= Len(f)) /\ ~(q + 1 <= Len(f) + Len(hole))
            /\ q < Len(out) /\ q + 1 - Len(f) - Len(hole) = q - o + 1
        BY <2>1, <2>4, <3>3
      <4>2. out[q + 1] = s[q + 1 - Len(f) - Len(hole)]
        BY <2>3, <4>1
      <4>. QED
        BY <3>3, <4>1, <4>2 DEF CellAt
    <3>4. CASE o + Len(s) <= q
      BY <2>4, <3>4 DEF CellAt
    <3>. QED
      BY <2>4, <3>1, <3>2, <3>3, <3>4
  <2>6. s # <<>> /\ ~(o + Len(s) <= Len(f))
    BY <1>2, <2>4
  <2>. QED
    BY <2>2, <2>3, <2>4, <2>5, <2>6
<1>3. CASE s # <<>> /\ o <= Len(f)
  <2>. DEFINE head == SubSeq(f, 1, o)
              tail == SubSeq(f, o + Len(s) + 1, Len(f))
              out == (head \o s) \o tail
  <2>1. head \in Seq(Cell) /\ Len(head) = o /\ (\A i \in 1..o : head[i] = f[i])
    BY <1>3
  <2>2. /\ tail \in Seq(Cell)
        /\ Len(tail) = IF o + Len(s) + 1 <= Len(f) THEN Len(f) - (o + Len(s) + 1) + 1 ELSE 0
        /\ \A i \in 1..(Len(f) - (o + Len(s) + 1) + 1) : tail[i] = f[o + Len(s) + 1 + i - 1]
    <3>1. /\ o + Len(s) + 1 \in Int /\ Len(f) \in Int
          /\ \A i \in (o + Len(s) + 1)..Len(f) : f[i] \in Cell
      OBVIOUS
    <3>. QED
      BY <3>1, SubSeqProperties
  <2>3. Overlay(f, o, s) = out
    <3>1. ~ (Len(f) < o)
      BY <1>3
    <3>. QED
      BY <1>3, <3>1, Zenon DEF Overlay, head, tail, out
  <2>. HIDE DEF head, tail
  <2>4. /\ out \in Seq(Cell) /\ Len(out) = Len(head) + Len(s) + Len(tail)
        /\ \A i \in 1..Len(out) :
             out[i] = IF i <= Len(head) THEN head[i]
                      ELSE IF i <= Len(head) + Len(s) THEN s[i - Len(head)]
                      ELSE tail[i - Len(head) - Len(s)]
    <3>1. head \in Seq(Cell) /\ s \in Seq(Cell) /\ tail \in Seq(Cell)
      BY <2>1, <2>2
    <3>2. out = (head \o s) \o tail
      BY DEF out
    <3>. HIDE DEF out
    <3>. QED
      BY <3>1, <3>2, ThreeParts
  <2>. HIDE DEF out
  <2>5. /\ Len(f) \in Nat /\ Len(s) \in Nat /\ o <= Len(f) /\ Len(tail) \in Nat
        /\ Len(out) = IF o + Len(s) <= Len(f) THEN Len(f) ELSE o + Len(s)
    <3>1. Len(f) \in Nat /\ Len(s) \in Nat /\ o <= Len(f)
      BY <1>3
    <3>2. Len(out) = o + Len(s) + Len(tail)
      BY <2>1, <2>4
    <3>3. Len(tail) = IF o + Len(s) + 1 <= Len(f) THEN Len(f) - (o + Len(s) + 1) + 1 ELSE 0
      BY <2>2
    <3>. HIDE DEF tail, head, out
    <3>4. CASE o + Len(s) + 1 <= Len(f)
      BY <3>1, <3>2, <3>3, <3>4
    <3>5. CASE ~(o + Len(s) + 1 <= Len(f))
      BY <3>1, <3>2, <3>3, <3>5
    <3>. QED
      BY <3>4, <3>5
  <2>6. ASSUME NEW q \in Nat
        PROVE  CellAt(out, q) = IF o <= q /\ q < o + Len(s) THEN s[q - o + 1]
                                ELSE CellAt(f, q)
    <3>1. CASE q < o
      <4>1. /\ q + 1 \in 1..Len(out) /\ q + 1 <= Len(head) /\ q < Len(out) /\ ~(o <= q)
            /\ q < Len(f) /\ q + 1 \in 1..o
        BY <2>1, <2>5, <3>1
      <4>2. out[q + 1] = head[q + 1]
        BY <2>4, <4>1
      <4>3. head[q + 1] = f[q + 1]
        BY <2>1, <4>1
      <4>. QED
        BY <4>1, <4>2, <4>3 DEF CellAt
    <3>2. CASE o <= q /\ q < o + Len(s)
      <4>1. /\ q + 1 \in 1..Len(out) /\ ~(q + 1 <= Len(head)) /\ q + 1 <= Len(head) + Len(s)
            /\ q < Len(out) /\ q + 1 - Len(head) = q - o + 1
        BY <2>1, <2>5, <3>2
      <4>2. out[q + 1] = s[q + 1 - Len(head)]
        BY <2>4, <4>1
      <4>. QED
        BY <3>2, <4>1, <4>2 DEF CellAt
    <3>3. CASE o + Len(s) <= q /\ q < Len(f)
      <4>1. /\ q + 1 \in 1..Len(out) /\ ~(q + 1 <= Len(head)) /\ ~(q + 1 <= Len(head) + Len(s))
            /\ q < Len(out) /\ ~(q < o + Len(s))
            /\ q + 1 - Len(head) - Len(s) \in 1..(Len(f) - (o + Len(s) + 1) + 1)
            /\ o + Len(s) + 1 + (q + 1 - Len(head) - Len(s)) - 1 = q + 1
        BY <2>1, <2>5, <3>3
      <4>2. out[q + 1] = tail[q + 1 - Len(head) - Len(s)]
        <5>1. out[q + 1] = IF q + 1 <= Len(head) THEN head[q + 1]
                           ELSE IF q + 1 <= Len(head) + Len(s) THEN s[q + 1 - Len(head)]
                           ELSE tail[q + 1 - Len(head) - Len(s)]
          BY <2>4, <4>1
        <5>. QED
          BY <4>1, <5>1
      <4>3. tail[q + 1 - Len(head) - Len(s)] = f[q + 1]
        <5>. DEFINE i == q + 1 - Len(head) - Len(s)
        <5>1. i \in 1..(Len(f) - (o + Len(s) + 1) + 1) /\ o + Len(s) + 1 + i - 1 = q + 1
          BY <4>1
        <5>. HIDE DEF i
        <5>2. tail[i] = f[o + Len(s) + 1 + i - 1]
          BY <2>2, <5>1
        <5>. QED
          BY <5>1, <5>2 DEF i
      <4>. QED
        BY <3>3, <4>1, <4>2, <4>3 DEF CellAt
    <3>4. CASE o + Len(s) <= q /\ Len(f) <= q
      BY <2>5, <3>4 DEF CellAt
    <3>. QED
      BY <2>5, <3>1, <3>2, <3>3, <3>4
  <2>. QED
    BY <1>3, <2>3, <2>4, <2>5, <2>6
<1>. QED
  BY <1>1, <1>2, <1>3

-----------------------------------------------------------------------------
(* Records lists the records *)

\* One record more in front of a listing.
LEMMA RecordInFront ==
    ASSUME NoMinus, NEW f \in Seq(Cell), NEW o \in Nat, CellAt(f, o + 1) = Magic,
           NEW rest, ListsAllFrom(f, EndOf(RecordAt(f, o)), rest)
    PROVE  ListsAllFrom(f, o, <<RecordAt(f, o)>> \o rest)
<1>. DEFINE r == RecordAt(f, o)
            next == EndOf(r)
            rs == <<r>> \o rest
<1>1. r \in FileRecord /\ next \in Nat
  BY RecordAtProperties
<1>2. /\ rest \in Seq(FileRecord)
      /\ \A i \in 1..Len(rest) : /\ CellAt(f, PlaceFrom(next, rest, i) + 1) = Magic
                                 /\ rest[i] = RecordAt(f, PlaceFrom(next, rest, i))
      /\ CellAt(f, PlaceFrom(next, rest, Len(rest) + 1) + 1) # Magic
  BY DEF ListsAllFrom, ListsFrom
<1>. HIDE DEF r
<1>3. /\ rs \in Seq(FileRecord) /\ Len(rs) = Len(rest) + 1 /\ Len(rest) \in Nat
      /\ rs[1] = r
      /\ \A i \in 1..Len(rest) : rs[i + 1] = rest[i]
  <2>1. <<r>> \in Seq(FileRecord) /\ Len(<<r>>) = 1 /\ <<r>>[1] = r
    BY <1>1
  <2>2. /\ rs \in Seq(FileRecord) /\ Len(rs) = Len(<<r>>) + Len(rest)
        /\ \A i \in 1..Len(<<r>>) + Len(rest) :
             rs[i] = IF i <= Len(<<r>>) THEN <<r>>[i] ELSE rest[i - Len(<<r>>)]
    <3>1. rest \in Seq(FileRecord)
      BY <1>2
    <3>. QED
      BY <2>1, <3>1, ConcatProperties, Zenon
  <2>. HIDE DEF rs
  <2>3. Len(rest) \in Nat
    BY <1>2
  <2>. QED
    BY <2>1, <2>2, <2>3
<1>. HIDE DEF rs, next
<1>4. ASSUME NEW i \in 1..Len(rest) + 1
      PROVE  PlaceFrom(o, rs, i + 1) = PlaceFrom(next, rest, i)
  <2>1. CASE i = 1
    BY <1>3, <2>1 DEF PlaceFrom, next
  <2>2. CASE i # 1
    <3>1. i - 1 \in 1..Len(rest) /\ i + 1 # 1 /\ (i + 1) - 1 = (i - 1) + 1
      BY <1>3, <2>2
    <3>2. rs[(i + 1) - 1] = rest[i - 1]
      BY <1>3, <3>1
    <3>. QED
      BY <2>2, <3>1, <3>2 DEF PlaceFrom
  <2>. QED
    BY <2>1, <2>2
<1>5. ASSUME NEW i \in 1..Len(rs)
      PROVE  CellAt(f, PlaceFrom(o, rs, i) + 1) = Magic /\ rs[i] = RecordAt(f, PlaceFrom(o, rs, i))
  <2>1. CASE i = 1
    BY <1>3, <2>1 DEF PlaceFrom, r
  <2>2. CASE i # 1
    <3>1. i - 1 \in 1..Len(rest) /\ i - 1 \in 1..Len(rest) + 1 /\ (i - 1) + 1 = i
      BY <1>3, <2>2
    <3>2. PlaceFrom(o, rs, i) = PlaceFrom(next, rest, i - 1)
      BY <1>4, <3>1
    <3>3. rs[i] = rest[i - 1]
      BY <1>3, <3>1
    <3>. QED
      BY <1>2, <3>1, <3>2, <3>3
  <2>. QED
    BY <2>1, <2>2
<1>6. PlaceFrom(o, rs, Len(rs) + 1) = PlaceFrom(next, rest, Len(rest) + 1)
  <2>1. Len(rest) + 1 \in 1..Len(rest) + 1
    BY <1>3
  <2>. QED
    BY <1>3, <1>4, <2>1
<1>7. ListsAllFrom(f, o, rs)
  BY <1>2, <1>3, <1>5, <1>6 DEF ListsAllFrom, ListsFrom
<1>. QED
  BY <1>7 DEF rs, r

\* Where there is no header, nothing is listed.
LEMMA NoRecord ==
    ASSUME NEW f, NEW o, CellAt(f, o + 1) # Magic
    PROVE  ListsAllFrom(f, o, <<>>)
<1>1. <<>> \in Seq(FileRecord) /\ Len(<<>>) = 0
  OBVIOUS
<1>2. PlaceFrom(o, <<>>, Len(<<>>) + 1) = o
  BY <1>1 DEF PlaceFrom
<1>3. ListsFrom(f, o, <<>>)
  BY <1>1 DEF ListsFrom
<1>. QED
  BY <1>2, <1>3 DEF ListsAllFrom

\* Records, the recursion, lists all the records of a file.
LEMMA RecordsListsAll ==
    ASSUME NoMinus, NEW f \in Seq(Cell)
    PROVE  ListsAll(f, Records(f))
<1>. DEFINE n == Len(f)
            Turn(g, o) ==
              IF CellAt(f, o + 1) # Magic THEN <<>>
              ELSE LET next == o + Block + Padded(SizeOf(f, o))
                   IN  <<[path |-> PathOf(f, o), start |-> o + Block, size |-> SizeOf(f, o)]>>
                       \o (IF o < next /\ next <= Len(f) THEN g[next] ELSE <<>>)
            After(o) == EndOf(RecordAt(f, o))
            Rest(g, o) == IF After(o) <= n THEN g[After(o)] ELSE <<>>
            Down(k, g) == g = [o \in (n - k)..n |-> Turn(g, o)]
            made == CHOOSE g : g = [o \in 0..n |-> Turn(g, o)]
<1>1. n \in Nat /\ n - n = 0
  OBVIOUS
<1>2. Records(f) = made[0]
  BY DEF Records
<1>3. ASSUME NEW g, NEW o \in Nat, CellAt(f, o + 1) # Magic
      PROVE  Turn(g, o) = <<>>
  BY <1>3
<1>5. ASSUME NEW o \in Nat
      PROVE  After(o) \in Nat /\ After(o) >= o + 3
  BY RecordAtProperties
<1>4. ASSUME NEW g, NEW o \in Nat, CellAt(f, o + 1) = Magic
      PROVE  Turn(g, o) = <<RecordAt(f, o)>> \o Rest(g, o)
  <2>1. After(o) = o + Block + Padded(SizeOf(f, o))
    BY RecordAtProperties
  <2>2. Turn(g, o) = <<RecordAt(f, o)>> \o
                     (IF /\ o < o + Block + Padded(SizeOf(f, o))
                         /\ o + Block + Padded(SizeOf(f, o)) <= Len(f)
                      THEN g[o + Block + Padded(SizeOf(f, o))] ELSE <<>>)
    BY <1>4 DEF RecordAt
  <2>3. o < o + Block + Padded(SizeOf(f, o))
    BY <2>1, <1>5
  <2>. HIDE DEF Turn
  <2>. QED
    BY <2>1, <2>2, <2>3, Zenon
<1>. HIDE DEF Turn, After, n
<1>6. ASSUME NEW g, NEW h, NEW o \in Nat,
             \A i \in (o + 1)..n : g[i] = h[i]
      PROVE  Turn(g, o) = Turn(h, o)
  <2>1. CASE CellAt(f, o + 1) # Magic
    BY <1>3, <2>1
  <2>2. CASE CellAt(f, o + 1) = Magic
    <3>1. Rest(g, o) = Rest(h, o)
      <4>1. CASE After(o) <= n
        <5>1. After(o) \in (o + 1)..n
          BY <1>1, <1>5, <4>1
        <5>. QED
          BY <1>6, <4>1, <5>1
      <4>2. CASE ~(After(o) <= n)
        BY <4>2
      <4>. QED
        BY <4>1, <4>2
    <3>. HIDE DEF Rest
    <3>. QED
      BY <1>4, <2>2, <3>1
  <2>. QED
    BY <2>1, <2>2
<1>7. \A k \in 0..n : \E g : Down(k, g)
  <2>. DEFINE bad == {k \in 0..n : ~ \E g : Down(k, g)}
  <2>. SUFFICES ASSUME bad # {} PROVE FALSE
    OBVIOUS
  <2>1. PICK k \in bad : \A j \in bad : k <= j
    <3>1. bad \in SUBSET Nat
      BY <1>1
    <3>. HIDE DEF bad
    <3>. QED
      BY <3>1, LeastElement
  <2>2. k \in 0..n /\ k \in Nat
    BY <1>1
  <2>3. PICK g : \A o \in (n - k + 1)..n : g[o] = Turn(g, o)
    <3>1. CASE k = 0
      BY <1>1, <3>1
    <3>2. CASE k # 0
      <4>1. k - 1 \in 0..n /\ ~(k <= k - 1)
        BY <1>1, <2>2, <3>2
      <4>2. k - 1 \notin bad
        BY <2>1, <4>1
      <4>3. PICK g : Down(k - 1, g)
        BY <4>1, <4>2
      <4>4. n - (k - 1) = n - k + 1
        BY <1>1, <2>2
      <4>5. \A o \in (n - k + 1)..n : g[o] = Turn(g, o)
        <5>1. g = [o \in (n - (k - 1))..n |-> Turn(g, o)]
          BY <4>3
        <5>. QED
          BY <4>4, <5>1
      <4>. QED
        BY <4>5
    <3>. QED
      BY <3>1, <3>2
  <2>. DEFINE h == [o \in (n - k)..n |-> IF o = n - k THEN Turn(g, n - k) ELSE g[o]]
  <2>4. ASSUME NEW o \in (n - k)..n
        PROVE  h[o] = Turn(h, o)
    <3>1. o \in Nat /\ n - k \in Nat
      BY <1>1, <2>2
    <3>2. ASSUME NEW i \in (o + 1)..n PROVE g[i] = h[i]
      <4>1. i \in (n - k)..n /\ i # n - k
        BY <1>1, <2>2, <3>1
      <4>. QED
        BY <4>1
    <3>3. Turn(g, o) = Turn(h, o)
      <4>. HIDE DEF h
      <4>. QED
        BY <1>6, <3>1, <3>2
    <3>4. CASE o = n - k
      <4>1. h[o] = Turn(g, n - k)
        BY <3>4
      <4>. QED
        BY <3>3, <3>4, <4>1
    <3>5. CASE o # n - k
      <4>1. h[o] = g[o]
        BY <3>5
      <4>2. o \in (n - k + 1)..n
        BY <1>1, <2>2, <3>5
      <4>. QED
        BY <2>3, <3>3, <4>1, <4>2
    <3>. QED
      BY <3>4, <3>5
  <2>5. Down(k, h)
    <3>1. h = [o \in (n - k)..n |-> h[o]]
      OBVIOUS
    <3>. HIDE DEF h
    <3>2. [o \in (n - k)..n |-> h[o]] = [o \in (n - k)..n |-> Turn(h, o)]
      BY <2>4
    <3>. QED
      BY <3>1, <3>2
  <2>6. \E f2 : Down(k, f2)
    <3>. HIDE DEF h, Down
    <3>. QED
      BY <2>5
  <2>. QED
    BY <2>6
<1>8. made = [o \in 0..n |-> Turn(made, o)]
  <2>1. \E g : g = [o \in 0..n |-> Turn(g, o)]
    <3>1. n \in 0..n
      BY <1>1
    <3>2. PICK g : Down(n, g)
      BY <1>7, <3>1
    <3>. QED
      BY <1>1, <3>2
  <2>. QED
    BY <2>1
<1>. HIDE DEF made
<1>9. \A k \in 0..n : ListsAllFrom(f, n - k, made[n - k])
  <2>. DEFINE bad == {k \in 0..n : ~ListsAllFrom(f, n - k, made[n - k])}
  <2>. SUFFICES ASSUME bad # {} PROVE FALSE
    OBVIOUS
  <2>1. PICK k \in bad : \A j \in bad : k <= j
    <3>1. bad \in SUBSET Nat
      BY <1>1
    <3>. HIDE DEF bad
    <3>. QED
      BY <3>1, LeastElement
  <2>. DEFINE o == n - k
  <2>2. /\ k \in 0..n /\ k \in Nat /\ o \in Nat /\ o \in 0..n
        /\ ~ListsAllFrom(f, o, made[o])
    BY <1>1, <2>1
  <2>3. made[o] = Turn(made, o)
    BY <1>8, <2>2
  <2>4. \A i \in (o + 1)..n : ListsAllFrom(f, i, made[i])
    <3>. SUFFICES ASSUME NEW i \in (o + 1)..n PROVE ListsAllFrom(f, i, made[i])
      OBVIOUS
    <3>1. n - i \in 0..n /\ ~(k <= n - i) /\ n - (n - i) = i
      BY <1>1, <2>2
    <3>2. n - i \notin bad
      BY <2>1, <3>1
    <3>. QED
      BY <3>1, <3>2
  <2>. HIDE DEF bad, o
  <2>5. CASE CellAt(f, o + 1) # Magic
    BY <1>3, <2>2, <2>3, <2>5, NoRecord
  <2>6. CASE CellAt(f, o + 1) = Magic
    <3>1. ListsAllFrom(f, After(o), Rest(made, o))
      <4>1. After(o) \in Nat /\ After(o) >= o + 3
        BY <1>5, <2>2
      <4>2. CASE After(o) <= n
        <5>1. After(o) \in (o + 1)..n
          BY <1>1, <2>2, <4>1, <4>2
        <5>. QED
          BY <2>4, <4>2, <5>1
      <4>3. CASE ~(After(o) <= n)
        <5>1. After(o) + 1 \in Nat /\ After(o) + 1 >= Len(f)
          BY <1>1, <4>1, <4>3 DEF n
        <5>2. CellAt(f, After(o) + 1) # Magic
          BY <5>1, CellAtProperties, TarAssumption
        <5>. QED
          BY <4>3, <5>2, NoRecord
      <4>. QED
        BY <4>2, <4>3
    <3>2. made[o] = <<RecordAt(f, o)>> \o Rest(made, o)
      BY <1>4, <2>2, <2>3, <2>6
    <3>. HIDE DEF Rest
    <3>. QED
      BY <2>2, <2>6, <3>1, <3>2, RecordInFront DEF After
  <2>. QED
    BY <2>5, <2>6
<1>10. n \in 0..n
  BY <1>1
<1>11. ListsAllFrom(f, 0, made[0])
  BY <1>1, <1>9, <1>10
<1>. QED
  BY <1>2, <1>11 DEF ListsAll

-----------------------------------------------------------------------------
(* Listings *)

\* What a listing says of its records and of their places.
LEMMA ListsProperties ==
    ASSUME NoMinus, NEW f \in Seq(Cell), NEW rs, Lists(f, rs)
    PROVE  /\ rs \in Seq(FileRecord) /\ Len(rs) \in Nat
           /\ \A i \in 1..Len(rs) + 1 : HeaderPlace(rs, i) \in Nat
           /\ \A i \in 1..Len(rs) :
                /\ rs[i] \in FileRecord
                /\ rs[i] = RecordAt(f, HeaderPlace(rs, i))
                /\ rs[i].start = HeaderPlace(rs, i) + 3
                /\ CellAt(f, HeaderPlace(rs, i) + 1) = Magic
                /\ HeaderPlace(rs, i + 1) = EndOf(rs[i])
                /\ HeaderPlace(rs, i) + 3 <= HeaderPlace(rs, i + 1)
           /\ HeaderPlace(rs, 1) = 0
           /\ EndOfAll(rs) \in Nat
<1>1. rs \in Seq(FileRecord) /\ Len(rs) \in Nat
  BY DEF Lists, ListsFrom
<1>2. ASSUME NEW i \in 1..Len(rs) + 1
      PROVE  HeaderPlace(rs, i) \in Nat
  <2>1. CASE i = 1
    BY <2>1 DEF HeaderPlace, PlaceFrom
  <2>2. CASE i # 1
    <3>1. i - 1 \in 1..Len(rs)
      BY <1>1, <2>2
    <3>2. rs[i - 1] \in FileRecord
      BY <1>1, <3>1
    <3>. QED
      BY <2>2, <3>2, EndOfProperties DEF HeaderPlace, PlaceFrom
  <2>. QED
    BY <2>1, <2>2
<1>3. ASSUME NEW i \in 1..Len(rs)
      PROVE  /\ rs[i] \in FileRecord
             /\ rs[i] = RecordAt(f, HeaderPlace(rs, i))
             /\ rs[i].start = HeaderPlace(rs, i) + 3
             /\ CellAt(f, HeaderPlace(rs, i) + 1) = Magic
             /\ HeaderPlace(rs, i + 1) = EndOf(rs[i])
             /\ HeaderPlace(rs, i) + 3 <= HeaderPlace(rs, i + 1)
  <2>1. /\ rs[i] \in FileRecord /\ rs[i] = RecordAt(f, HeaderPlace(rs, i))
        /\ CellAt(f, HeaderPlace(rs, i) + 1) = Magic
    BY <1>1 DEF Lists, ListsFrom, HeaderPlace
  <2>2. i + 1 # 1 /\ (i + 1) - 1 = i /\ i \in 1..Len(rs) + 1
    BY <1>1
  <2>3. HeaderPlace(rs, i + 1) = EndOf(rs[i])
    BY <2>2 DEF HeaderPlace, PlaceFrom
  <2>4. rs[i].start = HeaderPlace(rs, i) + 3
    <3>1. RecordAt(f, HeaderPlace(rs, i)).start = HeaderPlace(rs, i) + 3
      BY DEF RecordAt, Block
    <3>. QED
      BY <2>1, <3>1
  <2>5. HeaderPlace(rs, i) \in Nat
    BY <1>2, <2>2
  <2>6. EndOf(RecordAt(f, HeaderPlace(rs, i))) >= HeaderPlace(rs, i) + 3
        /\ EndOf(RecordAt(f, HeaderPlace(rs, i))) \in Nat
    BY <2>5, RecordAtProperties
  <2>. QED
    BY <2>1, <2>3, <2>4, <2>5, <2>6
<1>4. HeaderPlace(rs, 1) = 0
  BY DEF HeaderPlace, PlaceFrom
<1>5. EndOfAll(rs) \in Nat
  BY <1>1, <1>2 DEF EndOfAll
<1>. QED
  BY <1>1, <1>2, <1>3, <1>4, <1>5

\* The records of a listing come one behind the other.
LEMMA PlacesIncrease ==
    ASSUME NoMinus, NEW f \in Seq(Cell), NEW rs, Lists(f, rs),
           NEW i \in 1..Len(rs) + 1, NEW j \in i..Len(rs) + 1
    PROVE  HeaderPlace(rs, i) <= HeaderPlace(rs, j)
<1>. DEFINE bad == {k \in i..Len(rs) + 1 : ~(HeaderPlace(rs, i) <= HeaderPlace(rs, k))}
<1>. SUFFICES ASSUME bad # {} PROVE FALSE
  OBVIOUS
<1>1. Len(rs) \in Nat /\ i \in Nat /\ \A k \in 1..Len(rs) + 1 : HeaderPlace(rs, k) \in Nat
  BY ListsProperties
<1>2. PICK k \in bad : \A m \in bad : k <= m
  <2>1. bad \in SUBSET Nat
    BY <1>1
  <2>. HIDE DEF bad
  <2>. QED
    BY <2>1, LeastElement
<1>3. k \in i..Len(rs) + 1 /\ ~(HeaderPlace(rs, i) <= HeaderPlace(rs, k))
  OBVIOUS
<1>4. k # i
  BY <1>1, <1>3
<1>5. k - 1 \in i..Len(rs) + 1 /\ k - 1 \in 1..Len(rs) /\ ~(k <= k - 1) /\ (k - 1) + 1 = k
  BY <1>1, <1>3, <1>4
<1>6. k - 1 \notin bad
  BY <1>2, <1>5
<1>7. HeaderPlace(rs, i) <= HeaderPlace(rs, k - 1)
  BY <1>5, <1>6
<1>8. HeaderPlace(rs, k - 1) + 3 <= HeaderPlace(rs, k)
  BY <1>5, ListsProperties
<1>9. HeaderPlace(rs, i) \in Nat /\ HeaderPlace(rs, k - 1) \in Nat /\ HeaderPlace(rs, k) \in Nat
  <2>1. k - 1 \in 1..Len(rs) + 1 /\ k \in 1..Len(rs) + 1
    BY <1>1, <1>3, <1>5
  <2>. QED
    BY <1>1, <2>1
<1>. QED
  BY <1>3, <1>7, <1>8, <1>9

\* Every record of a listing, its header with it, lies before the end of all.
LEMMA RecordBeforeEnd ==
    ASSUME NoMinus, NEW f \in Seq(Cell), NEW rs, Lists(f, rs), NEW i \in 1..Len(rs)
    PROVE  /\ HeaderPlace(rs, i) + 3 <= EndOfAll(rs)
           /\ EndOf(rs[i]) <= EndOfAll(rs)
           /\ rs[i].start + rs[i].size <= EndOfAll(rs)
<1>1. /\ Len(rs) \in Nat /\ HeaderPlace(rs, i) \in Nat /\ EndOfAll(rs) \in Nat
      /\ rs[i] \in FileRecord
      /\ HeaderPlace(rs, i + 1) = EndOf(rs[i])
      /\ HeaderPlace(rs, i) + 3 <= HeaderPlace(rs, i + 1)
  <2>1. i \in 1..Len(rs) + 1
    BY ListsProperties
  <2>. QED
    BY <2>1, ListsProperties
<1>2. i + 1 \in 1..Len(rs) + 1 /\ Len(rs) + 1 \in (i + 1)..Len(rs) + 1
  BY <1>1
<1>3. HeaderPlace(rs, i + 1) <= EndOfAll(rs)
  BY <1>2, PlacesIncrease DEF EndOfAll
<1>4. EndOf(rs[i]) \in Nat /\ rs[i].start + rs[i].size <= EndOf(rs[i])
      /\ rs[i].start \in Nat /\ rs[i].size \in Nat
  BY <1>1, EndOfProperties
<1>. QED
  BY <1>1, <1>3, <1>4

\* Two listings of one file agree as far as both go.
LEMMA ListingsAgree ==
    ASSUME NoMinus, NEW f \in Seq(Cell), NEW rs, Lists(f, rs), NEW ss, Lists(f, ss)
    PROVE  \A i \in 1..Len(rs) : i <= Len(ss) => rs[i] = ss[i]
<1>. DEFINE bad == {i \in 1..Len(rs) : i <= Len(ss) /\ rs[i] # ss[i]}
<1>. SUFFICES ASSUME bad # {} PROVE FALSE
  OBVIOUS
<1>1. Len(rs) \in Nat /\ Len(ss) \in Nat
  BY ListsProperties
<1>2. PICK k \in bad : \A m \in bad : k <= m
  <2>1. bad \in SUBSET Nat
    BY <1>1
  <2>. HIDE DEF bad
  <2>. QED
    BY <2>1, LeastElement
<1>3. k \in 1..Len(rs) /\ k \in 1..Len(ss) /\ rs[k] # ss[k]
  BY <1>1
<1>4. HeaderPlace(rs, k) = HeaderPlace(ss, k)
  <2>1. CASE k = 1
    BY <2>1 DEF HeaderPlace, PlaceFrom
  <2>2. CASE k # 1
    <3>1. k - 1 \in 1..Len(rs) /\ k - 1 <= Len(ss) /\ ~(k <= k - 1)
      BY <1>1, <1>3, <2>2
    <3>2. k - 1 \notin bad
      BY <1>2, <3>1
    <3>3. rs[k - 1] = ss[k - 1]
      BY <3>1, <3>2
    <3>. QED
      BY <2>2, <3>3 DEF HeaderPlace, PlaceFrom
  <2>. QED
    BY <2>1, <2>2
<1>5. rs[k] = RecordAt(f, HeaderPlace(rs, k)) /\ ss[k] = RecordAt(f, HeaderPlace(ss, k))
  BY <1>3, ListsProperties
<1>. QED
  BY <1>3, <1>4, <1>5

\* No listing is longer than one that lists all.
LEMMA AllIsLongest ==
    ASSUME NoMinus, NEW f \in Seq(Cell), NEW rs, ListsAll(f, rs), NEW ss, Lists(f, ss)
    PROVE  Len(ss) <= Len(rs)
<1>. SUFFICES ASSUME ~(Len(ss) <= Len(rs)) PROVE FALSE
  OBVIOUS
<1>1. Lists(f, rs) /\ CellAt(f, EndOfAll(rs) + 1) # Magic
  BY DEF ListsAll, ListsAllFrom, Lists, EndOfAll, HeaderPlace
<1>2. Len(rs) \in Nat /\ Len(ss) \in Nat
  BY <1>1, ListsProperties
<1>. DEFINE k == Len(rs) + 1
<1>3. k \in 1..Len(ss)
  BY <1>2
<1>4. HeaderPlace(ss, k) = EndOfAll(rs)
  <2>1. CASE k = 1
    BY <2>1 DEF HeaderPlace, PlaceFrom, EndOfAll
  <2>2. CASE k # 1
    <3>1. k - 1 \in 1..Len(rs) /\ k - 1 <= Len(ss)
      BY <1>2, <1>3, <2>2
    <3>2. rs[k - 1] = ss[k - 1]
      BY <1>1, <3>1, ListingsAgree
    <3>. QED
      BY <2>2, <3>2 DEF HeaderPlace, PlaceFrom, EndOfAll
  <2>. QED
    BY <2>1, <2>2
<1>5. CellAt(f, HeaderPlace(ss, k) + 1) = Magic
  BY <1>3, ListsProperties
<1>. QED
  BY <1>1, <1>4, <1>5

\* Records is the one listing of all the records of a file.
LEMMA ListingIsRecords ==
    ASSUME NoMinus, NEW f \in Seq(Cell), NEW rs, ListsAll(f, rs)
    PROVE  Records(f) = rs
<1>. DEFINE ss == Records(f)
<1>1. ListsAll(f, ss)
  BY RecordsListsAll
<1>. HIDE DEF ss
<1>2. Lists(f, ss) /\ Lists(f, rs)
  BY <1>1 DEF ListsAll, ListsAllFrom, Lists
<1>3. rs \in Seq(FileRecord) /\ ss \in Seq(FileRecord)
  BY <1>2, ListsProperties
<1>4. Len(ss) = Len(rs)
  <2>1. Len(ss) <= Len(rs) /\ Len(rs) <= Len(ss)
    BY <1>1, <1>2, AllIsLongest
  <2>. QED
    BY <1>3, <2>1
<1>5. \A i \in 1..Len(rs) : rs[i] = ss[i]
  BY <1>2, <1>3, <1>4, ListingsAgree
<1>6. rs = ss
  BY <1>3, <1>4, <1>5, SeqEqual
<1>. QED
  BY <1>6 DEF ss

\* What is used of Records from here on.
LEMMA RecordsProperties ==
    ASSUME NoMinus, NEW f \in Seq(Cell)
    PROVE  /\ Lists(f, Records(f))
           /\ CellAt(f, EndOfAll(Records(f)) + 1) # Magic
BY RecordsListsAll DEF ListsAll, ListsAllFrom, Lists, EndOfAll, HeaderPlace

\* g reads as f before position o.
SameBefore(f, g, o) == \A q \in Nat : q < o => CellAt(g, q) = CellAt(f, q)

\* A header reads the same in files that agree on its three cells.
LEMMA SameRecordAt ==
    ASSUME NEW f, NEW g, NEW o, CellAt(g, o) = CellAt(f, o), CellAt(g, o + 2) = CellAt(f, o + 2)
    PROVE  RecordAt(g, o) = RecordAt(f, o)
BY DEF RecordAt, PathOf, SizeOf

\* A listing of a file lists any file that agrees with it before its end.
LEMMA SameListing ==
    ASSUME NoMinus, NEW f \in Seq(Cell), NEW g, NEW rs, Lists(f, rs), SameBefore(f, g, EndOfAll(rs))
    PROVE  Lists(g, rs)
<1>1. ASSUME NEW i \in 1..Len(rs)
      PROVE  /\ CellAt(g, HeaderPlace(rs, i) + 1) = Magic
             /\ rs[i] = RecordAt(g, HeaderPlace(rs, i))
  <2>. DEFINE o == HeaderPlace(rs, i)
  <2>1. /\ o \in Nat /\ o + 3 <= EndOfAll(rs) /\ EndOfAll(rs) \in Nat
        /\ CellAt(f, o + 1) = Magic /\ rs[i] = RecordAt(f, o)
    <3>1. i \in 1..Len(rs) + 1
      BY ListsProperties
    <3>. QED
      BY <3>1, ListsProperties, RecordBeforeEnd
  <2>. HIDE DEF o
  <2>2. /\ o \in Nat /\ o + 1 \in Nat /\ o + 2 \in Nat
        /\ o < EndOfAll(rs) /\ o + 1 < EndOfAll(rs) /\ o + 2 < EndOfAll(rs)
    BY <2>1
  <2>3. /\ CellAt(g, o) = CellAt(f, o) /\ CellAt(g, o + 1) = CellAt(f, o + 1)
        /\ CellAt(g, o + 2) = CellAt(f, o + 2)
    BY <2>2 DEF SameBefore
  <2>4. RecordAt(g, o) = RecordAt(f, o)
    BY <2>3, SameRecordAt
  <2>. QED
    BY <2>1, <2>3, <2>4 DEF o
<1>2. rs \in Seq(FileRecord)
  BY ListsProperties
<1>. QED
  BY <1>1, <1>2 DEF Lists, ListsFrom, HeaderPlace

\* A file that reads as f up to the end of its records, and holds no header
\* there, has the records of f.
LEMMA SameRecords ==
    ASSUME NoMinus, NEW f \in Seq(Cell), NEW g \in Seq(Cell), SameBefore(f, g, EndOfAll(Records(f))),
           CellAt(g, EndOfAll(Records(f)) + 1) # Magic
    PROVE  Records(g) = Records(f)
<1>1. Lists(f, Records(f))
  BY RecordsProperties
<1>2. Lists(g, Records(f))
  BY <1>1, SameListing
<1>3. ListsAll(g, Records(f))
  BY <1>2 DEF ListsAll, ListsAllFrom, Lists, EndOfAll, HeaderPlace
<1>. QED
  BY <1>3, ListingIsRecords

\* The header at the end of a listing adds one record to it.
LEMMA OneMoreRecord ==
    ASSUME NoMinus, NEW f \in Seq(Cell), NEW rs, Lists(f, rs), CellAt(f, EndOfAll(rs) + 1) = Magic
    PROVE  LET r == RecordAt(f, EndOfAll(rs))
           IN  /\ Lists(f, Append(rs, r))
               /\ EndOfAll(Append(rs, r)) = EndOf(r)
<1>. DEFINE r == RecordAt(f, EndOfAll(rs))
            more == Append(rs, r)
<1>1. rs \in Seq(FileRecord) /\ Len(rs) \in Nat /\ EndOfAll(rs) \in Nat
  BY ListsProperties
<1>2. r \in FileRecord
  BY <1>1, RecordAtProperties
<1>. HIDE DEF r
<1>3. /\ more \in Seq(FileRecord) /\ Len(more) = Len(rs) + 1 /\ more[Len(rs) + 1] = r
      /\ \A i \in 1..Len(rs) : more[i] = rs[i]
  BY <1>1, <1>2
<1>. HIDE DEF more
<1>4. ASSUME NEW i \in 1..Len(rs) + 1
      PROVE  HeaderPlace(more, i) = HeaderPlace(rs, i)
  <2>1. CASE i = 1
    BY <2>1 DEF HeaderPlace, PlaceFrom
  <2>2. CASE i # 1
    <3>1. i - 1 \in 1..Len(rs)
      BY <1>1, <2>2
    <3>. QED
      BY <1>3, <2>2, <3>1 DEF HeaderPlace, PlaceFrom
  <2>. QED
    BY <2>1, <2>2
<1>5. ASSUME NEW i \in 1..Len(more)
      PROVE  /\ CellAt(f, HeaderPlace(more, i) + 1) = Magic
             /\ more[i] = RecordAt(f, HeaderPlace(more, i))
  <2>1. CASE i \in 1..Len(rs)
    <3>1. HeaderPlace(more, i) = HeaderPlace(rs, i)
      BY <1>1, <1>4, <2>1
    <3>2. CellAt(f, HeaderPlace(rs, i) + 1) = Magic /\ rs[i] = RecordAt(f, HeaderPlace(rs, i))
      BY <2>1, ListsProperties
    <3>. QED
      BY <1>3, <2>1, <3>1, <3>2
  <2>2. CASE i = Len(rs) + 1
    <3>1. HeaderPlace(more, i) = EndOfAll(rs)
      BY <1>1, <1>4, <2>2 DEF EndOfAll
    <3>. QED
      BY <1>3, <2>2, <3>1 DEF r
  <2>. QED
    BY <1>1, <1>3, <2>1, <2>2
<1>6. Lists(f, more)
  BY <1>3, <1>5 DEF Lists, ListsFrom, HeaderPlace
<1>7. EndOfAll(more) = EndOf(r)
  <2>1. Len(more) + 1 # 1 /\ (Len(more) + 1) - 1 = Len(rs) + 1
    BY <1>1, <1>3
  <2>. QED
    BY <1>3, <2>1 DEF EndOfAll, HeaderPlace, PlaceFrom
<1>. QED
  BY <1>6, <1>7 DEF more, r

\* The cells of a written record.
LEMMA RecordCellsAre ==
    ASSUME Fits, NEW p \in Path \ TooLong, NEW c \in Content
    PROVE  /\ RecordCells(p, c)[1] = [name |-> p.name, size |-> Len(c)]
           /\ RecordCells(p, c)[2] = Magic
           /\ RecordCells(p, c)[3] = [prefix |-> p.prefix]
           /\ \A i \in 1..Len(c) : RecordCells(p, c)[3 + i] = c[i]
           /\ Len(RecordCells(p, c)) = 3 + Padded(Len(c))
           /\ RecordCells(p, c) \in Seq(Cell)
           /\ Len(c) \in Nat /\ Padded(Len(c)) \in Nat /\ Padded(Len(c)) >= Len(c)
<1>. DEFINE head == Header(p, Len(c))
            pad == Zeros(Padded(Len(c)) - Len(c))
            all == RecordCells(p, c)
<1>1. /\ Len(c) \in Nat /\ c \in Seq(Cell) /\ all \in Seq(Cell)
      /\ Len(all) = Block + Padded(Len(c))
  BY RecordCellsProperties, TarAssumption DEF Cell
<1>2. Padded(Len(c)) \in Nat /\ Padded(Len(c)) >= Len(c)
  BY <1>1, PaddedProperties
<1>3. pad \in Seq(Cell)
  <2>1. Padded(Len(c)) - Len(c) \in Nat
    BY <1>1, <1>2
  <2>. QED
    BY <2>1, ZerosProperties
<1>4. /\ head \in Seq(Cell) /\ Len(head) = 3
      /\ head[1] = [name |-> p.name, size |-> Len(c)] /\ head[2] = Magic
      /\ head[3] = [prefix |-> p.prefix]
  <2>. DEFINE entry == [name |-> p.name, size |-> Len(c)]
              prefix == [prefix |-> p.prefix]
  <2>1. p \in AnyPath
    BY TarAssumption
  <2>2. entry \in Cell /\ prefix \in Cell /\ Magic \in Cell
    BY <1>1, <2>1 DEF Cell, Entry, Prefix, AnyPath
  <2>3. StoredSize(Len(c)) = Len(c)
    BY DEF Fits, StoredSize
  <2>4. head = <<entry, Magic, prefix>>
    BY <2>3 DEF Header, StoredPath
  <2>. HIDE DEF entry, prefix, head
  <2>5. head \in Seq(Cell) /\ Len(head) = 3 /\ head[1] = entry /\ head[2] = Magic /\ head[3] = prefix
    BY <2>2, <2>4
  <2>. QED
    BY <2>5 DEF entry, prefix
<1>5. all = (head \o c) \o pad
  BY DEF RecordCells
<1>. HIDE DEF head, pad, all
<1>6. /\ Len(all) = Len(head) + Len(c) + Len(pad)
      /\ \A i \in 1..Len(all) :
           all[i] = IF i <= Len(head) THEN head[i]
                    ELSE IF i <= Len(head) + Len(c) THEN c[i - Len(head)]
                    ELSE pad[i - Len(head) - Len(c)]
  <2>1. head \in Seq(Cell) /\ c \in Seq(Cell) /\ pad \in Seq(Cell)
    BY <1>1, <1>3, <1>4
  <2>. QED
    BY <1>5, <2>1, ThreeParts
<1>7. Len(all) = 3 + Padded(Len(c))
  BY <1>1 DEF Block
<1>8. \A i \in {1, 2, 3} : all[i] = head[i]
  <2>1. \A i \in {1, 2, 3} : i \in 1..Len(all) /\ i <= Len(head)
    BY <1>2, <1>4, <1>7
  <2>. QED
    BY <1>6, <2>1
<1>9. ASSUME NEW i \in 1..Len(c) PROVE all[3 + i] = c[i]
  <2>1. /\ 3 + i \in 1..Len(all) /\ ~(3 + i <= Len(head)) /\ 3 + i <= Len(head) + Len(c)
        /\ (3 + i) - Len(head) = i
    BY <1>1, <1>2, <1>4, <1>7
  <2>2. all[3 + i] = c[(3 + i) - Len(head)]
    BY <1>6, <2>1
  <2>. QED
    BY <2>1, <2>2
<1>10. all[1] = head[1] /\ all[2] = head[2] /\ all[3] = head[3]
  BY <1>8
<1>. QED
  BY <1>1, <1>2, <1>4, <1>7, <1>9, <1>10 DEF all

\* A part of a file, cell by cell.
LEMMA PartOfFile ==
    ASSUME NEW f \in Seq(Cell), NEW o \in Nat, NEW n \in Nat, o + n <= Len(f)
    PROVE  /\ SubSeq(f, o + 1, o + n) \in Seq(Cell)
           /\ Len(SubSeq(f, o + 1, o + n)) = n
           /\ \A i \in 1..n : SubSeq(f, o + 1, o + n)[i] = CellAt(f, o + i - 1)
<1>. DEFINE first == o + 1
            last == o + n
            part == SubSeq(f, first, last)
<1>1. first \in Int /\ last \in Int /\ \A i \in first..last : f[i] \in Cell
  OBVIOUS
<1>2. last - first + 1 = n /\ (n = 0 <=> ~(first <= last)) /\ \A i \in 1..n : first + i - 1 = o + i
  OBVIOUS
<1>. HIDE DEF first, last
<1>3. /\ part \in Seq(Cell)
      /\ Len(part) = IF first <= last THEN last - first + 1 ELSE 0
      /\ \A i \in 1..(last - first + 1) : part[i] = f[first + i - 1]
  BY <1>1, SubSeqProperties
<1>. HIDE DEF part
<1>4. \A i \in 1..n : part[i] = CellAt(f, o + i - 1)
  <2>. SUFFICES ASSUME NEW i \in 1..n PROVE part[i] = CellAt(f, o + i - 1)
    OBVIOUS
  <2>1. part[i] = f[o + i]
    BY <1>2, <1>3
  <2>2. o + i - 1 < Len(f) /\ o + i - 1 + 1 = o + i
    OBVIOUS
  <2>. QED
    BY <2>1, <2>2 DEF CellAt
<1>5. Len(part) = n
  BY <1>2, <1>3
<1>. QED
  BY <1>3, <1>4, <1>5 DEF part, first, last

\* A written record is read back: its path, its size and its contents.
LEMMA RecordReadBack ==
    ASSUME NoMinus, Fits, NEW p \in Path \ TooLong, NEW c \in Content, NEW g \in Seq(Cell), NEW o \in Nat,
           \A i \in 1..Len(RecordCells(p, c)) : CellAt(g, o + i - 1) = RecordCells(p, c)[i],
           Len(g) >= o + 3 + Len(c)
    PROVE  /\ CellAt(g, o + 1) = Magic
           /\ RecordAt(g, o) = [path |-> p, start |-> o + 3, size |-> Len(c)]
           /\ ContentOf(g, RecordAt(g, o)) = c
           /\ EndOf(RecordAt(g, o)) = o + 3 + Padded(Len(c))
<1>. DEFINE all == RecordCells(p, c)
<1>1. /\ all[1] = [name |-> p.name, size |-> Len(c)] /\ all[2] = Magic
      /\ all[3] = [prefix |-> p.prefix]
      /\ \A i \in 1..Len(c) : all[3 + i] = c[i]
      /\ Len(all) = 3 + Padded(Len(c))
      /\ Len(c) \in Nat /\ Padded(Len(c)) \in Nat /\ Padded(Len(c)) >= Len(c)
  BY RecordCellsAre
<1>2. \A i \in 1..Len(all) : CellAt(g, o + i - 1) = all[i]
  OBVIOUS
<1>. HIDE DEF all
<1>3. /\ CellAt(g, o) = all[1] /\ CellAt(g, o + 1) = all[2] /\ CellAt(g, o + 2) = all[3]
  <2>1. 1 \in 1..Len(all) /\ 2 \in 1..Len(all) /\ 3 \in 1..Len(all)
    BY <1>1
  <2>2. CellAt(g, o + 1 - 1) = all[1] /\ CellAt(g, o + 2 - 1) = all[2] /\ CellAt(g, o + 3 - 1) = all[3]
    BY <1>2, <2>1
  <2>3. o + 1 - 1 = o /\ o + 2 - 1 = o + 1 /\ o + 3 - 1 = o + 2
    OBVIOUS
  <2>. QED
    BY <2>2, <2>3
<1>4. p \in AnyPath /\ p.last = NoStr
  BY TarAssumption DEF Fits
<1>5. all[1] \in Entry /\ all[3] \in Prefix
  BY <1>1, <1>4 DEF Entry, Prefix, AnyPath
<1>6. PathOf(g, o) = p /\ SizeOf(g, o) = Len(c)
  <2>1. EntryOf(CellAt(g, o)) = [name |-> p.name, size |-> Len(c)]
    BY <1>1, <1>3, <1>5 DEF EntryOf
  <2>2. PrefixOf(CellAt(g, o + 2)) = p.prefix
    BY <1>1, <1>3, <1>5 DEF PrefixOf
  <2>3. p = [prefix |-> p.prefix, name |-> p.name, last |-> NoStr]
    BY <1>4 DEF AnyPath
  <2>. QED
    BY <2>1, <2>2, <2>3 DEF PathOf, SizeOf
<1>7. RecordAt(g, o) = [path |-> p, start |-> o + 3, size |-> Len(c)]
  BY <1>6 DEF RecordAt, Block
<1>8. SubSeq(g, o + 3 + 1, o + 3 + Len(c)) = c
  <2>. DEFINE part == SubSeq(g, o + 3 + 1, o + 3 + Len(c))
  <2>1. /\ part \in Seq(Cell) /\ Len(part) = Len(c)
        /\ \A i \in 1..Len(c) : part[i] = CellAt(g, o + 3 + i - 1)
    <3>1. o + 3 \in Nat /\ Len(c) \in Nat /\ o + 3 + Len(c) <= Len(g)
      BY <1>1
    <3>. QED
      BY <3>1, PartOfFile
  <2>. HIDE DEF part
  <2>2. ASSUME NEW i \in 1..Len(c) PROVE part[i] = c[i]
    <3>1. 3 + i \in 1..Len(all) /\ o + (3 + i) - 1 = o + 3 + i - 1
      BY <1>1
    <3>2. CellAt(g, o + (3 + i) - 1) = all[3 + i]
      BY <1>2, <3>1
    <3>. QED
      BY <1>1, <2>1, <3>1, <3>2
  <2>3. c \in Seq(Cell)
    BY TarAssumption DEF Cell
  <2>4. part = c
    BY <2>1, <2>2, <2>3, SeqEqual
  <2>. QED
    BY <2>4 DEF part
<1>9. ContentOf(g, RecordAt(g, o)) = c
  <2>. DEFINE r == RecordAt(g, o)
  <2>1. r.start = o + 3 /\ r.size = Len(c)
    BY <1>7
  <2>2. ~(r.size < 0 \/ r.start + r.size > Len(g))
    BY <1>1, <2>1
  <2>. HIDE DEF r
  <2>3. SubSeq(g, r.start + 1, r.start + r.size) = c
    BY <1>8, <2>1
  <2>4. ContentOf(g, r) = c
    BY <2>2, <2>3 DEF ContentOf
  <2>. QED
    BY <2>4 DEF r
<1>10. EndOf(RecordAt(g, o)) = o + 3 + Padded(Len(c))
  BY <1>6, RecordAtProperties DEF Block
<1>. QED
  BY <1>1, <1>3, <1>7, <1>9, <1>10

-----------------------------------------------------------------------------
(* What writing, closing and dying do to the records of a file *)

\* A set of positions that is not empty has a last one.
LEMMA LastPosition ==
    ASSUME NEW n \in Nat, NEW T \in SUBSET (1..n), T # {}
    PROVE  \E i \in T : \A j \in T : j <= i
<1>. DEFINE back == {n - i : i \in T}
<1>1. back \in SUBSET Nat /\ back # {}
  <2>1. \A i \in T : i \in 1..n /\ n - i \in Nat
    OBVIOUS
  <2>. QED
    BY <2>1
<1>2. PICK least \in back : \A k \in back : least <= k
  <2>. HIDE DEF back
  <2>. QED
    BY <1>1, LeastElement
<1>3. PICK i \in T : least = n - i
  OBVIOUS
<1>4. \A j \in T : n - i <= n - j
  BY <1>2, <1>3
<1>5. \A j \in T : j \in Int
  OBVIOUS
<1>. QED
  BY <1>4, <1>5

\* The empty file has no records, and nothing behind them.
LEMMA EmptyFile ==
    ASSUME NoMinus
    PROVE  <<>> \in Seq(Cell) /\ Records(<<>>) = <<>> /\ Tidy(<<>>)
<1>1. <<>> \in Seq(Cell)
  OBVIOUS
<1>2. \A q \in Nat : CellAt(<<>>, q) = Zero
  BY DEF CellAt
<1>3. Records(<<>>) = <<>>
  <2>1. CellAt(<<>>, 0 + 1) # Magic
    BY <1>2, TarAssumption
  <2>2. ListsAll(<<>>, <<>>)
    BY <2>1, NoRecord DEF ListsAll
  <2>. QED
    BY <1>1, <2>2, ListingIsRecords
<1>4. Tidy(<<>>)
  BY <1>2 DEF Tidy, Leftover
<1>. QED
  BY <1>1, <1>3, <1>4

\* Zeros written behind the records change no record.
LEMMA ZerosBehind ==
    ASSUME NoMinus, NoHeaderBehind, NEW f \in Seq(Cell), Tidy(f), NEW s \in Seq(Cell),
           \A i \in 1..Len(s) : s[i] = Zero
    PROVE  LET g == Overlay(f, EndOfAll(Records(f)), s)
           IN  /\ g \in Seq(Cell) /\ Len(g) >= Len(f)
               /\ SameBefore(f, g, EndOfAll(Records(f)))
               /\ Records(g) = Records(f)
               /\ Tidy(g)
<1>. DEFINE o == EndOfAll(Records(f))
            g == Overlay(f, o, s)
<1>1. o \in Nat
  BY RecordsProperties, ListsProperties
<1>2. \A q \in Nat : q > o => CellAt(f, q) \in Leftover
  BY DEF Tidy
<1>. HIDE DEF o
<1>3. /\ g \in Seq(Cell)
      /\ Len(g) = IF s = <<>> \/ o + Len(s) <= Len(f) THEN Len(f) ELSE o + Len(s)
      /\ \A q \in Nat : CellAt(g, q) = IF o <= q /\ q < o + Len(s) THEN s[q - o + 1]
                                       ELSE CellAt(f, q)
  BY <1>1, OverlayCells
<1>. HIDE DEF g
<1>4. Len(s) \in Nat /\ Len(f) \in Nat
  OBVIOUS
<1>5. SameBefore(f, g, o)
  BY <1>1, <1>3 DEF SameBefore
<1>6. ASSUME NEW q \in Nat, q > o PROVE CellAt(g, q) \in Leftover
  <2>1. CASE q < o + Len(s)
    <3>1. q - o + 1 \in 1..Len(s) /\ o <= q
      BY <1>1, <1>4, <1>6, <2>1
    <3>2. CellAt(g, q) = s[q - o + 1]
      BY <1>3, <2>1, <3>1
    <3>3. CellAt(g, q) = Zero
      BY <3>1, <3>2
    <3>. QED
      BY <3>3 DEF Leftover
  <2>2. CASE ~(q < o + Len(s))
    BY <1>2, <1>3, <1>6, <2>2
  <2>. QED
    BY <2>1, <2>2
<1>7. Records(g) = Records(f)
  <2>1. CellAt(g, o + 1) # Magic
    <3>1. o + 1 \in Nat /\ o + 1 > o
      BY <1>1
    <3>. QED
      BY <1>6, <3>1 DEF NoHeaderBehind
  <2>. QED
    BY <1>3, <1>5, <2>1, SameRecords DEF o
<1>8. Tidy(g)
  BY <1>6, <1>7 DEF Tidy, o
<1>9. Len(g) >= Len(f)
  BY <1>1, <1>3, <1>4
<1>. QED
  BY <1>3, <1>5, <1>7, <1>8, <1>9 DEF g, o

\* A record written behind the records of a file becomes its last one.
LEMMA RecordBehind ==
    ASSUME NoMinus, NoHeaderBehind, Fits, NEW f \in Seq(Cell), Tidy(f), NEW g \in Seq(Cell),
           NEW p \in Path \ TooLong, NEW c \in Content,
           NEW o, o = EndOfAll(Records(f)),
           SameBefore(f, g, o),
           \A i \in 1..Len(RecordCells(p, c)) : CellAt(g, o + i - 1) = RecordCells(p, c)[i],
           \A q \in Nat : q >= o + Len(RecordCells(p, c)) => CellAt(g, q) = CellAt(f, q),
           Len(g) >= o + Len(RecordCells(p, c))
    PROVE  /\ Records(g) = Append(Records(f), [path |-> p, start |-> o + 3, size |-> Len(c)])
           /\ EndOfAll(Records(g)) = o + 3 + Padded(Len(c))
           /\ Tidy(g)
           /\ ContentOf(g, [path |-> p, start |-> o + 3, size |-> Len(c)]) = c
<1>. DEFINE r == [path |-> p, start |-> o + 3, size |-> Len(c)]
            rs == Records(f)
            more == Append(rs, r)
            last == o + 3 + Padded(Len(c))
<1>1. o \in Nat /\ Lists(f, rs)
  BY RecordsProperties, ListsProperties
<1>2. /\ Len(RecordCells(p, c)) = 3 + Padded(Len(c)) /\ Len(c) \in Nat
      /\ Padded(Len(c)) \in Nat /\ Padded(Len(c)) >= Len(c)
  BY RecordCellsAre
<1>3. Len(g) \in Nat /\ Len(g) >= o + 3 + Len(c)
  BY <1>1, <1>2
<1>4. /\ CellAt(g, o + 1) = Magic
      /\ RecordAt(g, o) = r
      /\ ContentOf(g, RecordAt(g, o)) = c
      /\ EndOf(RecordAt(g, o)) = last
  BY <1>1, <1>3, RecordReadBack
<1>5. Lists(g, rs)
  BY <1>1, SameListing
<1>. HIDE DEF rs, r, last
<1>6. EndOfAll(rs) = o
  BY DEF rs
<1>7. Lists(g, more) /\ EndOfAll(more) = last
  BY <1>4, <1>5, <1>6, OneMoreRecord
<1>8. ASSUME NEW q \in Nat, q > last PROVE CellAt(g, q) \in Leftover
  <2>1. q > o /\ q >= o + Len(RecordCells(p, c))
    BY <1>1, <1>2, <1>8 DEF last
  <2>2. CellAt(g, q) = CellAt(f, q)
    BY <2>1
  <2>. QED
    BY <2>1, <2>2 DEF Tidy
<1>9. Records(g) = more
  <2>1. last + 1 \in Nat /\ last + 1 > last
    BY <1>1, <1>2 DEF last
  <2>2. CellAt(g, last + 1) # Magic
    BY <1>8, <2>1 DEF NoHeaderBehind
  <2>3. ListsAll(g, more)
    BY <1>7, <2>2 DEF ListsAll, ListsAllFrom, Lists, EndOfAll, HeaderPlace
  <2>. QED
    BY <2>3, ListingIsRecords
<1>10. Tidy(g)
  BY <1>7, <1>8, <1>9 DEF Tidy
<1>. QED
  BY <1>4, <1>7, <1>9, <1>10 DEF r, rs, last

\* The records of a file come first in a file that agrees with it up to their end.
LEMMA OldRecordsFirst ==
    ASSUME NoMinus, NEW f \in Seq(Cell), NEW h \in Seq(Cell),
           SameBefore(f, h, EndOfAll(Records(f)))
    PROVE  /\ Len(Records(f)) \in Nat /\ Len(Records(h)) \in Nat
           /\ Len(Records(f)) <= Len(Records(h))
           /\ \A i \in 1..Len(Records(f)) : Records(h)[i] = Records(f)[i]
           /\ HeaderPlace(Records(h), Len(Records(f)) + 1) = EndOfAll(Records(f))
<1>. DEFINE rs == Records(f)
            ss == Records(h)
<1>1. Lists(f, rs) /\ Lists(h, ss) /\ ListsAll(h, ss)
  BY RecordsProperties, RecordsListsAll
<1>2. Lists(h, rs)
  BY <1>1, SameListing
<1>. HIDE DEF rs, ss
<1>3. Len(rs) \in Nat /\ Len(ss) \in Nat
  BY <1>1, ListsProperties
<1>4. Len(rs) <= Len(ss)
  BY <1>1, <1>2, AllIsLongest
<1>5. \A i \in 1..Len(rs) : ss[i] = rs[i]
  <2>1. \A i \in 1..Len(rs) : i <= Len(ss) => rs[i] = ss[i]
    BY <1>1, <1>2, ListingsAgree
  <2>. QED
    BY <1>3, <1>4, <2>1
<1>6. HeaderPlace(ss, Len(rs) + 1) = EndOfAll(rs)
  <2>1. CASE Len(rs) = 0
    BY <2>1 DEF EndOfAll, HeaderPlace, PlaceFrom
  <2>2. CASE Len(rs) # 0
    <3>1. Len(rs) \in 1..Len(rs) /\ Len(rs) + 1 # 1 /\ (Len(rs) + 1) - 1 = Len(rs)
      BY <1>3, <2>2
    <3>. QED
      BY <1>5, <3>1 DEF EndOfAll, HeaderPlace, PlaceFrom
  <2>. QED
    BY <2>1, <2>2
<1>. QED
  BY <1>3, <1>4, <1>5, <1>6 DEF rs, ss

\* A process dies with some of its cells in the file: g reads as the file h the
\* process meant to leave before position c, as the old file f from there on.
\* The records of g are the first ones of h; only the last of them may differ,
\* and then only in its path's prefix, when c cuts its header short.
LEMMA CutShort ==
    ASSUME NoMinus, NoHeaderBehind,
           NEW f \in Seq(Cell), Tidy(f), NEW h \in Seq(Cell), NEW g \in Seq(Cell),
           SameBefore(f, h, EndOfAll(Records(f))),
           NEW c \in Nat, EndOfAll(Records(f)) <= c, c <= EndOfAll(Records(h)),
           \A q \in Nat : CellAt(g, q) = IF q < c THEN CellAt(h, q) ELSE CellAt(f, q)
    PROVE  LET rs == Records(h)
           IN  /\ Tidy(g)
               /\ \E n \in 0..Len(rs) :
                    /\ Len(Records(g)) = n /\ Len(Records(f)) <= n
                    /\ \A i \in 1..n :
                         /\ HeaderPlace(rs, i) + 1 < c
                         /\ Records(g)[i] = RecordAt(g, HeaderPlace(rs, i))
                         /\ Records(g)[i].start = rs[i].start
                         /\ Records(g)[i].size = rs[i].size
                         /\ c > HeaderPlace(rs, i) + 2 => Records(g)[i] = rs[i]
                    /\ n < Len(rs) => c <= HeaderPlace(rs, n + 1) + 1
<1>. DEFINE rs == Records(h)
            s == EndOfAll(Records(f))
            kept == Len(Records(f))
<1>1. Lists(h, rs) /\ s \in Nat
  BY RecordsProperties, ListsProperties
<1>2. /\ kept \in Nat /\ Len(rs) \in Nat /\ kept <= Len(rs)
      /\ HeaderPlace(rs, kept + 1) = s
  BY OldRecordsFirst
<1>3. \A q \in Nat : q > s => CellAt(f, q) \in Leftover
  BY DEF Tidy
<1>4. s <= c /\ c <= EndOfAll(rs)
  OBVIOUS
<1>. HIDE DEF rs, s, kept
<1>. DEFINE place(i) == HeaderPlace(rs, i)
<1>5. /\ \A i \in 1..Len(rs) + 1 : place(i) \in Nat
      /\ \A i \in 1..Len(rs) : /\ CellAt(h, place(i) + 1) = Magic
                               /\ rs[i] = RecordAt(h, place(i))
                               /\ place(i + 1) = EndOf(rs[i])
                               /\ place(i) + 3 <= place(i + 1)
      /\ place(1) = 0
  BY <1>1, ListsProperties
<1>6. ASSUME NEW i \in 1..Len(rs) + 1, NEW j \in i..Len(rs) + 1
      PROVE  place(i) <= place(j)
  BY <1>1, PlacesIncrease
<1>7. EndOfAll(rs) = place(Len(rs) + 1)
  BY DEF EndOfAll
<1>. HIDE DEF place
<1>8. PICK n \in 0..Len(rs) :
        /\ kept <= n
        /\ \A i \in 1..n : place(i) + 1 < c
        /\ n < Len(rs) => c <= place(n + 1) + 1
  <2>. DEFINE T == {i \in 1..Len(rs) : place(i) + 1 < c}
  <2>1. \A i \in 1..Len(rs) : i <= kept => i \in T
    <3>. SUFFICES ASSUME NEW i \in 1..Len(rs), i <= kept PROVE place(i) + 1 < c
      OBVIOUS
    <3>1. i + 1 \in 1..Len(rs) + 1 /\ kept + 1 \in (i + 1)..Len(rs) + 1 /\ i \in 1..Len(rs) + 1
      BY <1>2
    <3>2. place(i) \in Nat /\ place(i + 1) \in Nat /\ place(i) + 3 <= place(i + 1)
      BY <1>5, <3>1
    <3>3. place(i + 1) <= s
      BY <1>2, <1>6, <3>1 DEF place
    <3>. QED
      BY <1>1, <1>4, <3>2, <3>3
  <2>2. CASE T = {}
    <3>1. kept = 0
      BY <1>2, <2>1, <2>2
    <3>2. 0 < Len(rs) => c <= place(1) + 1
      <4>1. 0 < Len(rs) => 1 \in 1..Len(rs)
        BY <1>2
      <4>2. 0 < Len(rs) => ~(place(1) + 1 < c)
        BY <2>2, <4>1
      <4>. QED
        BY <1>5, <4>2
    <3>. QED
      BY <1>2, <3>1, <3>2
  <2>3. CASE T # {}
    <3>1. PICK n \in T : \A j \in T : j <= n
      <4>1. T \in SUBSET (1..Len(rs))
        OBVIOUS
      <4>. HIDE DEF T
      <4>. QED
        BY <1>2, <2>3, <4>1, LastPosition
    <3>2. n \in 1..Len(rs) /\ place(n) + 1 < c
      OBVIOUS
    <3>3. kept <= n
      <4>1. CASE kept = 0
        BY <1>2, <3>2, <4>1
      <4>2. CASE kept # 0
        <5>1. kept \in 1..Len(rs) /\ kept <= kept
          BY <1>2, <4>2
        <5>2. kept \in T
          BY <2>1, <5>1
        <5>. QED
          BY <3>1, <5>2
      <4>. QED
        BY <4>1, <4>2
    <3>4. \A i \in 1..n : place(i) + 1 < c
      <4>. SUFFICES ASSUME NEW i \in 1..n PROVE place(i) + 1 < c
        OBVIOUS
      <4>1. i \in 1..Len(rs) + 1 /\ n \in i..Len(rs) + 1 /\ n \in 1..Len(rs) + 1
        BY <1>2, <3>2
      <4>2. place(i) <= place(n) /\ place(i) \in Nat /\ place(n) \in Nat
        BY <1>5, <1>6, <4>1
      <4>. QED
        BY <3>2, <4>2
    <3>5. n < Len(rs) => c <= place(n + 1) + 1
      <4>. SUFFICES ASSUME n < Len(rs) PROVE c <= place(n + 1) + 1
        OBVIOUS
      <4>1. n + 1 \in 1..Len(rs) /\ ~(n + 1 <= n) /\ n + 1 \in 1..Len(rs) + 1
        BY <1>2, <3>2
      <4>2. n + 1 \notin T
        BY <3>1, <4>1
      <4>3. ~(place(n + 1) + 1 < c)
        BY <4>1, <4>2
      <4>4. place(n + 1) \in Nat
        BY <1>5, <4>1
      <4>. QED
        BY <4>3, <4>4
    <3>6. n \in 0..Len(rs)
      BY <1>2, <3>2
    <3>. HIDE DEF T
    <3>. QED
      BY <3>3, <3>4, <3>5, <3>6
  <2>. QED
    BY <2>2, <2>3
<1>. DEFINE gs == [i \in 1..n |-> RecordAt(g, place(i))]
<1>9. ASSUME NEW i \in 1..n
      PROVE  /\ i \in 1..Len(rs) /\ place(i) \in Nat /\ place(i) + 1 < c
             /\ gs[i] = RecordAt(g, place(i))
             /\ gs[i] \in FileRecord
             /\ CellAt(g, place(i) + 1) = Magic
             /\ gs[i].start = rs[i].start /\ gs[i].size = rs[i].size
             /\ EndOf(gs[i]) = place(i + 1)
             /\ c > place(i) + 2 => gs[i] = rs[i]
  <2>1. i \in 1..Len(rs) /\ i \in 1..Len(rs) + 1
    BY <1>2, <1>8
  <2>2. /\ place(i) \in Nat /\ place(i) + 1 < c /\ CellAt(h, place(i) + 1) = Magic
        /\ rs[i] = RecordAt(h, place(i)) /\ place(i + 1) = EndOf(rs[i])
    BY <1>5, <1>8, <2>1
  <2>3. CellAt(g, place(i)) = CellAt(h, place(i)) /\ CellAt(g, place(i) + 1) = CellAt(h, place(i) + 1)
    <3>1. place(i) < c /\ place(i) + 1 < c /\ place(i) + 1 \in Nat
      BY <2>2
    <3>. QED
      BY <2>2, <3>1
  <2>4. gs[i] = RecordAt(g, place(i)) /\ gs[i] \in FileRecord
    BY <2>2, RecordAtProperties
  <2>. HIDE DEF gs
  <2>5. SizeOf(g, place(i)) = SizeOf(h, place(i))
    BY <2>3 DEF SizeOf
  <2>6. gs[i].start = rs[i].start /\ gs[i].size = rs[i].size
    BY <2>2, <2>4, <2>5 DEF RecordAt
  <2>7. EndOf(gs[i]) = place(i + 1)
    BY <2>2, <2>6 DEF EndOf
  <2>8. c > place(i) + 2 => gs[i] = rs[i]
    <3>. SUFFICES ASSUME c > place(i) + 2 PROVE gs[i] = rs[i]
      OBVIOUS
    <3>1. place(i) + 2 \in Nat /\ place(i) + 2 < c
      BY <2>2
    <3>2. CellAt(g, place(i) + 2) = CellAt(h, place(i) + 2)
      BY <3>1
    <3>3. RecordAt(g, place(i)) = RecordAt(h, place(i))
      BY <2>3, <3>2, SameRecordAt
    <3>. QED
      BY <2>2, <2>4, <3>3
  <2>. QED
    BY <2>1, <2>2, <2>3, <2>4, <2>6, <2>7, <2>8
<1>10. gs \in Seq(FileRecord) /\ Len(gs) = n
  <2>1. n \in Nat
    BY <1>2
  <2>2. gs \in [1..n -> FileRecord]
    BY <1>9
  <2>. HIDE DEF gs
  <2>. QED
    BY <2>1, <2>2, IsASeq, LenProperties
<1>11. DOMAIN gs = 1..n
  OBVIOUS
<1>. HIDE DEF gs
<1>12. ASSUME NEW i \in 1..n + 1
       PROVE  HeaderPlace(gs, i) = place(i)
  <2>1. CASE i = 1
    BY <1>5, <2>1 DEF HeaderPlace, PlaceFrom
  <2>2. CASE i # 1
    <3>1. i - 1 \in 1..n /\ (i - 1) + 1 = i
      BY <1>2, <2>2
    <3>2. EndOf(gs[i - 1]) = place(i)
      BY <1>9, <3>1
    <3>. QED
      BY <2>2, <3>2 DEF HeaderPlace, PlaceFrom
  <2>. QED
    BY <2>1, <2>2
<1>13. Lists(g, gs)
  <2>1. \A i \in 1..Len(gs) : i \in 1..n + 1
    BY <1>2, <1>10
  <2>2. \A i \in 1..Len(gs) : /\ CellAt(g, HeaderPlace(gs, i) + 1) = Magic
                              /\ gs[i] = RecordAt(g, HeaderPlace(gs, i))
    BY <1>9, <1>10, <1>12, <2>1
  <2>. QED
    BY <1>10, <2>2 DEF Lists, ListsFrom, HeaderPlace
<1>14. EndOfAll(gs) = place(n + 1) /\ place(n + 1) \in Nat /\ place(n + 1) >= s /\ c <= place(n + 1) + 1
  <2>1. n + 1 \in 1..n + 1 /\ n + 1 \in 1..Len(rs) + 1 /\ n + 1 \in (kept + 1)..Len(rs) + 1
        /\ kept + 1 \in 1..Len(rs) + 1
    BY <1>2, <1>8
  <2>2. EndOfAll(gs) = place(n + 1)
    BY <1>10, <1>12, <2>1 DEF EndOfAll
  <2>3. place(n + 1) \in Nat /\ place(kept + 1) <= place(n + 1) /\ place(kept + 1) = s
    BY <1>2, <1>5, <1>6, <2>1 DEF place
  <2>4. c <= place(n + 1) + 1
    <3>1. CASE n < Len(rs)
      BY <1>8, <3>1
    <3>2. CASE n = Len(rs)
      BY <1>4, <1>7, <2>3, <3>2
    <3>. QED
      BY <1>2, <3>1, <3>2
  <2>. QED
    BY <1>1, <2>2, <2>3, <2>4
<1>15. ASSUME NEW q \in Nat, q > EndOfAll(gs)
       PROVE  CellAt(g, q) \in Leftover
  <2>1. q > s /\ ~(q < c)
    BY <1>1, <1>14, <1>15
  <2>. QED
    BY <1>3, <2>1
<1>16. Records(g) = gs
  <2>1. EndOfAll(gs) + 1 \in Nat /\ EndOfAll(gs) + 1 > EndOfAll(gs)
    BY <1>14
  <2>2. CellAt(g, EndOfAll(gs) + 1) # Magic
    BY <1>15, <2>1 DEF NoHeaderBehind
  <2>3. ListsAll(g, gs)
    BY <1>13, <2>2 DEF ListsAll, ListsAllFrom, Lists, EndOfAll, HeaderPlace
  <2>. QED
    BY <2>3, ListingIsRecords
<1>17. Tidy(g)
  BY <1>15, <1>16 DEF Tidy
<1>18. /\ Len(Records(g)) = n /\ kept <= n
       /\ \A i \in 1..n :
            /\ HeaderPlace(rs, i) + 1 < c
            /\ Records(g)[i] = RecordAt(g, HeaderPlace(rs, i))
            /\ Records(g)[i].start = rs[i].start
            /\ Records(g)[i].size = rs[i].size
            /\ c > HeaderPlace(rs, i) + 2 => Records(g)[i] = rs[i]
       /\ n < Len(rs) => c <= HeaderPlace(rs, n + 1) + 1
  BY <1>8, <1>9, <1>10, <1>16 DEF place
<1>. QED
  BY <1>17, <1>18 DEF rs, kept

-----------------------------------------------------------------------------
(* The index and the listing *)

\* One record more, in the listing and in the index.
LEMMA IndexAppended ==
    ASSUME NEW names \in Seq(AnyPath), NEW offsets, PartialMap(offsets, Nat),
           NEW sizes, PartialMap(sizes, Nat), DOMAIN sizes = DOMAIN offsets,
           NEW rs \in Seq(FileRecord), Indexes(names, offsets, sizes, rs), NEW r \in FileRecord
    PROVE  Indexes(Append(names, r.path), Put(offsets, r.path, r.start),
                   Put(sizes, r.path, r.size), Append(rs, r))
<1>. DEFINE more == Append(rs, r)
            offs == Put(offsets, r.path, r.start)
            szs == Put(sizes, r.path, r.size)
            nms == Append(names, r.path)
<1>1. r.path \in AnyPath /\ r.start \in Nat /\ r.size \in Nat
  BY DEF FileRecord
<1>2. /\ Len(rs) \in Nat /\ Len(more) = Len(rs) + 1 /\ more[Len(rs) + 1] = r
      /\ \A i \in 1..Len(rs) : more[i] = rs[i]
  OBVIOUS
<1>. HIDE DEF more
<1>3. /\ DOMAIN offs = DOMAIN offsets \cup {r.path} /\ offs[r.path] = r.start
      /\ \A q \in DOMAIN offsets : q # r.path => offs[q] = offsets[q]
  <2>. DEFINE v == r.start
              path == r.path
  <2>1. v \in Nat /\ path \in AnyPath
    BY <1>1
  <2>. HIDE DEF v, path
  <2>2. /\ DOMAIN Put(offsets, path, v) = DOMAIN offsets \cup {path}
        /\ Put(offsets, path, v)[path] = v
        /\ \A q \in DOMAIN offsets : q # path => Put(offsets, path, v)[q] = offsets[q]
    BY <2>1, PutProperties
  <2>. QED
    BY <2>2 DEF v, path
<1>4. /\ szs[r.path] = r.size
      /\ \A q \in DOMAIN sizes : q # r.path => szs[q] = sizes[q]
  <2>. DEFINE v == r.size
              path == r.path
  <2>1. v \in Nat /\ path \in AnyPath
    BY <1>1
  <2>. HIDE DEF v, path
  <2>2. /\ Put(sizes, path, v)[path] = v
        /\ \A q \in DOMAIN sizes : q # path => Put(sizes, path, v)[q] = sizes[q]
    BY <2>1, PutProperties
  <2>. QED
    BY <2>2 DEF v, path
<1>. HIDE DEF offs, szs
<1>5. nms = [i \in 1..Len(more) |-> more[i].path]
  <2>1. names = [i \in 1..Len(rs) |-> rs[i].path]
    BY DEF Indexes
  <2>2. Len(names) = Len(rs) /\ \A i \in 1..Len(rs) : names[i] = rs[i].path
    <3>1. DOMAIN names = 1..Len(rs)
      BY <2>1
    <3>2. Len(names) = Len(rs)
      BY <1>2, <3>1
    <3>. QED
      BY <2>1, <3>2
  <2>3. /\ nms \in Seq(AnyPath) /\ Len(nms) = Len(names) + 1
        /\ \A i \in 1..Len(names) : nms[i] = names[i]
        /\ nms[Len(names) + 1] = r.path
    BY <1>1
  <2>. HIDE DEF nms
  <2>4. ASSUME NEW i \in 1..Len(more) PROVE nms[i] = more[i].path
    <3>1. CASE i \in 1..Len(rs)
      BY <1>2, <2>2, <2>3, <3>1
    <3>2. CASE i = Len(rs) + 1
      BY <1>2, <2>2, <2>3, <3>2
    <3>. QED
      BY <1>2, <3>1, <3>2
  <2>5. nms = [i \in 1..Len(nms) |-> nms[i]]
    BY <2>3
  <2>6. Len(nms) = Len(more)
    BY <1>2, <2>2, <2>3
  <2>. QED
    BY <2>4, <2>5, <2>6
<1>6. ASSUME NEW p \in DOMAIN offs
      PROVE  \E i \in 1..Len(more) :
               IsLast(more, p, i) /\ offs[p] = more[i].start /\ szs[p] = more[i].size
  <2>1. CASE p = r.path
    <3>1. IsLast(more, p, Len(rs) + 1)
      BY <1>2, <2>1 DEF IsLast
    <3>2. Len(rs) + 1 \in 1..Len(more)
      BY <1>2
    <3>. QED
      BY <1>2, <1>3, <1>4, <2>1, <3>1, <3>2
  <2>2. CASE p # r.path
    <3>1. p \in DOMAIN offsets /\ p \in DOMAIN sizes
      BY <1>3, <2>2
    <3>2. PICK i \in 1..Len(rs) :
            IsLast(rs, p, i) /\ offsets[p] = rs[i].start /\ sizes[p] = rs[i].size
      BY <3>1 DEF Indexes
    <3>3. i \in 1..Len(more) /\ more[i] = rs[i]
      BY <1>2
    <3>4. IsLast(more, p, i)
      <4>. SUFFICES ASSUME NEW j \in 1..Len(more), more[j].path = p PROVE j <= i
        BY <3>2, <3>3 DEF IsLast
      <4>1. j # Len(rs) + 1
        BY <1>2, <2>2
      <4>2. j \in 1..Len(rs) /\ more[j] = rs[j]
        BY <1>2, <4>1
      <4>. QED
        BY <3>2, <4>2 DEF IsLast
    <3>. QED
      BY <1>3, <1>4, <2>2, <3>1, <3>2, <3>3, <3>4
  <2>. QED
    BY <2>1, <2>2
<1>7. Indexes(nms, offs, szs, more)
  BY <1>5, <1>6 DEF Indexes
<1>. QED
  BY <1>7 DEF nms, offs, szs, more

\* The last record of a path is the one LastOf chooses.
LEMMA LastIsLastOf ==
    ASSUME NEW rs \in Seq(FileRecord), NEW p, NEW i, IsLast(rs, p, i)
    PROVE  LastOf(rs, p) = i
<1>. DEFINE Q(k) == rs[k].path = p /\ \A j \in DOMAIN rs : rs[j].path = p => j <= k
<1>1. DOMAIN rs = 1..Len(rs) /\ Len(rs) \in Nat
  OBVIOUS
<1>2. i \in DOMAIN rs /\ Q(i)
  BY <1>1 DEF IsLast
<1>3. ASSUME NEW k \in DOMAIN rs, Q(k) PROVE k = i
  <2>1. k <= i /\ i <= k
    BY <1>2, <1>3
  <2>. QED
    BY <1>1, <1>2, <2>1
<1>4. LastOf(rs, p) = CHOOSE k \in DOMAIN rs : Q(k)
  BY DEF LastOf
<1>. HIDE DEF Q
<1>. QED
  BY <1>2, <1>3, <1>4

\* A path that some record has, has a last one.
LEMMA LastExists ==
    ASSUME NEW rs \in Seq(FileRecord), NEW p, NEW k \in 1..Len(rs), rs[k].path = p
    PROVE  \E i \in 1..Len(rs) : IsLast(rs, p, i)
<1>. DEFINE T == {i \in 1..Len(rs) : rs[i].path = p}
<1>1. T \in SUBSET (1..Len(rs)) /\ T # {} /\ Len(rs) \in Nat
  OBVIOUS
<1>2. PICK i \in T : \A j \in T : j <= i
  <2>. HIDE DEF T
  <2>. QED
    BY <1>1, LastPosition
<1>. QED
  BY <1>2 DEF IsLast

-----------------------------------------------------------------------------
(* The index is the file: the invariant *)

\* Nothing buffered: the flushed file is the file.
LEMMA NothingBuffered ==
    ASSUME buf = <<>>
    PROVE  Flushed = disk /\ Settled = m_maxPosition
BY DEF Flushed, Overlay, Settled

\* The flushed file, from the file up to Settled and the buffer behind.
LEMMA FlushedIs ==
    ASSUME IInv, pc = "open"
    PROVE  /\ Flushed = Overlay(disk, Settled, buf)
           /\ Settled \in Nat /\ m_maxPosition \in Nat
           /\ Settled + Len(buf) = m_maxPosition
           /\ disk \in Seq(Cell) /\ buf \in Seq(Cell) /\ Flushed \in Seq(Cell)
<1>1. /\ disk \in Seq(Cell) /\ buf \in Seq(Cell) /\ pos \in Nat /\ m_maxPosition \in Nat
  BY DEF IInv, Typed
<1>2. Flushed \in Seq(Cell)
  BY FlushedProperties DEF IInv
<1>3. CASE buf = <<>>
  BY <1>1, <1>2, <1>3 DEF Flushed, Overlay, Settled
<1>4. CASE buf # <<>>
  <2>1. pos = m_maxPosition /\ Len(buf) <= pos /\ Settled = pos - Len(buf)
    BY <1>4 DEF IInv, BufferAtEnd, Settled
  <2>2. Settled \in Nat /\ Settled + Len(buf) = m_maxPosition
    BY <1>1, <2>1
  <2>3. Flushed = Overlay(disk, Settled, buf)
    BY <2>1 DEF Flushed
  <2>. QED
    BY <1>1, <1>2, <2>2, <2>3
<1>. QED
  BY <1>3, <1>4

\* Cell by cell, and how long it is.
LEMMA FlushedCells ==
    ASSUME IInv, pc = "open"
    PROVE  /\ \A q \in Nat : CellAt(Flushed, q) = IF Settled <= q /\ q < m_maxPosition
                                                  THEN buf[q - Settled + 1]
                                                  ELSE CellAt(disk, q)
           /\ buf # <<>> => Len(Flushed) >= m_maxPosition
           /\ Len(Flushed) >= Len(disk)
           /\ SameBefore(disk, Flushed, Settled)
<1>1. /\ Flushed = Overlay(disk, Settled, buf)
      /\ Settled \in Nat /\ m_maxPosition \in Nat
      /\ Settled + Len(buf) = m_maxPosition
      /\ disk \in Seq(Cell) /\ buf \in Seq(Cell) /\ Flushed \in Seq(Cell)
  BY FlushedIs
<1>2. Len(disk) \in Nat /\ Len(buf) \in Nat
  BY <1>1
<1>. HIDE DEF Flushed, Settled
<1>3. /\ Len(Flushed) = IF buf = <<>> \/ Settled + Len(buf) <= Len(disk) THEN Len(disk)
                        ELSE Settled + Len(buf)
      /\ \A q \in Nat : CellAt(Flushed, q) = IF Settled <= q /\ q < Settled + Len(buf)
                                             THEN buf[q - Settled + 1] ELSE CellAt(disk, q)
  BY <1>1, OverlayCells
<1>4. SameBefore(disk, Flushed, Settled)
  BY <1>1, <1>3 DEF SameBefore
<1>5. (buf # <<>> => Len(Flushed) >= m_maxPosition) /\ Len(Flushed) >= Len(disk)
  BY <1>1, <1>2, <1>3
<1>. QED
  BY <1>1, <1>3, <1>4, <1>5

\* What a write does to the flushed file: the record is behind what was there.
LEMMA WriteGives ==
    ASSUME IInv, NEW p \in Path, NEW c \in Content, NEW immediate \in BOOLEAN,
           WritePtr(p, c, immediate), ~fail
    PROVE  LET cells == RecordCells(p, c)
           IN  /\ p \in Path \ TooLong /\ pc = "open" /\ pc' = "open" /\ fail' = FALSE
               /\ Flushed' \in Seq(Cell)
               /\ disk' = IF immediate THEN Flushed' ELSE disk
               /\ buf' = IF immediate THEN <<>> ELSE buf \o cells
               /\ Settled' = IF immediate THEN m_maxPosition' ELSE Settled
               /\ m_maxPosition' = m_maxPosition + Len(cells)
               /\ SameBefore(Flushed, Flushed', m_maxPosition)
               /\ \A i \in 1..Len(cells) : CellAt(Flushed', m_maxPosition + i - 1) = cells[i]
               /\ \A q \in Nat : q >= m_maxPosition + Len(cells) =>
                                   CellAt(Flushed', q) = CellAt(Flushed, q)
               /\ Len(Flushed') >= m_maxPosition + Len(cells)
               /\ Len(Flushed') >= Len(Flushed)
<1>. DEFINE cells == RecordCells(p, c)
            more == buf \o cells
            g == Overlay(disk, Settled, more)
<1>1. /\ pc = "open" /\ pc' = "open" /\ p \in Path \ TooLong
      /\ pos' = m_maxPosition + Len(cells)
      /\ buf' = IF immediate THEN <<>> ELSE more
      /\ disk' = IF immediate THEN Overlay(disk, pos' - Len(more), more) ELSE disk
      /\ fail' = FALSE
      /\ m_maxPosition' = m_maxPosition + (Block + Padded(Len(c)))
  BY WritesAtEnd DEF WritePtr
<1>2. cells \in Seq(Cell) /\ Len(cells) = Block + Padded(Len(c)) /\ Len(cells) \in Nat
      /\ Len(cells) > 0
  BY RecordCellsProperties
<1>3. /\ Settled \in Nat /\ m_maxPosition \in Nat /\ Settled + Len(buf) = m_maxPosition
      /\ disk \in Seq(Cell) /\ buf \in Seq(Cell) /\ Flushed \in Seq(Cell)
      /\ Flushed = Overlay(disk, Settled, buf)
  BY <1>1, FlushedIs
<1>. HIDE DEF cells
<1>4. /\ more \in Seq(Cell) /\ Len(more) = Len(buf) + Len(cells)
      /\ \A i \in 1..Len(buf) + Len(cells) :
           more[i] = IF i <= Len(buf) THEN buf[i] ELSE cells[i - Len(buf)]
  <2>1. buf \in Seq(Cell) /\ cells \in Seq(Cell)
    BY <1>2, <1>3
  <2>. QED
    BY <2>1, ConcatProperties, Zenon
<1>. HIDE DEF more
<1>5. Len(buf) \in Nat /\ pos' - Len(more) = Settled
  <2>1. Len(buf) \in Nat
    BY <1>3
  <2>. QED
    BY <1>1, <1>2, <1>3, <1>4, <2>1
<1>6. more # <<>>
  BY <1>2, <1>4, <1>5
<1>7. Flushed' = g
  <2>1. CASE immediate
    <3>1. disk' = g /\ buf' = <<>>
      BY <1>1, <1>5, <2>1
    <3>2. Flushed' = disk'
      BY <3>1 DEF Flushed, Overlay
    <3>. QED
      BY <3>1, <3>2
  <2>2. CASE ~immediate
    <3>1. disk' = disk /\ buf' = more
      BY <1>1, <2>2
    <3>2. pos' - Len(buf') = Settled
      BY <1>5, <3>1
    <3>3. Flushed' = Overlay(disk', pos' - Len(buf'), buf')
      BY DEF Flushed
    <3>. QED
      BY <3>1, <3>2, <3>3
  <2>. QED
    BY <2>1, <2>2
<1>8. disk' = IF immediate THEN Flushed' ELSE disk
  BY <1>1, <1>5, <1>7
<1>9. /\ g \in Seq(Cell)
      /\ Len(g) = IF more = <<>> \/ Settled + Len(more) <= Len(disk) THEN Len(disk)
                  ELSE Settled + Len(more)
      /\ \A q \in Nat : CellAt(g, q) = IF Settled <= q /\ q < Settled + Len(more)
                                       THEN more[q - Settled + 1] ELSE CellAt(disk, q)
  BY <1>3, <1>4, OverlayCells
<1>10. /\ \A q \in Nat : CellAt(Flushed, q) = IF Settled <= q /\ q < m_maxPosition
                                              THEN buf[q - Settled + 1]
                                              ELSE CellAt(disk, q)
       /\ Len(Flushed) = IF buf = <<>> \/ Settled + Len(buf) <= Len(disk) THEN Len(disk)
                         ELSE Settled + Len(buf)
  <2>1. Len(Overlay(disk, Settled, buf)) =
          IF buf = <<>> \/ Settled + Len(buf) <= Len(disk) THEN Len(disk)
          ELSE Settled + Len(buf)
    BY <1>3, OverlayCells
  <2>2. \A q \in Nat : CellAt(Flushed, q) = IF Settled <= q /\ q < m_maxPosition
                                            THEN buf[q - Settled + 1]
                                            ELSE CellAt(disk, q)
    BY <1>1, FlushedCells
  <2>. QED
    BY <1>3, <2>1, <2>2
<1>11. Settled' = IF immediate THEN m_maxPosition' ELSE Settled
  <2>1. CASE immediate
    BY <1>1, <2>1 DEF Settled
  <2>2. CASE ~immediate
    <3>1. buf' = more /\ buf' # <<>> /\ pos' - Len(buf') = Settled
      BY <1>1, <1>5, <1>6, <2>2
    <3>2. Settled' = pos' - Len(buf')
      BY <3>1 DEF Settled
    <3>. QED
      BY <2>2, <3>1, <3>2
  <2>. QED
    BY <2>1, <2>2
<1>. HIDE DEF g, Settled, Flushed
<1>12. ASSUME NEW q \in Nat, q < m_maxPosition
       PROVE  CellAt(g, q) = CellAt(Flushed, q)
  <2>1. CASE Settled <= q
    <3>1. q - Settled + 1 \in 1..Len(buf) + Len(cells) /\ q - Settled + 1 <= Len(buf)
          /\ q < Settled + Len(more)
      BY <1>2, <1>3, <1>4, <1>5, <1>12, <2>1
    <3>2. more[q - Settled + 1] = buf[q - Settled + 1]
      BY <1>4, <3>1
    <3>. QED
      BY <1>9, <1>10, <1>12, <2>1, <3>1, <3>2
  <2>2. CASE ~(Settled <= q)
    BY <1>9, <1>10, <2>2
  <2>. QED
    BY <2>1, <2>2
<1>13. ASSUME NEW i \in 1..Len(cells)
       PROVE  CellAt(g, m_maxPosition + i - 1) = cells[i]
  <2>. DEFINE q == m_maxPosition + i - 1
  <2>1. /\ q \in Nat /\ Settled <= q /\ q < Settled + Len(more)
        /\ q - Settled + 1 \in 1..Len(buf) + Len(cells) /\ ~(q - Settled + 1 <= Len(buf))
        /\ (q - Settled + 1) - Len(buf) = i
    <3>1. i \in Nat /\ 1 <= i /\ i <= Len(cells) /\ Settled \in Nat /\ Len(buf) \in Nat
          /\ Len(cells) \in Nat /\ m_maxPosition = Settled + Len(buf)
          /\ Len(more) = Len(buf) + Len(cells) /\ q = Settled + Len(buf) + i - 1
      <4>1. i \in Nat /\ 1 <= i /\ i <= Len(cells)
        <5>1. Len(cells) \in Nat
          BY <1>2
        <5>. QED
          BY <5>1
      <4>2. Settled \in Nat /\ Len(buf) \in Nat /\ m_maxPosition = Settled + Len(buf)
            /\ Len(cells) \in Nat /\ Len(more) = Len(buf) + Len(cells)
        BY <1>2, <1>3, <1>4, <1>5
      <4>3. q = Settled + Len(buf) + i - 1
        BY <4>1, <4>2
      <4>. QED
        BY <4>1, <4>2, <4>3
    <3>. HIDE DEF q
    <3>2. q \in Nat /\ Settled <= q /\ q < Settled + Len(more)
      BY <3>1
    <3>3. q - Settled + 1 = Len(buf) + i
      BY <3>1
    <3>. QED
      BY <3>1, <3>2, <3>3
  <2>. HIDE DEF q
  <2>2. CellAt(g, q) = more[q - Settled + 1]
    BY <1>9, <2>1
  <2>3. more[q - Settled + 1] = cells[(q - Settled + 1) - Len(buf)]
    BY <1>4, <2>1
  <2>4. CellAt(g, q) = cells[i]
    BY <2>1, <2>2, <2>3
  <2>. QED
    BY <2>4 DEF q
<1>14. ASSUME NEW q \in Nat, q >= m_maxPosition + Len(cells)
       PROVE  CellAt(g, q) = CellAt(Flushed, q)
  <2>1. ~(q < Settled + Len(more)) /\ ~(q < m_maxPosition)
    BY <1>2, <1>3, <1>4, <1>5, <1>14
  <2>. QED
    BY <1>9, <1>10, <2>1
<1>15. Len(g) >= m_maxPosition + Len(cells) /\ Len(g) >= Len(Flushed)
  <2>1. Len(disk) \in Nat
    BY <1>3
  <2>. QED
    BY <1>2, <1>3, <1>4, <1>5, <1>6, <1>9, <1>10, <2>1
<1>16. m_maxPosition' = m_maxPosition + Len(cells)
  BY <1>1, <1>2
<1>17. /\ SameBefore(Flushed, g, m_maxPosition)
       /\ \A i \in 1..Len(cells) : CellAt(g, m_maxPosition + i - 1) = cells[i]
       /\ \A q \in Nat : q >= m_maxPosition + Len(cells) => CellAt(g, q) = CellAt(Flushed, q)
  BY <1>12, <1>13, <1>14 DEF SameBefore
<1>18. buf' = IF immediate THEN <<>> ELSE buf \o cells
  BY <1>1 DEF more
<1>. QED
  BY <1>1, <1>7, <1>8, <1>9, <1>11, <1>15, <1>16, <1>17, <1>18, Zenon DEF cells

-----------------------------------------------------------------------------
(* The index and the file, step by step *)

\* An object that is gone leaves a file with nothing but padding behind its records.
LEMMA ForgotFile ==
    ASSUME Forget, Tidy(disk')
    PROVE  FileInv'
BY DEF Forget, FileInv, ScanAgrees, OpenAgrees, ClosedAtStart

\* The initial states: every file that was there is tidy, by what Leftover is.
LEMMA InitFile ==
    ASSUME NoMinus
    PROVE  Init => FileInv
<1>. SUFFICES ASSUME Init PROVE FileInv
  OBVIOUS
<1>1. CASE disk = <<>>
  BY <1>1, EmptyFile DEF Init, FileInv, ScanAgrees, OpenAgrees, ClosedAtStart
<1>2. CASE disk \in InitialFiles
  <2>1. disk \in Seq(Cell)
    BY <1>2, TarAssumption
  <2>2. EndOfAll(Records(disk)) \in Nat
    BY <2>1, RecordsProperties, ListsProperties
  <2>. DEFINE o == EndOfAll(Records(disk))
  <2>3. ASSUME NEW q \in Nat, q > o
        PROVE  CellAt(disk, q) \in Leftover
    <3>1. CASE q < Len(disk)
      <4>1. Len(disk) \in Nat /\ o \in Nat
        BY <2>1, <2>2
      <4>. HIDE DEF o
      <4>2. q + 1 \in 1..Len(disk) /\ q + 1 > o + 1
        BY <2>3, <3>1, <4>1
      <4>3. disk[q + 1] \in {disk[i] : i \in {j \in 1..Len(disk) : j > o + 1}}
        BY <4>2
      <4>4. disk[q + 1] \in Leftover
        BY <1>2, <4>3 DEF Leftover, o
      <4>. QED
        BY <2>1, <3>1, <4>4, CellAtProperties
    <3>2. CASE ~(q < Len(disk))
      <4>1. CellAt(disk, q) = Zero
        BY <3>2 DEF CellAt
      <4>. QED
        BY <4>1 DEF Leftover
    <3>. QED
      BY <3>1, <3>2
  <2>4. Tidy(disk)
    BY <2>3 DEF Tidy
  <2>. QED
    BY <2>4 DEF Init, FileInv, ScanAgrees, OpenAgrees, ClosedAtStart
<1>. QED
  BY <1>1, <1>2 DEF Init

\* No listing, an empty index.
LEMMA NothingIndexed ==
    Indexes(<<>>, <<>>, <<>>, <<>>)
<1>1. Len(<<>>) = 0 /\ <<>> = [i \in 1..0 |-> <<>>[i].path]
  OBVIOUS
<1>. QED
  BY <1>1 DEF Indexes

\* The constructor opens the file: nothing is scanned yet.
LEMMA OpenFile ==
    ASSUME NoMinus, IInv, FileInv, NEW mode \in {"Read", "Write", "Append"}, Open(mode)
    PROVE  FileInv'
<1>1. /\ pc' = "scanning" /\ pos' = 0 /\ fail' = FALSE /\ offset' = 0
      /\ m_fileNames' = <<>> /\ m_fileOffsets' = <<>> /\ m_fileSizes' = <<>>
  BY DEF Open, IInv, SessionShape, stream, index, FileInv, ClosedAtStart
<1>2. disk' \in Seq(Cell) /\ Tidy(disk')
  BY EmptyFile DEF Open, FileInv, IInv, Typed
<1>. DEFINE rs == Records(disk')
<1>3. rs \in Seq(FileRecord) /\ Len(rs) \in Nat /\ HeaderPlace(rs, 1) = 0
  BY <1>2, RecordsProperties, ListsProperties
<1>. HIDE DEF rs
<1>4. SubSeq(rs, 1, 0) = <<>>
  BY <1>3
<1>5. Len(m_fileNames') = 0
  BY <1>1
<1>6. ScanAgrees'
  <2>1. Indexes(m_fileNames', m_fileOffsets', m_fileSizes', SubSeq(rs, 1, Len(m_fileNames')))
    BY <1>1, <1>4, <1>5, NothingIndexed
  <2>2. Len(m_fileNames') <= Len(rs) /\ offset' = HeaderPlace(rs, Len(m_fileNames') + 1)
    BY <1>1, <1>3, <1>5
  <2>3. (pos' = offset' \/ (Len(m_fileNames') = Len(rs) /\ pos' > offset')) /\ ~fail'
    BY <1>1
  <2>. QED
    BY <2>1, <2>2, <2>3 DEF ScanAgrees, IndexIs, rs
<1>. QED
  BY <1>1, <1>2, <1>6 DEF FileInv, OpenAgrees, ClosedAtStart

\* What the constructor knows between two headers.
LEMMA ScanKnows ==
    ASSUME NoMinus, IInv, FileInv, pc = "scanning"
    PROVE  LET rs == Records(disk)
               n  == Len(m_fileNames)
           IN  /\ disk \in Seq(Cell) /\ Lists(disk, rs) /\ rs \in Seq(FileRecord)
               /\ Tidy(disk) /\ buf = <<>>
               /\ n \in Nat /\ Len(rs) \in Nat /\ n <= Len(rs)
               /\ IndexIs(SubSeq(rs, 1, n))
               /\ offset \in Nat /\ pos \in Nat /\ fail \in BOOLEAN
               /\ offset = HeaderPlace(rs, n + 1) /\ offset = EndOfRecords
               /\ ~fail => pos = offset \/ (n = Len(rs) /\ pos > offset)
               /\ fail => n = Len(rs)
<1>1. disk \in Seq(Cell) /\ Len(m_fileNames) \in Nat /\ offset \in Nat /\ pos \in Nat
      /\ fail \in BOOLEAN /\ offset = EndOfRecords /\ buf = <<>>
  BY DEF IInv, Typed, SessionShape
<1>2. Lists(disk, Records(disk)) /\ Records(disk) \in Seq(FileRecord)
      /\ Len(Records(disk)) \in Nat
  BY <1>1, RecordsProperties, ListsProperties
<1>3. ScanAgrees /\ Tidy(disk)
  BY DEF FileInv
<1>. QED
  BY <1>1, <1>2, <1>3 DEF ScanAgrees

\* While there are headers left the stream is at the next one.
LEMMA ScanAtHeader ==
    ASSUME NoMinus, IInv, FileInv, pc = "scanning", Len(m_fileNames) # Len(Records(disk))
    PROVE  ~fail /\ pos = offset /\ CellAt(disk, pos + 1) = Magic
<1>. DEFINE rs == Records(disk)
            n  == Len(m_fileNames)
<1>1. /\ disk \in Seq(Cell) /\ Lists(disk, rs) /\ Len(rs) \in Nat /\ n \in Nat /\ n <= Len(rs)
      /\ n # Len(rs) /\ offset = HeaderPlace(rs, n + 1) /\ ~fail /\ pos = offset
  BY ScanKnows
<1>. HIDE DEF rs, n
<1>2. n + 1 \in 1..Len(rs)
  BY <1>1
<1>3. CellAt(disk, HeaderPlace(rs, n + 1) + 1) = Magic
  BY <1>1, <1>2, ListsProperties
<1>. QED
  BY <1>1, <1>3

\* Where the stream reads no header, all have been read.
LEMMA ScanAtEnd ==
    ASSUME NoMinus, IInv, FileInv, pc = "scanning", HeaderCell(1) # Magic
    PROVE  Len(m_fileNames) = Len(Records(disk))
<1>1. SUFFICES ASSUME Len(m_fileNames) # Len(Records(disk)) PROVE FALSE
  OBVIOUS
<1>. QED
  BY <1>1, ScanAtHeader DEF HeaderCell

\* Where it reads one, it is the next header.
LEMMA ScanAtMagic ==
    ASSUME NoMinus, NoHeaderBehind, IInv, FileInv, pc = "scanning", HeaderCell(1) = Magic
    PROVE  Len(m_fileNames) # Len(Records(disk))
<1>1. SUFFICES ASSUME Len(m_fileNames) = Len(Records(disk)) PROVE FALSE
  OBVIOUS
<1>. DEFINE rs == Records(disk)
<1>2. ~fail /\ CellAt(disk, pos + 1) = Magic
  BY TarAssumption DEF HeaderCell
<1>3. /\ disk \in Seq(Cell) /\ Tidy(disk) /\ offset \in Nat /\ pos \in Nat
      /\ offset = HeaderPlace(rs, Len(rs) + 1) /\ pos >= offset
  BY <1>1, <1>2, ScanKnows
<1>4. offset = EndOfAll(rs)
  BY <1>3 DEF EndOfAll
<1>5. CASE pos = offset
  BY <1>2, <1>3, <1>4, <1>5, RecordsProperties
<1>6. CASE pos # offset
  <2>1. pos + 1 \in Nat /\ pos + 1 > EndOfAll(rs)
    <3>. HIDE DEF rs
    <3>. QED
      BY <1>3, <1>4, <1>6
  <2>2. CellAt(disk, pos + 1) \in Leftover
    BY <1>3, <2>1 DEF Tidy
  <2>. QED
    BY <1>2, <2>2 DEF NoHeaderBehind
<1>. QED
  BY <1>5, <1>6

\* A header is indexed.
LEMMA ScanRecordFile ==
    ASSUME NoMinus, NoHeaderBehind, IInv, FileInv, ScanRecord
    PROVE  FileInv'
<1>. DEFINE rs == Records(disk)
            n  == Len(m_fileNames)
            r  == rs[n + 1]
<1>1. pc = "scanning" /\ HeaderCell(1) = Magic
  BY DEF ScanRecord
<1>2. n # Len(rs)
  BY <1>1, ScanAtMagic
<1>3. ~fail /\ pos = offset /\ CellAt(disk, pos + 1) = Magic
  BY <1>1, <1>2, ScanAtHeader
<1>4. /\ disk \in Seq(Cell) /\ Lists(disk, rs) /\ rs \in Seq(FileRecord) /\ Tidy(disk)
      /\ n \in Nat /\ Len(rs) \in Nat /\ n <= Len(rs) /\ offset \in Nat
      /\ IndexIs(SubSeq(rs, 1, n)) /\ offset = HeaderPlace(rs, n + 1)
  BY <1>1, ScanKnows
<1>. HIDE DEF rs, n
<1>5. n + 1 \in 1..Len(rs)
  BY <1>2, <1>4
<1>6. /\ r \in FileRecord /\ r = RecordAt(disk, pos) /\ HeaderPlace(rs, (n + 1) + 1) = EndOf(r)
      /\ HeaderPlace(rs, (n + 1) + 1) >= pos + 3
  BY <1>3, <1>4, <1>5, ListsProperties
<1>. HIDE DEF r
<1>7. /\ r.path = PathOf(disk, pos) /\ r.start = offset + Block /\ r.size = SizeOf(disk, pos)
      /\ EndOf(r) = offset + Block + Padded(SizeOf(disk, pos))
  BY <1>3, <1>6 DEF RecordAt, EndOf
<1>8. /\ m_fileNames' = Append(m_fileNames, r.path)
      /\ m_fileOffsets' = Put(m_fileOffsets, r.path, r.start)
      /\ m_fileSizes' = Put(m_fileSizes, r.path, r.size)
      /\ offset' = EndOf(r) /\ (fail' <=> HitsEnd) /\ pc' = "scanning" /\ disk' = disk
      /\ pos' = IF HitsEnd THEN Len(disk) ELSE EndOf(r)
  BY <1>1, <1>7, ScanRecordMoves DEF IInv, ScanRecord, file
<1>9. Indexes(m_fileNames', m_fileOffsets', m_fileSizes', Append(SubSeq(rs, 1, n), r))
  <2>1. /\ m_fileNames \in Seq(AnyPath) /\ PartialMap(m_fileOffsets, Nat)
        /\ PartialMap(m_fileSizes, Nat) /\ DOMAIN m_fileSizes = DOMAIN m_fileOffsets
    BY DEF IInv, Typed, ExtentsInside
  <2>2. SubSeq(rs, 1, n) \in Seq(FileRecord)
    BY <1>4, <1>5
  <2>3. Indexes(m_fileNames, m_fileOffsets, m_fileSizes, SubSeq(rs, 1, n))
    BY <1>4 DEF IndexIs
  <2>. QED
    BY <1>6, <1>8, <2>1, <2>2, <2>3, IndexAppended
<1>10. Append(SubSeq(rs, 1, n), r) = SubSeq(rs, 1, n + 1)
  BY <1>4, <1>5 DEF r
<1>11. Len(m_fileNames') = n + 1
  BY <1>8 DEF n, IInv, Typed
<1>12. HitsEnd => n + 1 = Len(rs)
  <2>1. SUFFICES ASSUME HitsEnd, n + 1 # Len(rs) PROVE FALSE
    OBVIOUS
  <2>2. n + 2 \in 1..Len(rs) /\ n + 2 = (n + 1) + 1
    BY <1>4, <1>5, <2>1
  <2>3. CellAt(disk, HeaderPlace(rs, n + 2) + 1) = Magic /\ HeaderPlace(rs, n + 2) \in Nat
    BY <1>4, <2>2, ListsProperties
  <2>4. HeaderPlace(rs, n + 2) + 1 < Len(disk)
    BY <1>4, <2>3, CellAtProperties
  <2>5. pos + 3 > Len(disk)
    BY <1>3, <2>1 DEF HitsEnd, Block
  <2>6. Len(disk) \in Nat /\ pos \in Nat
    BY <1>3, <1>4
  <2>. QED
    BY <1>6, <2>2, <2>3, <2>4, <2>5, <2>6
<1>13. ScanAgrees'
  <2>1. Records(disk') = rs
    BY <1>8 DEF rs
  <2>2. Len(m_fileNames') <= Len(rs)
    BY <1>4, <1>5, <1>11
  <2>3. Indexes(m_fileNames', m_fileOffsets', m_fileSizes', SubSeq(rs, 1, Len(m_fileNames')))
    BY <1>9, <1>10, <1>11
  <2>4. offset' = HeaderPlace(rs, Len(m_fileNames') + 1)
    BY <1>6, <1>8, <1>11
  <2>5. (~fail' => pos' = offset') /\ (fail' => Len(m_fileNames') = Len(rs))
    BY <1>8, <1>11, <1>12
  <2>. QED
    BY <2>1, <2>2, <2>3, <2>4, <2>5 DEF ScanAgrees, IndexIs, rs
<1>. QED
  BY <1>4, <1>8, <1>13 DEF FileInv, OpenAgrees, ClosedAtStart

\* A foreign block is passed over: the records are behind the scan.
LEMMA ScanSkipFile ==
    ASSUME NoMinus, IInv, FileInv, ScanSkip
    PROVE  FileInv'
<1>. DEFINE rs == Records(disk)
<1>1. /\ pc = "scanning" /\ HeaderCell(1) # Magic /\ pc' = pc /\ disk' = disk /\ fail' = fail
      /\ pos' = pos + 3 /\ offset' = offset /\ UNCHANGED index /\ ~fail
  BY TarAssumption DEF ScanSkip, file, NextBlock, Block, HitsEnd
<1>2. Len(m_fileNames) = Len(rs)
  BY <1>1, ScanAtEnd
<1>3. /\ Tidy(disk) /\ IndexIs(SubSeq(rs, 1, Len(m_fileNames))) /\ Len(rs) \in Nat
      /\ offset = HeaderPlace(rs, Len(m_fileNames) + 1)
      /\ offset \in Nat /\ pos \in Nat /\ (pos = offset \/ pos > offset)
  BY <1>1, ScanKnows
<1>. HIDE DEF rs
<1>4. pos' > offset' /\ Len(rs) <= Len(rs)
  BY <1>1, <1>3
<1>5. ScanAgrees'
  BY <1>1, <1>2, <1>3, <1>4 DEF ScanAgrees, IndexIs, index, rs
<1>. QED
  BY <1>1, <1>3, <1>5 DEF FileInv, OpenAgrees, ClosedAtStart

\* The constructor is done: the index is that of the whole file.
LEMMA ScanDoneFile ==
    ASSUME NoMinus, IInv, FileInv, ScanDone
    PROVE  FileInv' /\ disk' = disk /\ buf' = <<>>
<1>. DEFINE rs == Records(disk)
<1>1. /\ pc = "scanning" /\ pc' = "open" /\ disk' = disk /\ buf' = buf
      /\ m_maxPosition' = EndOfRecords /\ UNCHANGED index
  BY DEF ScanDone, file
<1>2. HeaderCell(1) # Magic
  <2>1. HeaderIsZero => HeaderCell(1) = Zero
    BY DEF HeaderIsZero, Block
  <2>. QED
    BY <2>1, TarAssumption DEF ScanDone
<1>3. Len(m_fileNames) = Len(rs)
  BY <1>1, <1>2, ScanAtEnd
<1>4. /\ Tidy(disk) /\ IndexIs(SubSeq(rs, 1, Len(rs))) /\ rs \in Seq(FileRecord)
      /\ offset = HeaderPlace(rs, Len(rs) + 1) /\ offset = EndOfRecords /\ buf = <<>>
  BY <1>1, <1>3, ScanKnows
<1>5. buf' = <<>> /\ Flushed' = disk' /\ Settled' = m_maxPosition'
  BY <1>1, <1>4 DEF Flushed, Settled, Overlay
<1>. HIDE DEF rs
<1>6. SubSeq(rs, 1, Len(rs)) = rs
  BY <1>4
<1>7. Indexes(m_fileNames', m_fileOffsets', m_fileSizes', rs)
  BY <1>1, <1>4, <1>6 DEF IndexIs, index
<1>8. EndOfAll(rs) = m_maxPosition'
  BY <1>1, <1>4 DEF EndOfAll
<1>. HIDE DEF Flushed, Settled
<1>9. Records(Flushed') = rs /\ Records(disk') = rs
  BY <1>1, <1>5 DEF rs
<1>10. OpenAgrees'
  <2>1. Tidy(Flushed')
    BY <1>1, <1>4, <1>5
  <2>2. EndOfAll(Records(Flushed')) = m_maxPosition' /\ EndOfAll(Records(disk')) = Settled'
    BY <1>5, <1>8, <1>9
  <2>3. Indexes(m_fileNames', m_fileOffsets', m_fileSizes', Records(Flushed'))
    BY <1>7, <1>9
  <2>. QED
    BY <2>1, <2>2, <2>3 DEF OpenAgrees, IndexIs
<1>. QED
  BY <1>1, <1>4, <1>5, <1>10 DEF FileInv, ScanAgrees, ClosedAtStart

\* What the invariants say of an open archive's file, flushed and not.
LEMMA OpenKnows ==
    ASSUME NoMinus, IInv, FileInv, pc = "open"
    PROVE  /\ disk \in Seq(Cell) /\ Flushed \in Seq(Cell) /\ Tidy(disk) /\ Tidy(Flushed)
           /\ m_maxPosition \in Nat /\ Settled \in Nat /\ fail \in BOOLEAN
           /\ EndOfAll(Records(disk)) \in Nat /\ EndOfAll(Records(Flushed)) \in Nat
           /\ SameBefore(disk, Flushed, EndOfAll(Records(disk)))
           /\ Len(Flushed) >= Len(disk)
           /\ fail \/ buf = <<>> => Flushed = disk /\ buf = <<>>
           /\ ~fail => /\ IndexIs(Records(Flushed))
                       /\ EndOfAll(Records(Flushed)) = m_maxPosition
                       /\ EndOfAll(Records(disk)) = Settled
<1>1. /\ disk \in Seq(Cell) /\ Flushed \in Seq(Cell) /\ m_maxPosition \in Nat /\ Settled \in Nat
  BY FlushedIs
<1>2. fail \in BOOLEAN /\ Tidy(disk)
  BY DEF IInv, Typed, FileInv
<1>3. fail \/ buf = <<>> => Flushed = disk /\ buf = <<>>
  <2>1. buf # <<>> => ~fail
    BY DEF IInv, BufferAtEnd
  <2>. QED
    BY <2>1, NothingBuffered
<1>4. ~fail => /\ IndexIs(Records(Flushed)) /\ Tidy(Flushed)
               /\ EndOfAll(Records(Flushed)) = m_maxPosition
               /\ EndOfAll(Records(disk)) = Settled
  BY DEF FileInv, OpenAgrees
<1>5. Tidy(Flushed)
  BY <1>2, <1>3, <1>4
<1>6. EndOfAll(Records(disk)) \in Nat /\ EndOfAll(Records(Flushed)) \in Nat
  BY <1>1, RecordsProperties, ListsProperties
<1>7. Len(Flushed) >= Len(disk) /\ SameBefore(disk, Flushed, Settled)
  BY FlushedCells
<1>8. SameBefore(disk, Flushed, EndOfAll(Records(disk)))
  <2>1. CASE fail
    BY <1>3, <2>1 DEF SameBefore
  <2>2. CASE ~fail
    BY <1>4, <1>7, <2>2
  <2>. QED
    BY <2>1, <2>2
<1>. QED
  BY <1>1, <1>2, <1>3, <1>4, <1>5, <1>6, <1>7, <1>8

\* An operation that flushes the buffer or leaves it, and writes nothing else.
LEMMA FlushOrNot ==
    ASSUME NoMinus, IInv, FileInv, pc = "open", pc' = "open", UNCHANGED <<index, m_maxPosition>>,
           fail => fail',
           \/ disk' = Flushed /\ buf' = <<>>
           \/ disk' = disk /\ buf' = buf /\ (buf # <<>> => pos' = pos)
    PROVE  /\ FileInv' /\ Flushed' = Flushed
           /\ (disk' = Flushed /\ buf' = <<>>) \/ (disk' = disk /\ buf' = buf)
<1>1. Flushed' = Flushed
  <2>1. CASE disk' = Flushed /\ buf' = <<>>
    <3>1. Flushed' = disk'
      BY <2>1 DEF Flushed, Overlay
    <3>. QED
      BY <2>1, <3>1
  <2>2. CASE disk' = disk /\ buf' = buf /\ (buf # <<>> => pos' = pos)
    BY <2>2 DEF Flushed, Overlay
  <2>. QED
    BY <2>1, <2>2
<1>2. /\ Tidy(disk) /\ Tidy(Flushed)
      /\ fail \/ buf = <<>> => Flushed = disk /\ buf = <<>>
      /\ ~fail => /\ IndexIs(Records(Flushed))
                  /\ EndOfAll(Records(Flushed)) = m_maxPosition
                  /\ EndOfAll(Records(disk)) = Settled
  BY OpenKnows
<1>3. Tidy(disk')
  BY <1>2
<1>4. ASSUME ~fail'
      PROVE  /\ Tidy(Flushed')
             /\ Indexes(m_fileNames', m_fileOffsets', m_fileSizes', Records(Flushed'))
             /\ EndOfAll(Records(Flushed')) = m_maxPosition'
             /\ EndOfAll(Records(disk')) = Settled'
  <2>1. ~fail
    BY <1>4
  <2>2. EndOfAll(Records(disk')) = Settled'
    <3>1. CASE buf' = <<>> /\ disk' = Flushed
      <4>1. Settled' = m_maxPosition
        BY <3>1 DEF Settled
      <4>. QED
        BY <1>2, <2>1, <3>1, <4>1
    <3>2. CASE disk' = disk /\ buf' = buf /\ (buf # <<>> => pos' = pos)
      <4>1. Settled' = Settled
        BY <3>2 DEF Settled
      <4>. QED
        BY <1>2, <2>1, <3>2, <4>1
    <3>. QED
      BY <3>1, <3>2
  <2>3. Indexes(m_fileNames', m_fileOffsets', m_fileSizes', Records(Flushed))
    BY <1>2, <2>1 DEF IndexIs, index
  <2>. QED
    BY <1>1, <1>2, <2>1, <2>2, <2>3
<1>5. OpenAgrees'
  BY <1>4 DEF OpenAgrees, IndexIs
<1>. QED
  BY <1>1, <1>3, <1>5 DEF FileInv, ScanAgrees, ClosedAtStart

\* A write: one record more at the end of the flushed file and of the index.
LEMMA WritePtrFile ==
    ASSUME NoMinus, NoHeaderBehind, Fits, IInv, FileInv,
           NEW p \in Path, NEW c \in Content, NEW immediate \in BOOLEAN,
           WritePtr(p, c, immediate), ~fail
    PROVE  /\ FileInv'
           /\ Records(Flushed') = Append(Records(Flushed),
                [path |-> p, start |-> m_maxPosition + 3, size |-> Len(c)])
           /\ ContentOf(Flushed', [path |-> p, start |-> m_maxPosition + 3, size |-> Len(c)]) = c
<1>. DEFINE cells == RecordCells(p, c)
            rec == [path |-> p, start |-> m_maxPosition + 3, size |-> Len(c)]
<1>1. /\ p \in Path \ TooLong /\ pc = "open" /\ pc' = "open" /\ fail' = FALSE
      /\ Flushed' \in Seq(Cell)
      /\ disk' = IF immediate THEN Flushed' ELSE disk
      /\ Settled' = IF immediate THEN m_maxPosition' ELSE Settled
      /\ m_maxPosition' = m_maxPosition + Len(cells)
      /\ SameBefore(Flushed, Flushed', m_maxPosition)
      /\ \A i \in 1..Len(cells) : CellAt(Flushed', m_maxPosition + i - 1) = cells[i]
      /\ \A q \in Nat : q >= m_maxPosition + Len(cells) => CellAt(Flushed', q) = CellAt(Flushed, q)
      /\ Len(Flushed') >= m_maxPosition + Len(cells)
  BY WriteGives
<1>2. /\ Flushed \in Seq(Cell) /\ Tidy(Flushed) /\ m_maxPosition \in Nat /\ Tidy(disk)
      /\ IndexIs(Records(Flushed)) /\ EndOfAll(Records(Flushed)) = m_maxPosition
      /\ EndOfAll(Records(disk)) = Settled
  BY <1>1, OpenKnows
<1>3. /\ Records(Flushed') = Append(Records(Flushed), rec)
      /\ EndOfAll(Records(Flushed')) = m_maxPosition + 3 + Padded(Len(c))
      /\ Tidy(Flushed')
      /\ ContentOf(Flushed', rec) = c
  <2>. HIDE DEF Flushed
  <2>. QED
    BY <1>1, <1>2, RecordBehind
<1>4. Len(cells) = 3 + Padded(Len(c)) /\ Len(c) \in Nat /\ Padded(Len(c)) \in Nat
  BY <1>1, RecordCellsAre
<1>. HIDE DEF cells
<1>5. EndOfAll(Records(Flushed')) = m_maxPosition'
  BY <1>1, <1>2, <1>3, <1>4
<1>6. EndOfAll(Records(disk')) = Settled'
  BY <1>1, <1>2, <1>5
<1>7. Tidy(disk')
  BY <1>1, <1>2, <1>3
<1>8. Indexes(m_fileNames', m_fileOffsets', m_fileSizes', Records(Flushed'))
  <2>1. /\ m_fileNames \in Seq(AnyPath) /\ PartialMap(m_fileOffsets, Nat)
        /\ PartialMap(m_fileSizes, Nat) /\ DOMAIN m_fileSizes = DOMAIN m_fileOffsets
    BY DEF IInv, Typed, ExtentsInside
  <2>2. Records(Flushed) \in Seq(FileRecord)
    BY <1>2, RecordsProperties, ListsProperties
  <2>3. rec \in FileRecord /\ rec.path = p /\ rec.start = m_maxPosition + 3 /\ rec.size = Len(c)
    <3>1. p \in AnyPath
      BY TarAssumption
    <3>. QED
      BY <1>2, <1>4, <3>1 DEF FileRecord
  <2>4. /\ m_fileNames' = Append(m_fileNames, p)
        /\ m_fileOffsets' = Put(m_fileOffsets, p, m_maxPosition + 3)
        /\ m_fileSizes' = Put(m_fileSizes, p, Len(c))
    BY DEF WritePtr, Block
  <2>5. Indexes(m_fileNames, m_fileOffsets, m_fileSizes, Records(Flushed))
    BY <1>2 DEF IndexIs
  <2>. HIDE DEF rec
  <2>6. Indexes(Append(m_fileNames, rec.path), Put(m_fileOffsets, rec.path, rec.start),
                Put(m_fileSizes, rec.path, rec.size), Append(Records(Flushed), rec))
    BY <2>1, <2>2, <2>3, <2>5, IndexAppended
  <2>. QED
    BY <1>3, <2>3, <2>4, <2>6
<1>9. OpenAgrees'
  BY <1>3, <1>5, <1>6, <1>8 DEF OpenAgrees, IndexIs
<1>10. FileInv'
  BY <1>1, <1>7, <1>9 DEF FileInv, ScanAgrees, ClosedAtStart
<1>. QED
  BY <1>3, <1>10

\* A write to a stream that failed reaches no file.
LEMMA WriteFailedFile ==
    ASSUME FileInv, NEW p \in Path, NEW c \in Content, NEW immediate \in BOOLEAN,
           WritePtr(p, c, immediate), fail
    PROVE  FileInv' /\ disk' = disk /\ buf' = buf /\ fail' = fail /\ Flushed' = Flushed
<1>1. pc' = "open" /\ disk' = disk /\ buf' = buf /\ pos' = pos /\ fail' = fail
  BY DEF WritePtr, stream
<1>. QED
  BY <1>1 DEF FileInv, ScanAgrees, OpenAgrees, ClosedAtStart, Flushed

\* What close writes leaves every record as it is.
LEMMA ClosedFile ==
    ASSUME NoMinus, NoHeaderBehind, IInv, FileInv, pc = "open", NEW k \in 0..Len(Trailer),
           NEW g, g = Overlay(Flushed, m_maxPosition, SubSeq(Trailer, 1, k))
    PROVE  /\ g \in Seq(Cell) /\ Len(g) >= Len(Flushed)
           /\ SameBefore(Flushed, g, EndOfAll(Records(Flushed)))
           /\ Records(g) = Records(Flushed)
           /\ Tidy(g)
<1>. DEFINE s == SubSeq(Trailer, 1, k)
<1>1. /\ Flushed \in Seq(Cell) /\ Tidy(Flushed) /\ fail \in BOOLEAN
      /\ ~fail => EndOfAll(Records(Flushed)) = m_maxPosition
  BY OpenKnows
<1>2. Trailer \in Seq(Cell) /\ (fail => Trailer = <<>>)
      /\ \A i \in 1..Len(Trailer) : Trailer[i] = Zero
  <2>1. Trailer \in Seq(Cell)
    BY TrailerProperties
  <2>2. fail => Trailer = <<>>
    BY DEF Trailer
  <2>3. ASSUME NEW i \in 1..Len(Trailer)
        PROVE  Trailer[i] = Zero
    <3>1. CASE fail \/ m_mode = "Read"
      <4>1. Trailer = <<>>
        BY <3>1 DEF Trailer
      <4>. QED
        BY <2>3, <4>1
    <3>2. CASE ~(fail \/ m_mode = "Read")
      <4>1. Trailer = Zeros(6)
        BY <3>2 DEF Trailer, Block
      <4>2. Len(Zeros(6)) = 6
        BY ZerosProperties
      <4>. QED
        BY <2>3, <4>1, <4>2 DEF Zeros
    <3>. QED
      BY <3>1, <3>2
  <2>. QED
    BY <2>1, <2>2, <2>3
<1>. HIDE DEF Trailer, Flushed
<1>3. s \in Seq(Cell) /\ \A i \in 1..Len(s) : s[i] = Zero
  <2>1. s \in Seq(Cell) /\ Len(s) = k /\ \A i \in 1..k : s[i] = Trailer[i]
    BY <1>2
  <2>. HIDE DEF s
  <2>. QED
    BY <1>2, <2>1
<1>4. CASE ~fail
  <2>1. g = Overlay(Flushed, EndOfAll(Records(Flushed)), s)
    BY <1>1, <1>4
  <2>. HIDE DEF s
  <2>. QED
    BY <1>1, <1>3, <2>1, ZerosBehind
<1>5. CASE fail
  <2>1. g = Flushed
    <3>1. s = <<>>
      BY <1>2, <1>5
    <3>. QED
      BY <3>1 DEF Overlay
  <2>. QED
    BY <1>1, <2>1 DEF SameBefore
<1>. QED
  BY <1>1, <1>4, <1>5

\* close, and a crash inside it: the records of the flushed file are all there.
LEMMA CloseFile ==
    ASSUME NoMinus, NoHeaderBehind, IInv, FileInv, Close \/ CrashInClose
    PROVE  /\ FileInv' /\ disk' \in Seq(Cell) /\ Len(disk') >= Len(Flushed)
           /\ SameBefore(Flushed, disk', EndOfAll(Records(Flushed)))
           /\ Records(disk') = Records(Flushed)
<1>1. pc = "open" /\ Forget
  BY DEF Close, CrashInClose
<1>2. \E k \in 0..Len(Trailer) :
        disk' = Overlay(Flushed, m_maxPosition, SubSeq(Trailer, 1, k))
  <2>1. CASE Close
    <3>1. Trailer \in Seq(Cell)
      <4>1. 0 \in 0..Len(Trailer)
        BY ZerosProperties DEF Trailer, Block
      <4>. QED
        BY <1>1, <4>1, TrailerProperties
    <3>2. Len(Trailer) \in 0..Len(Trailer)
      BY <3>1
    <3>3. SubSeq(Trailer, 1, Len(Trailer)) = Trailer
      BY <1>1, <3>2, TrailerProperties
    <3>4. disk' = Overlay(Flushed, m_maxPosition, SubSeq(Trailer, 1, Len(Trailer)))
      BY <2>1, <3>3 DEF Close
    <3>. QED
      BY <3>2, <3>4
  <2>2. CASE CrashInClose
    <3>1. PICK k \in 1..Len(Trailer) :
            disk' = Overlay(Flushed, m_maxPosition, SubSeq(Trailer, 1, k))
      BY <2>2 DEF CrashInClose
    <3>2. k \in 0..Len(Trailer)
      BY <3>1
    <3>. QED
      BY <3>1, <3>2
  <2>. QED
    BY <2>1, <2>2
<1>3. PICK k \in 0..Len(Trailer) :
        disk' = Overlay(Flushed, m_maxPosition, SubSeq(Trailer, 1, k))
  BY <1>2
<1>4. /\ disk' \in Seq(Cell) /\ Len(disk') >= Len(Flushed)
      /\ SameBefore(Flushed, disk', EndOfAll(Records(Flushed)))
      /\ Records(disk') = Records(Flushed)
      /\ Tidy(disk')
  BY <1>1, <1>3, ClosedFile
<1>. QED
  BY <1>1, <1>4, ForgotFile

\* A process that dies leaves the file as it was, or the flushed file cut short.
LEMMA CrashGives ==
    ASSUME NoMinus, IInv, FileInv, Crash
    PROVE  \/ disk' = disk
           \/ /\ pc = "open" /\ ~fail /\ buf # <<>> /\ disk' \in Seq(Cell)
              /\ Len(disk') >= Len(disk)
              /\ \E k \in 0..Len(buf) :
                   /\ k > 0 => Len(disk') >= Settled + k
                   /\ EndOfAll(Records(disk)) <= Settled + k
                   /\ Settled + k <= EndOfAll(Records(Flushed))
                   /\ Settled + k \in Nat
                   /\ \A q \in Nat : CellAt(disk', q) = IF q < Settled + k THEN CellAt(Flushed, q)
                                                        ELSE CellAt(disk, q)
<1>1. PICK k \in 0..Len(buf) : disk' = Overlay(disk, pos - Len(buf), SubSeq(buf, 1, k))
  BY DEF Crash
<1>2. CASE buf = <<>>
  <2>1. SubSeq(buf, 1, k) = <<>>
    BY <1>1, <1>2
  <2>. QED
    BY <1>1, <2>1 DEF Overlay
<1>3. CASE buf # <<>>
  <2>1. pc = "open" /\ ~fail /\ Settled = pos - Len(buf)
    BY <1>3 DEF IInv, BufferAtEnd, Settled
  <2>2. /\ disk \in Seq(Cell) /\ Settled \in Nat /\ EndOfAll(Records(Flushed)) = m_maxPosition
        /\ EndOfAll(Records(disk)) = Settled
    BY <2>1, OpenKnows
  <2>3. /\ buf \in Seq(Cell) /\ m_maxPosition \in Nat /\ Settled + Len(buf) = m_maxPosition
    BY <2>1, FlushedIs
  <2>4. \A q \in Nat : CellAt(Flushed, q) = IF Settled <= q /\ q < m_maxPosition
                                            THEN buf[q - Settled + 1] ELSE CellAt(disk, q)
    BY <2>1, FlushedCells
  <2>. DEFINE s == SubSeq(buf, 1, k)
  <2>5. s \in Seq(Cell) /\ Len(s) = k /\ \A i \in 1..k : s[i] = buf[i]
    BY <1>1, <2>3
  <2>6. disk' = Overlay(disk, Settled, s)
    BY <1>1, <2>1
  <2>. HIDE DEF s, Settled, Flushed
  <2>7. /\ disk' \in Seq(Cell)
        /\ Len(disk') = IF s = <<>> \/ Settled + Len(s) <= Len(disk) THEN Len(disk)
                        ELSE Settled + Len(s)
        /\ \A q \in Nat : CellAt(disk', q) = IF Settled <= q /\ q < Settled + Len(s)
                                             THEN s[q - Settled + 1] ELSE CellAt(disk, q)
    BY <2>2, <2>5, <2>6, OverlayCells
  <2>8. k \in Nat /\ k <= Len(buf) /\ Len(buf) \in Nat /\ Len(disk) \in Nat
    BY <1>1, <2>2, <2>3
  <2>9. k > 0 => s # <<>>
    BY <2>5, <2>8
  <2>10. Len(disk') >= Len(disk) /\ (k > 0 => Len(disk') >= Settled + k)
    BY <2>2, <2>5, <2>7, <2>8, <2>9
  <2>11. ASSUME NEW q \in Nat
         PROVE  CellAt(disk', q) = IF q < Settled + k THEN CellAt(Flushed, q)
                                   ELSE CellAt(disk, q)
    <3>1. CASE Settled <= q /\ q < Settled + k
      <4>1. q - Settled + 1 \in 1..k /\ q < m_maxPosition
        BY <2>2, <2>3, <2>8, <3>1
      <4>2. CellAt(disk', q) = s[q - Settled + 1] /\ s[q - Settled + 1] = buf[q - Settled + 1]
        BY <2>5, <2>7, <3>1, <4>1
      <4>3. CellAt(Flushed, q) = buf[q - Settled + 1]
        BY <2>4, <3>1, <4>1
      <4>. QED
        BY <3>1, <4>2, <4>3
    <3>2. CASE ~(Settled <= q)
      <4>1. q < Settled + k
        BY <2>2, <2>8, <3>2
      <4>. QED
        BY <2>4, <2>7, <3>2, <4>1
    <3>3. CASE Settled <= q /\ ~(q < Settled + k)
      BY <2>5, <2>7, <3>3
    <3>. QED
      BY <3>1, <3>2, <3>3
  <2>12. /\ EndOfAll(Records(disk)) <= Settled + k /\ Settled + k <= EndOfAll(Records(Flushed))
         /\ Settled + k \in Nat
    BY <2>2, <2>3, <2>8
  <2>. QED
    BY <1>1, <1>3, <2>1, <2>7, <2>10, <2>11, <2>12
<1>. QED
  BY <1>2, <1>3

\* A process dies: what is left is tidy.
LEMMA CrashFile ==
    ASSUME NoMinus, NoHeaderBehind, IInv, FileInv, Crash
    PROVE  FileInv'
<1>1. Forget
  BY DEF Crash
<1>2. CASE disk' = disk
  <2>1. Tidy(disk')
    BY <1>2 DEF FileInv
  <2>. QED
    BY <1>1, <2>1, ForgotFile
<1>3. CASE disk' # disk
  <2>1. pc = "open" /\ disk' \in Seq(Cell)
    BY <1>3, CrashGives
  <2>2. PICK k \in 0..Len(buf) :
          /\ EndOfAll(Records(disk)) <= Settled + k
          /\ Settled + k <= EndOfAll(Records(Flushed)) /\ Settled + k \in Nat
          /\ \A q \in Nat : CellAt(disk', q) = IF q < Settled + k THEN CellAt(Flushed, q)
                                               ELSE CellAt(disk, q)
    BY <1>3, CrashGives
  <2>3. /\ disk \in Seq(Cell) /\ Flushed \in Seq(Cell) /\ Tidy(disk)
        /\ SameBefore(disk, Flushed, EndOfAll(Records(disk)))
    BY <2>1, OpenKnows
  <2>. DEFINE c == Settled + k
  <2>4. /\ c \in Nat /\ EndOfAll(Records(disk)) <= c /\ c <= EndOfAll(Records(Flushed))
        /\ \A q \in Nat : CellAt(disk', q) = IF q < c THEN CellAt(Flushed, q) ELSE CellAt(disk, q)
    BY <2>2
  <2>. HIDE DEF c, Flushed
  <2>5. Tidy(disk')
    BY <2>1, <2>3, <2>4, CutShort
  <2>. QED
    BY <1>1, <2>5, ForgotFile
<1>. QED
  BY <1>2, <1>3

\* Every step keeps the index in agreement with the file.
LEMMA NextFile ==
    ASSUME NoMinus, NoHeaderBehind, Fits, IInv, FileInv, [Next]_vars
    PROVE  FileInv'
<1>1. ASSUME NEW mode \in {"Read", "Write", "Append"}, Open(mode)
      PROVE  FileInv'
  BY <1>1, OpenFile
<1>2. CASE ScanRecord
  BY <1>2, ScanRecordFile
<1>3. CASE ScanSkip
  BY <1>3, ScanSkipFile
<1>4. CASE ScanThrow
  BY <1>4, ForgotFile DEF ScanThrow, FileInv, file
<1>5. CASE ScanDone
  BY <1>5, ScanDoneFile
<1>6. ASSUME NEW p \in Path, NEW c \in Content, NEW immediate \in BOOLEAN,
             WritePtr(p, c, immediate)
      PROVE  FileInv'
  <2>1. CASE fail
    BY <1>6, <2>1, WriteFailedFile
  <2>2. CASE ~fail
    BY <1>6, <2>2, WritePtrFile
  <2>. QED
    BY <2>1, <2>2
<1>7. ASSUME NEW p \in Path, WriteTooLong(p)
      PROVE  FileInv'
  <2>1. /\ pc = "open" /\ pc' = "open" /\ UNCHANGED <<index, m_maxPosition>> /\ fail' = fail
        /\ disk' = SoughtFile /\ buf' = UnwrittenBuffer /\ pos' = WritePosition
    BY <1>7 DEF WriteTooLong
  <2>2. Seeks => disk' = Flushed /\ buf' = <<>>
    BY <2>1 DEF SoughtFile, UnwrittenBuffer
  <2>3. ~Seeks => disk' = disk /\ buf' = buf /\ pos' = pos
    BY <2>1 DEF SoughtFile, UnwrittenBuffer, WritePosition
  <2>. QED
    BY <2>1, <2>2, <2>3, FlushOrNot
<1>8. ASSUME NEW p \in Path, Read(p)
      PROVE  FileInv'
  <2>1. /\ pc = "open" /\ pc' = "open" /\ UNCHANGED <<index, m_maxPosition>>
        /\ fail => fail'
        /\ disk' = Flushed /\ buf' = <<>>
    BY <1>8 DEF Read
  <2>. QED
    BY <2>1, FlushOrNot
<1>9. ASSUME NEW p \in Path, ReadMissing(p)
      PROVE  FileInv'
  BY <1>9, FlushOrNot DEF ReadMissing, file, stream
<1>10. CASE WriteReadOnly
  BY <1>10, FlushOrNot DEF WriteReadOnly, file, stream
<1>11. CASE EndBulkWrites
  BY <1>11, FlushOrNot DEF EndBulkWrites
<1>12. CASE Close
  BY <1>12, CloseFile
<1>13. CASE Crash
  BY <1>13, CrashFile
<1>14. CASE CrashInClose
  BY <1>14, CloseFile
<1>15. CASE UNCHANGED vars
  BY <1>15 DEF vars, file, stream, index, FileInv, ScanAgrees, OpenAgrees, ClosedAtStart,
               IndexIs, Flushed, Settled
<1>. QED
  BY <1>1, <1>2, <1>3, <1>4, <1>5, <1>6, <1>7, <1>8, <1>9, <1>10, <1>11, <1>12, <1>13,
     <1>14, <1>15 DEF Next, Scan

\* An index that agrees with the records says what IndexMatchesFile asks.
LEMMA AgreesMatches ==
    ASSUME NoMinus, IInv, FileInv
    PROVE  IndexMatchesFile
<1>1. SUFFICES ASSUME pc = "open", ~fail
               PROVE  LET rs == Records(Flushed)
                      IN  /\ m_fileNames = [i \in DOMAIN rs |-> rs[i].path]
                          /\ \A p \in DOMAIN m_fileOffsets :
                               LET last == rs[LastOf(rs, p)]
                               IN  m_fileOffsets[p] = last.start /\ m_fileSizes[p] = last.size
  BY DEF IndexMatchesFile
<1>. DEFINE rs == Records(Flushed)
<1>2. Flushed \in Seq(Cell) /\ IndexIs(rs)
  BY <1>1, OpenKnows
<1>3. rs \in Seq(FileRecord)
  BY <1>2, RecordsProperties, ListsProperties
<1>. HIDE DEF rs
<1>4. DOMAIN rs = 1..Len(rs)
  BY <1>3
<1>5. m_fileNames = [i \in DOMAIN rs |-> rs[i].path]
  BY <1>2, <1>4 DEF IndexIs, Indexes
<1>6. ASSUME NEW p \in DOMAIN m_fileOffsets
      PROVE  /\ m_fileOffsets[p] = rs[LastOf(rs, p)].start
             /\ m_fileSizes[p] = rs[LastOf(rs, p)].size
  <2>1. PICK i \in 1..Len(rs) :
          IsLast(rs, p, i) /\ m_fileOffsets[p] = rs[i].start /\ m_fileSizes[p] = rs[i].size
    BY <1>2 DEF IndexIs, Indexes
  <2>2. LastOf(rs, p) = i
    BY <1>3, <2>1, LastIsLastOf
  <2>. QED
    BY <2>1, <2>2
<1>. QED
  BY <1>5, <1>6 DEF rs

\* The index is at every moment what a fresh reading of the flushed file would
\* build, in every run on files without a header behind the end of their
\* records, of writes whose path and size a header can hold
\* (TarArchive.cpp:68-137, 176-274).
THEOREM IndexIsFile ==
    ASSUME NoMinus, NoHeaderBehind, Fits
    PROVE  Spec => []IndexMatchesFile
<1>1. Init => IInv /\ FileInv
  BY InitStep, InitFile
<1>2. IInv /\ FileInv /\ [Next]_vars => IInv' /\ FileInv'
  BY NextStep, NextFile
<1>3. IInv /\ FileInv => IndexMatchesFile
  BY AgreesMatches
<1>. QED
  BY <1>1, <1>2, <1>3, PTL DEF Spec

\* The contents of a record depend on its place and size alone.
LEMMA SameContents ==
    ASSUME NEW f, NEW r, NEW s, s.start = r.start, s.size = r.size
    PROVE  ContentOf(f, s) = ContentOf(f, r)
BY DEF ContentOf

\* What is found in a file, by the last record of a path.
LEMMA FoundByLast ==
    ASSUME NoMinus, NEW f \in Seq(Cell), NEW p \in Path
    PROVE  /\ \A i \in 1..Len(Records(f)) : IsLast(Records(f), p, i) =>
                FoundIn(f)[p] = ContentOf(f, Records(f)[i])
           /\ (\A i \in 1..Len(Records(f)) : Records(f)[i].path # p) => FoundIn(f)[p] = Missing
<1>. DEFINE rs == Records(f)
<1>1. rs \in Seq(FileRecord)
  BY RecordsProperties, ListsProperties
<1>2. FoundIn(f)[p] = IF \E i \in DOMAIN rs : rs[i].path = p
                      THEN ContentOf(f, rs[LastOf(rs, p)]) ELSE Missing
  BY DEF FoundIn
<1>. HIDE DEF rs
<1>3. DOMAIN rs = 1..Len(rs)
  BY <1>1
<1>4. ASSUME NEW i \in 1..Len(rs), IsLast(rs, p, i)
      PROVE  FoundIn(f)[p] = ContentOf(f, rs[i])
  <2>1. LastOf(rs, p) = i
    BY <1>1, <1>4, LastIsLastOf
  <2>2. \E j \in DOMAIN rs : rs[j].path = p
    BY <1>3, <1>4 DEF IsLast
  <2>. QED
    BY <1>2, <2>1, <2>2
<1>. QED
  BY <1>2, <1>3, <1>4 DEF rs

\* An index that agrees with the records reads back what a later process finds.
LEMMA AgreesReadsBack ==
    ASSUME NoMinus, IInv, FileInv
    PROVE  ReopenReadsBack
<1>1. SUFFICES ASSUME pc = "open", ~fail, NEW p \in Path \cap DOMAIN m_fileOffsets
               PROVE  FoundIn(Flushed)[p] =
                        ContentOf(Flushed, [start |-> m_fileOffsets[p], size |-> m_fileSizes[p]])
  BY DEF ReopenReadsBack
<1>. DEFINE rs == Records(Flushed)
<1>2. Flushed \in Seq(Cell) /\ IndexIs(rs)
  BY <1>1, OpenKnows
<1>3. PICK i \in 1..Len(rs) :
        IsLast(rs, p, i) /\ m_fileOffsets[p] = rs[i].start /\ m_fileSizes[p] = rs[i].size
  BY <1>2 DEF IndexIs, Indexes
<1>4. FoundIn(Flushed)[p] = ContentOf(Flushed, rs[i])
  BY <1>2, <1>3, FoundByLast
<1>. HIDE DEF rs
<1>. DEFINE s == [start |-> m_fileOffsets[p], size |-> m_fileSizes[p]]
<1>5. s.start = rs[i].start /\ s.size = rs[i].size
  BY <1>3
<1>. HIDE DEF s
<1>6. ContentOf(Flushed, s) = ContentOf(Flushed, rs[i])
  BY <1>5, SameContents
<1>. QED
  BY <1>4, <1>6 DEF s

\* A later process reads what this one reads, of every path this session knows,
\* on such files and of such writes: a long path and a size of more than eleven
\* digits are the only things in the way (TarArchive.cpp:192-222,
\* test/test_gtar.py:88-96).
THEOREM ReopenFinds ==
    ASSUME NoMinus, NoHeaderBehind, Fits
    PROVE  Spec => []ReopenReadsBack
<1>1. Init => IInv /\ FileInv
  BY InitStep, InitFile
<1>2. IInv /\ FileInv /\ [Next]_vars => IInv' /\ FileInv'
  BY NextStep, NextFile
<1>3. IInv /\ FileInv => ReopenReadsBack
  BY AgreesReadsBack
<1>. QED
  BY <1>1, <1>2, <1>3, PTL DEF Spec

-----------------------------------------------------------------------------
(* What is found after writes *)

\* The writes that returned and may still be lost.
Pending == Seq([path : Path, value : Content])

\* The file g holds the records of f, no content of them changed, and behind
\* them those of the writes ws.
Extends(f, g, ws) ==
    LET old == Records(f)
        new == Records(g)
    IN  /\ Len(old) + Len(ws) <= Len(new)
        /\ \A i \in 1..Len(old) :
             /\ new[i].path = old[i].path
             /\ ContentOf(f, old[i]) # Damaged => ContentOf(g, new[i]) = ContentOf(f, old[i])
        /\ \A i \in 1..Len(ws) :
             /\ new[Len(old) + i].path = ws[i].path
             /\ ContentOf(g, new[Len(old) + i]) = ws[i].value

\* Contents, damage and absence are told apart.
LEMMA ValuesDiffer ==
    /\ Damaged \notin Content /\ Missing \notin Content /\ Damaged # Missing
    /\ NoReply \notin Content /\ Synced \notin Content
    /\ Damaged # NoReply /\ Damaged # Synced
<1>1. Content \subseteq Seq(Cell \cup {Uninit})
  <2>1. Byte \subseteq Cell \cup {Uninit}
    BY DEF Cell
  <2>2. Seq(Byte) \subseteq Seq(Cell \cup {Uninit})
    BY <2>1
  <2>. QED
    BY <2>2, TarAssumption
<1>2. \A r \in {NoReply, Synced, Missing} : r \notin Seq(Cell \cup {Uninit})
  BY TarAssumption
<1>. QED
  BY <1>1, <1>2, DamagedAssumption

\* Each pending write has a path and contents.
LEMMA PendingWrites ==
    ASSUME NEW ws \in Pending, NEW i \in 1..Len(ws)
    PROVE  ws[i].path \in Path /\ ws[i].value \in Content
<1>. DEFINE S == [path : Path, value : Content]
<1>1. ws \in Seq(S)
  BY DEF Pending
<1>. HIDE DEF S
<1>2. ws[i] \in S
  BY <1>1, ElementOfSeq
<1>. QED
  BY <1>2 DEF S

\* A record holds contents somebody wrote or is damaged.
LEMMA ContentType ==
    ASSUME NEW f, NEW r
    PROVE  ContentOf(f, r) \in Content \cup {Damaged}
BY DEF ContentOf

\* What is found of a path is contents, damage, or nothing.
LEMMA FoundType ==
    ASSUME NEW f
    PROVE  FoundIn(f) \in [Path -> Content \cup {Missing, Damaged}]
<1>1. \A r : ContentOf(f, r) \in Content \cup {Missing, Damaged}
  BY ContentType
<1>. QED
  BY <1>1 DEF FoundIn

\* The last of the writes of a path, when there are any.
LEMMA AppliedWrites ==
    ASSUME NEW map \in [Path -> Content \cup {Missing, Damaged}], NEW ws \in Pending,
           NEW p \in Path
    PROVE  /\ (\A i \in 1..Len(ws) : ws[i].path # p) => A!Apply(map, ws)[p] = map[p]
           /\ (\E i \in 1..Len(ws) : ws[i].path = p) =>
                \E i \in 1..Len(ws) :
                  /\ ws[i].path = p /\ \A j \in 1..Len(ws) : ws[j].path = p => j <= i
                  /\ A!Apply(map, ws)[p] = ws[i].value
<1>. DEFINE hits == {i \in DOMAIN ws : ws[i].path = p}
<1>1. A!Apply(map, ws)[p] =
        IF hits = {} THEN map[p]
        ELSE ws[CHOOSE i \in hits : \A j \in hits : j <= i].value
  BY DEF A!Apply
<1>2. DOMAIN ws = 1..Len(ws) /\ Len(ws) \in Nat
  BY DEF Pending
<1>3. hits = {i \in 1..Len(ws) : ws[i].path = p}
  BY <1>2
<1>4. ASSUME NEW k \in 1..Len(ws), ws[k].path = p
      PROVE  \E i \in 1..Len(ws) :
               /\ ws[i].path = p /\ \A j \in 1..Len(ws) : ws[j].path = p => j <= i
               /\ A!Apply(map, ws)[p] = ws[i].value
  <2>1. hits # {} /\ hits \in SUBSET (1..Len(ws))
    BY <1>3, <1>4
  <2>. HIDE DEF hits
  <2>2. \E i \in hits : \A j \in hits : j <= i
    BY <1>2, <2>1, LastPosition
  <2>. DEFINE i == CHOOSE i \in hits : \A j \in hits : j <= i
  <2>3. i \in hits /\ \A j \in hits : j <= i
    BY <2>2
  <2>4. A!Apply(map, ws)[p] = ws[i].value
    BY <1>1, <2>1
  <2>. HIDE DEF i
  <2>. QED
    BY <1>3, <2>3, <2>4
<1>5. (\A i \in 1..Len(ws) : ws[i].path # p) => hits = {}
  BY <1>3
<1>. QED
  BY <1>1, <1>4, <1>5

\* Writes applied to a map are a map of the same paths.
LEMMA AppliedIsMap ==
    ASSUME NEW map, NEW ws
    PROVE  A!Apply(map, ws) = [p \in Path |-> A!Apply(map, ws)[p]]
<1>. DEFINE F(p) == LET hits == {i \in DOMAIN ws : ws[i].path = p}
                    IN  IF hits = {} THEN map[p]
                        ELSE ws[CHOOSE i \in hits : \A j \in hits : j <= i].value
<1>1. A!Apply(map, ws) = [p \in Path |-> F(p)]
  BY DEF A!Apply
<1>. HIDE DEF F
<1>. QED
  BY <1>1

\* What a new process finds of a path no other record was written for.
LEMMA FoundAfter ==
    ASSUME NoMinus, NEW f \in Seq(Cell), NEW g \in Seq(Cell), NEW ws \in Pending, Extends(f, g, ws),
           NEW p \in Path,
           \A i \in 1..Len(Records(g)) : i > Len(Records(f)) + Len(ws) => Records(g)[i].path # p
    PROVE  IF A!Apply(FoundIn(f), ws)[p] = Damaged THEN FoundIn(g)[p] # Missing
           ELSE FoundIn(g)[p] = A!Apply(FoundIn(f), ws)[p]
<1>. DEFINE old == Records(f)
            new == Records(g)
            m   == Len(old)
            map == FoundIn(f)
<1>1. /\ old \in Seq(FileRecord) /\ new \in Seq(FileRecord) /\ m \in Nat /\ Len(new) \in Nat
  BY RecordsProperties, ListsProperties
<1>2. Len(ws) \in Nat
  BY DEF Pending
<1>3. /\ m + Len(ws) <= Len(new)
      /\ \A i \in 1..m :
           /\ new[i].path = old[i].path
           /\ ContentOf(f, old[i]) # Damaged => ContentOf(g, new[i]) = ContentOf(f, old[i])
      /\ \A i \in 1..Len(ws) :
           new[m + i].path = ws[i].path /\ ContentOf(g, new[m + i]) = ws[i].value
  BY DEF Extends
<1>4. map \in [Path -> Content \cup {Missing, Damaged}]
  BY FoundType
<1>5. /\ \A i \in 1..m : IsLast(old, p, i) => map[p] = ContentOf(f, old[i])
      /\ (\A i \in 1..m : old[i].path # p) => map[p] = Missing
  BY FoundByLast
<1>6. /\ \A i \in 1..Len(new) : IsLast(new, p, i) => FoundIn(g)[p] = ContentOf(g, new[i])
      /\ (\A i \in 1..Len(new) : new[i].path # p) => FoundIn(g)[p] = Missing
  BY FoundByLast
<1>7. \A i \in 1..Len(new) : i > m + Len(ws) => new[i].path # p
  OBVIOUS
<1>. HIDE DEF old, new, m, map
<1>8. \A i \in 1..Len(new) : i <= m \/ (\E j \in 1..Len(ws) : i = m + j) \/ i > m + Len(ws)
  <2>1. SUFFICES ASSUME NEW i \in 1..Len(new), i > m, i <= m + Len(ws)
                 PROVE  \E j \in 1..Len(ws) : i = m + j
    BY <1>1, <1>2
  <2>2. i - m \in 1..Len(ws) /\ i = m + (i - m)
    BY <1>1, <1>2, <2>1
  <2>. QED
    BY <2>2
<1>9. CASE \A i \in 1..Len(ws) : ws[i].path # p
  <2>1. A!Apply(map, ws)[p] = map[p]
    BY <1>4, <1>9, AppliedWrites
  <2>2. \A i \in 1..Len(new) : new[i].path = p => i \in 1..m
    <3>1. SUFFICES ASSUME NEW i \in 1..Len(new), new[i].path = p PROVE i \in 1..m
      OBVIOUS
    <3>2. i <= m
      BY <1>3, <1>7, <1>8, <1>9, <3>1
    <3>. QED
      BY <1>1, <3>2
  <2>3. CASE \A i \in 1..m : old[i].path # p
    <3>1. \A i \in 1..Len(new) : new[i].path # p
      BY <1>3, <2>2, <2>3
    <3>2. FoundIn(g)[p] = Missing /\ map[p] = Missing
      BY <1>5, <1>6, <2>3, <3>1
    <3>. QED
      BY <2>1, <3>2, ValuesDiffer DEF map
  <2>4. CASE \E i \in 1..m : old[i].path = p
    <3>1. PICK i \in 1..m : IsLast(old, p, i)
      <4>1. PICK k \in 1..m : old[k].path = p
        BY <2>4
      <4>. QED
        BY <1>1, <4>1, LastExists DEF m
    <3>2. i \in 1..Len(new)
      BY <1>1, <1>2, <1>3
    <3>3. IsLast(new, p, i)
      BY <1>3, <2>2, <3>1, <3>2 DEF IsLast, m
    <3>4. FoundIn(g)[p] = ContentOf(g, new[i]) /\ map[p] = ContentOf(f, old[i])
      BY <1>5, <1>6, <3>1, <3>2, <3>3
    <3>5. ContentOf(g, new[i]) # Missing
      BY ContentType, ValuesDiffer
    <3>6. ContentOf(f, old[i]) # Damaged => ContentOf(g, new[i]) = ContentOf(f, old[i])
      BY <1>3
    <3>. QED
      BY <2>1, <3>4, <3>5, <3>6 DEF map
  <2>. QED
    BY <2>3, <2>4
<1>10. CASE \E i \in 1..Len(ws) : ws[i].path = p
  <2>1. PICK i \in 1..Len(ws) :
          /\ ws[i].path = p /\ \A j \in 1..Len(ws) : ws[j].path = p => j <= i
          /\ A!Apply(map, ws)[p] = ws[i].value
    BY <1>4, <1>10, AppliedWrites
  <2>2. m + i \in 1..Len(new)
    BY <1>1, <1>2, <1>3
  <2>3. \A k \in 1..Len(new) : new[k].path = p => k <= m + i
    <3>1. SUFFICES ASSUME NEW k \in 1..Len(new), new[k].path = p PROVE k <= m + i
      OBVIOUS
    <3>2. CASE k <= m
      BY <1>1, <1>2, <3>2
    <3>3. CASE \E j \in 1..Len(ws) : k = m + j
      <4>1. PICK j \in 1..Len(ws) : k = m + j
        BY <3>3
      <4>2. ws[j].path = p
        BY <1>3, <3>1, <4>1
      <4>3. j <= i
        BY <2>1, <4>2
      <4>. QED
        BY <1>1, <1>2, <4>1, <4>3
    <3>. QED
      BY <1>7, <1>8, <3>1, <3>2, <3>3
  <2>4. IsLast(new, p, m + i)
    BY <1>3, <2>1, <2>2, <2>3 DEF IsLast
  <2>5. FoundIn(g)[p] = ws[i].value
    BY <1>3, <1>6, <2>2, <2>4
  <2>6. ws[i].value \in Content
    BY PendingWrites
  <2>. QED
    BY <2>1, <2>5, <2>6, ValuesDiffer DEF map
<1>. QED
  BY <1>9, <1>10

\* When there are no other records, the file comes to hold what the writes say.
LEMMA FoundBecomes ==
    ASSUME NoMinus, NEW f \in Seq(Cell), NEW g \in Seq(Cell), NEW ws \in Pending, Extends(f, g, ws),
           \A i \in 1..Len(Records(g)) : i > Len(Records(f)) + Len(ws) =>
                Records(g)[i].path \notin Path,
           found' = FoundIn(g)
    PROVE  A!Becomes(A!Apply(FoundIn(f), ws))
<1>1. FoundIn(g) \in [Path -> Content \cup {Missing, Damaged}]
  BY FoundType
<1>2. ASSUME NEW p \in Path
      PROVE  IF A!Apply(FoundIn(f), ws)[p] = Damaged THEN found'[p] # Missing
             ELSE found'[p] = A!Apply(FoundIn(f), ws)[p]
  BY FoundAfter
<1>. QED
  BY <1>1, <1>2 DEF A!Becomes

\* Contents read the same in files that agree on them.
LEMMA ContentsSame ==
    ASSUME NEW f \in Seq(Cell), NEW g \in Seq(Cell), NEW r \in FileRecord, NEW o \in Nat,
           r.start + r.size <= o, SameBefore(f, g, o),
           r.start + r.size <= Len(f), r.start + r.size <= Len(g)
    PROVE  ContentOf(g, r) = ContentOf(f, r)
<1>. DEFINE s == r.start
            z == r.size
            a == SubSeq(f, s + 1, s + z)
            b == SubSeq(g, s + 1, s + z)
<1>1. s \in Nat /\ z \in Nat
  BY EndOfProperties
<1>2. ContentOf(f, r) = IF a \in Content THEN a ELSE Damaged
  <2>1. ~(z < 0 \/ s + z > Len(f))
    BY <1>1
  <2>. QED
    BY <2>1 DEF ContentOf
<1>3. ContentOf(g, r) = IF b \in Content THEN b ELSE Damaged
  <2>1. ~(z < 0 \/ s + z > Len(g))
    BY <1>1
  <2>. QED
    BY <2>1 DEF ContentOf
<1>4. s + z <= o /\ s + z <= Len(f) /\ s + z <= Len(g)
  OBVIOUS
<1>. HIDE DEF s, z
<1>5. a \in Seq(Cell) /\ Len(a) = z /\ \A i \in 1..z : a[i] = CellAt(f, s + i - 1)
  BY <1>1, <1>4, PartOfFile
<1>6. b \in Seq(Cell) /\ Len(b) = z /\ \A i \in 1..z : b[i] = CellAt(g, s + i - 1)
  BY <1>1, <1>4, PartOfFile
<1>. HIDE DEF a, b
<1>7. \A i \in 1..z : b[i] = a[i]
  <2>1. SUFFICES ASSUME NEW i \in 1..z PROVE b[i] = a[i]
    OBVIOUS
  <2>2. s + i - 1 \in Nat /\ s + i - 1 < o
    BY <1>1, <1>4
  <2>3. CellAt(g, s + i - 1) = CellAt(f, s + i - 1)
    BY <2>2 DEF SameBefore
  <2>. QED
    BY <1>5, <1>6, <2>3
<1>8. a = b
  BY <1>5, <1>6, <1>7
<1>. QED
  BY <1>2, <1>3, <1>8

\* Contents that are not damaged end in the file.
LEMMA WholeContents ==
    ASSUME NEW f, NEW r, ContentOf(f, r) # Damaged
    PROVE  ~(r.start + r.size > Len(f))
BY DEF ContentOf

\* A file that agrees with f up to the end of its records holds their contents.
LEMMA ContentsKept ==
    ASSUME NoMinus, NEW f \in Seq(Cell), NEW g \in Seq(Cell), Len(g) >= Len(f),
           SameBefore(f, g, EndOfAll(Records(f)))
    PROVE  \A i \in 1..Len(Records(f)) :
             ContentOf(f, Records(f)[i]) # Damaged =>
               ContentOf(g, Records(f)[i]) = ContentOf(f, Records(f)[i])
<1>. DEFINE rs == Records(f)
            o  == EndOfAll(rs)
<1>1. Lists(f, rs) /\ rs \in Seq(FileRecord) /\ o \in Nat
  BY RecordsProperties, ListsProperties
<1>. SUFFICES ASSUME NEW i \in 1..Len(rs), ContentOf(f, rs[i]) # Damaged
              PROVE  ContentOf(g, rs[i]) = ContentOf(f, rs[i])
  OBVIOUS
<1>2. rs[i] \in FileRecord /\ rs[i].start + rs[i].size <= o
  BY <1>1, RecordBeforeEnd
<1>3. rs[i].start \in Nat /\ rs[i].size \in Nat
  BY <1>2, EndOfProperties
<1>4. ~(rs[i].start + rs[i].size > Len(f))
  BY WholeContents
<1>5. SameBefore(f, g, o)
  OBVIOUS
<1>. HIDE DEF rs, o
<1>6. rs[i].start + rs[i].size <= Len(f) /\ rs[i].start + rs[i].size <= Len(g)
  BY <1>3, <1>4
<1>. QED
  BY <1>1, <1>2, <1>5, <1>6, ContentsSame

\* Nothing written: the file is as it was.
LEMMA NothingWritten ==
    ASSUME NoMinus, NEW f \in Seq(Cell)
    PROVE  Extends(f, f, <<>>) /\ <<>> \in Pending /\ Len(<<>>) = 0
<1>1. Len(Records(f)) \in Nat
  BY RecordsProperties, ListsProperties
<1>2. Len(<<>>) = 0 /\ <<>> \in Pending
  BY DEF Pending
<1>. QED
  BY <1>1, <1>2 DEF Extends

\* What was written stays written in a file that agrees up to its end.
LEMMA ExtendsFurther ==
    ASSUME NoMinus, NEW f \in Seq(Cell), NEW g \in Seq(Cell), NEW h \in Seq(Cell), NEW ws \in Pending,
           Extends(f, g, ws), Len(h) >= Len(g), SameBefore(g, h, EndOfAll(Records(g)))
    PROVE  Extends(f, h, ws)
<1>. DEFINE old == Records(f)
            mid == Records(g)
            new == Records(h)
<1>1. /\ Len(mid) \in Nat /\ Len(new) \in Nat /\ Len(mid) <= Len(new)
      /\ \A i \in 1..Len(mid) : new[i] = mid[i]
  BY OldRecordsFirst
<1>2. \A i \in 1..Len(mid) :
        ContentOf(g, mid[i]) # Damaged => ContentOf(h, mid[i]) = ContentOf(g, mid[i])
  BY ContentsKept
<1>3. /\ Len(old) + Len(ws) <= Len(mid)
      /\ \A i \in 1..Len(old) :
           /\ mid[i].path = old[i].path
           /\ ContentOf(f, old[i]) # Damaged => ContentOf(g, mid[i]) = ContentOf(f, old[i])
      /\ \A i \in 1..Len(ws) :
           /\ mid[Len(old) + i].path = ws[i].path
           /\ ContentOf(g, mid[Len(old) + i]) = ws[i].value
  BY DEF Extends
<1>4. Len(old) \in Nat /\ Len(ws) \in Nat
  BY RecordsProperties, ListsProperties DEF Pending
<1>5. \A i \in 1..Len(ws) : ws[i].value # Damaged
  BY PendingWrites, ValuesDiffer
<1>. HIDE DEF old, mid, new
<1>6. Len(old) + Len(ws) <= Len(new)
  BY <1>1, <1>3, <1>4
<1>7. ASSUME NEW i \in 1..Len(old)
      PROVE  /\ new[i].path = old[i].path
             /\ ContentOf(f, old[i]) # Damaged => ContentOf(h, new[i]) = ContentOf(f, old[i])
  <2>1. i \in 1..Len(mid)
    BY <1>1, <1>3, <1>4
  <2>. QED
    BY <1>1, <1>2, <1>3, <2>1
<1>8. ASSUME NEW i \in 1..Len(ws)
      PROVE  /\ new[Len(old) + i].path = ws[i].path
             /\ ContentOf(h, new[Len(old) + i]) = ws[i].value
  <2>1. Len(old) + i \in 1..Len(mid)
    BY <1>1, <1>3, <1>4
  <2>. QED
    BY <1>1, <1>2, <1>3, <1>5, <2>1
<1>. QED
  BY <1>6, <1>7, <1>8 DEF Extends, old, new

\* One write more.
LEMMA OneWriteMore ==
    ASSUME NoMinus, NEW f \in Seq(Cell), NEW g \in Seq(Cell), NEW ws \in Pending, Extends(f, g, ws),
           NEW p \in Path, NEW c \in Content, NEW i, i = Len(Records(f)) + Len(ws) + 1,
           i <= Len(Records(g)), Records(g)[i].path = p, ContentOf(g, Records(g)[i]) = c
    PROVE  LET more == Append(ws, [path |-> p, value |-> c])
           IN  more \in Pending /\ Len(more) = Len(ws) + 1 /\ Extends(f, g, more)
<1>. DEFINE w == [path |-> p, value |-> c]
            more == Append(ws, w)
            n == Len(ws)
            m == Len(Records(f))
            new == Records(g)
<1>1. n \in Nat /\ m \in Nat /\ Len(new) \in Nat
  BY RecordsProperties, ListsProperties DEF Pending
<1>2. w \in [path : Path, value : Content] /\ w.path = p /\ w.value = c
  OBVIOUS
<1>. HIDE DEF w
<1>3. /\ more \in Pending /\ Len(more) = n + 1 /\ more[n + 1] = w
      /\ \A j \in 1..n : more[j] = ws[j]
  BY <1>2 DEF Pending
<1>4. /\ m + n <= Len(new)
      /\ \A j \in 1..n :
           new[m + j].path = ws[j].path /\ ContentOf(g, new[m + j]) = ws[j].value
  BY DEF Extends
<1>5. i = m + n + 1 /\ i <= Len(new) /\ new[i].path = p /\ ContentOf(g, new[i]) = c
  OBVIOUS
<1>. HIDE DEF more, n, m, new
<1>6. m + Len(more) <= Len(new)
  BY <1>1, <1>3, <1>5
<1>7. ASSUME NEW j \in 1..Len(more)
      PROVE  new[m + j].path = more[j].path /\ ContentOf(g, new[m + j]) = more[j].value
  <2>1. CASE j = n + 1
    <3>1. m + j = i
      BY <1>1, <1>5, <2>1
    <3>. QED
      BY <1>2, <1>3, <1>5, <2>1, <3>1
  <2>2. CASE j # n + 1
    <3>1. j \in 1..n
      BY <1>1, <1>3, <2>2
    <3>. QED
      BY <1>3, <1>4, <3>1
  <2>. QED
    BY <2>1, <2>2
<1>8. Extends(f, g, more)
  BY <1>6, <1>7 DEF Extends, m, new
<1>. QED
  BY <1>3, <1>8 DEF more, w, n

\* The writes in the buffer, read from the flushed file.
LEMMA UnwrittenIs ==
    ASSUME NoMinus, IInv, FileInv, PendingWhole, pc = "open"
    PROVE  LET kept == Len(Records(disk))
               all  == Records(Flushed)
           IN  /\ kept \in Nat /\ Len(all) \in Nat /\ Len(Unwritten) \in Nat
               /\ kept + Len(Unwritten) = Len(all)
               /\ Unwritten \in Pending
               /\ \A i \in 1..Len(Unwritten) :
                    /\ all[kept + i].path \in Path \ TooLong
                    /\ all[kept + i].path = Unwritten[i].path
                    /\ ContentOf(Flushed, all[kept + i]) = Unwritten[i].value
               /\ Extends(disk, Flushed, Unwritten)
               /\ buf = <<>> => Unwritten = <<>>
<1>. DEFINE kept == Len(Records(disk))
            all == Records(Flushed)
            n == Len(all) - kept
<1>1. /\ disk \in Seq(Cell) /\ Flushed \in Seq(Cell) /\ Len(Flushed) >= Len(disk)
      /\ SameBefore(disk, Flushed, EndOfAll(Records(disk)))
      /\ fail \/ buf = <<>> => Flushed = disk /\ buf = <<>>
  BY OpenKnows
<1>2. /\ kept \in Nat /\ Len(all) \in Nat /\ kept <= Len(all)
      /\ \A i \in 1..kept : all[i] = Records(disk)[i]
  BY <1>1, OldRecordsFirst
<1>3. buf = <<>> => n = 0
  BY <1>1, <1>2
<1>4. \A i \in 1..kept : ContentOf(disk, Records(disk)[i]) # Damaged =>
                           ContentOf(Flushed, Records(disk)[i]) = ContentOf(disk, Records(disk)[i])
  BY <1>1, ContentsKept
<1>5. ASSUME NEW i \in 1..n
      PROVE  all[kept + i].path \in Path \ TooLong /\ ContentOf(Flushed, all[kept + i]) \in Content
  <2>1. buf # <<>>
    BY <1>3, <1>5
  <2>2. pc = "open" /\ ~fail
    BY <2>1 DEF IInv, BufferAtEnd
  <2>. HIDE DEF all, kept
  <2>3. kept + i \in 1..Len(all) /\ kept + i > kept
    BY <1>2, <1>5
  <2>. QED
    BY <2>2, <2>3 DEF PendingWhole, all, kept
<1>6. Unwritten = IF buf = <<>> THEN <<>>
                  ELSE [i \in 1..n |-> [path |-> all[kept + i].path,
                                        value |-> ContentOf(Flushed, all[kept + i])]]
  BY DEF Unwritten
<1>7. n \in Nat
  BY <1>2
<1>. HIDE DEF n
<1>8. Unwritten \in [1..n -> [path : Path, value : Content]]
  <2>1. CASE buf = <<>>
    <3>1. 1..n = {} /\ Unwritten = <<>>
      BY <1>3, <1>6, <2>1
    <3>. QED
      BY <3>1
  <2>2. CASE buf # <<>>
    <3>. HIDE DEF all, kept
    <3>. QED
      BY <1>5, <1>6, <2>2
  <2>. QED
    BY <2>1, <2>2
<1>9. Unwritten \in Pending /\ Len(Unwritten) = n
  <2>. DEFINE S == [path : Path, value : Content]
  <2>1. Unwritten \in [1..n -> S]
    BY <1>8
  <2>. HIDE DEF S
  <2>2. Unwritten \in Seq(S)
    BY <1>7, <2>1, IsASeq
  <2>3. Len(Unwritten) = n
    BY <1>7, <2>1, <2>2, LenProperties
  <2>. QED
    BY <2>2, <2>3 DEF Pending, S
<1>10. ASSUME NEW i \in 1..n
       PROVE  Unwritten[i] = [path |-> all[kept + i].path,
                              value |-> ContentOf(Flushed, all[kept + i])]
  <2>1. buf # <<>>
    BY <1>3, <1>10
  <2>. QED
    BY <1>6, <2>1
<1>11. kept + n = Len(all)
  BY <1>2 DEF n
<1>. HIDE DEF kept, all
<1>12. ASSUME NEW i \in 1..n
       PROVE  /\ all[kept + i].path = Unwritten[i].path
              /\ ContentOf(Flushed, all[kept + i]) = Unwritten[i].value
  <2>. DEFINE x == all[kept + i].path
              y == ContentOf(Flushed, all[kept + i])
  <2>1. Unwritten[i] = [path |-> x, value |-> y]
    BY <1>10, <1>12
  <2>. HIDE DEF x, y
  <2>2. x = Unwritten[i].path /\ y = Unwritten[i].value
    BY <2>1
  <2>. QED
    BY <2>2 DEF x, y
<1>13. Extends(disk, Flushed, Unwritten)
  <2>1. kept + Len(Unwritten) <= Len(all)
    BY <1>2, <1>9, <1>11
  <2>2. \A i \in 1..kept :
          /\ all[i].path = Records(disk)[i].path
          /\ ContentOf(disk, Records(disk)[i]) # Damaged =>
               ContentOf(Flushed, all[i]) = ContentOf(disk, Records(disk)[i])
    BY <1>2, <1>4
  <2>3. \A i \in 1..Len(Unwritten) :
          /\ all[kept + i].path = Unwritten[i].path
          /\ ContentOf(Flushed, all[kept + i]) = Unwritten[i].value
    BY <1>9, <1>12
  <2>. QED
    BY <2>1, <2>2, <2>3 DEF Extends, all, kept
<1>14. buf = <<>> => Unwritten = <<>>
  BY <1>6
<1>. QED
  BY <1>2, <1>5, <1>7, <1>9, <1>11, <1>12, <1>13, <1>14 DEF kept, all

\* A buffer that is empty holds no record.
LEMMA NothingPending ==
    ASSUME buf = <<>>
    PROVE  Unwritten = <<>>
BY DEF Unwritten

\* The same buffer behind the same file holds the same records.
LEMMA SamePending ==
    ASSUME disk' = disk, buf' = buf, Flushed' = Flushed
    PROVE  Unwritten' = Unwritten
BY DEF Unwritten

\* A record the flushed file has, whole, stays one when the buffer is flushed.
LEMMA PendingFlushOrNot ==
    ASSUME NoMinus, IInv, FileInv, PendingWhole, pc = "open", pc' = "open", fail => fail',
           Flushed' = Flushed, (disk' = Flushed /\ buf' = <<>>) \/ (disk' = disk /\ buf' = buf)
    PROVE  PendingWhole'
<1>1. SUFFICES ASSUME ~fail', NEW i \in 1..Len(Records(Flushed)), i > Len(Records(disk'))
               PROVE  /\ Records(Flushed)[i].path \in Path \ TooLong
                      /\ ContentOf(Flushed, Records(Flushed)[i]) \in Content
  BY DEF PendingWhole
<1>2. ~fail
  BY <1>1
<1>3. CASE disk' = Flushed
  <2>1. Flushed \in Seq(Cell)
    BY OpenKnows
  <2>2. Len(Records(Flushed)) \in Nat
    BY <2>1, RecordsProperties, ListsProperties
  <2>3. Len(Records(disk')) = Len(Records(Flushed))
    BY <1>3
  <2>. QED
    BY <1>1, <2>2, <2>3
<1>4. CASE disk' = disk
  BY <1>1, <1>2, <1>4 DEF PendingWhole
<1>. QED
  BY <1>3, <1>4

-----------------------------------------------------------------------------
(* The abstract archive, step by step *)

\* The history variables are what they record, before and after a step.
Observed == found = FoundIn(disk) /\ unwritten = Unwritten
Watch    == found' = FoundIn(disk') /\ unwritten' = Unwritten'

\* What the map to Archive needs of a state.
ArchiveInv == FileInv /\ PendingWhole /\ Observed

\* A path with no record, in an empty file.
LEMMA FoundNothing ==
    ASSUME NoMinus
    PROVE  FoundIn(<<>>) = A!Empty
<1>1. <<>> \in Seq(Cell) /\ Records(<<>>) = <<>>
  BY EmptyFile
<1>2. Len(<<>>) = 0
  OBVIOUS
<1>3. ASSUME NEW p \in Path
      PROVE  FoundIn(<<>>)[p] = Missing
  <2>1. \A i \in 1..Len(Records(<<>>)) : Records(<<>>)[i].path # p
    BY <1>1, <1>2
  <2>. QED
    BY <1>1, <2>1, FoundByLast
<1>4. FoundIn(<<>>) \in [Path -> Content \cup {Missing, Damaged}]
  BY FoundType
<1>. QED
  BY <1>3, <1>4 DEF A!Empty

\* The whole buffer reaches the file, in its place.
LEMMA StoresAll ==
    ASSUME NoMinus, IInv, ArchiveInv, Watch, pc = "open", disk' \in Seq(Cell), Len(disk') >= Len(Flushed),
           SameBefore(Flushed, disk', EndOfAll(Records(Flushed))),
           Records(disk') = Records(Flushed), Unwritten' = <<>>
    PROVE  A!Store(Len(unwritten)) /\ A!Becomes(A!Apply(found, unwritten))
           /\ SubSeq(unwritten, 1, Len(unwritten)) = unwritten /\ Len(unwritten) \in Nat
<1>1. /\ Unwritten \in Pending /\ Extends(disk, Flushed, Unwritten)
      /\ Len(Records(disk)) + Len(Unwritten) = Len(Records(Flushed))
      /\ Len(Records(Flushed)) \in Nat
  BY UnwrittenIs DEF ArchiveInv
<1>2. disk \in Seq(Cell) /\ Flushed \in Seq(Cell)
  BY OpenKnows DEF ArchiveInv
<1>. DEFINE ws == Unwritten
<1>3. unwritten = ws /\ found = FoundIn(disk) /\ found' = FoundIn(disk') /\ unwritten' = <<>>
  BY DEF ArchiveInv, Observed, Watch
<1>. HIDE DEF ws
<1>4. ws \in Pending /\ Extends(disk, disk', ws)
  BY <1>1, <1>2, ExtendsFurther DEF ws
<1>5. \A i \in 1..Len(Records(disk')) : i > Len(Records(disk)) + Len(ws) =>
        Records(disk')[i].path \notin Path
  BY <1>1 DEF ws
<1>6. A!Becomes(A!Apply(FoundIn(disk), ws))
  BY <1>2, <1>3, <1>4, <1>5, FoundBecomes
<1>7. SubSeq(ws, 1, Len(ws)) = ws /\ SubSeq(ws, Len(ws) + 1, Len(ws)) = <<>> /\ Len(ws) \in Nat
  BY <1>4 DEF Pending
<1>. QED
  BY <1>3, <1>6, <1>7 DEF A!Store

\* The file and what is pending are as they were.
LEMMA StoresNothing ==
    ASSUME NoMinus, NEW ws \in Pending, disk \in Seq(Cell), found = FoundIn(disk), found' = FoundIn(disk'),
           disk' = disk
    PROVE  /\ A!Becomes(A!Apply(found, SubSeq(ws, 1, 0)))
           /\ SubSeq(ws, 1, Len(ws)) = ws /\ SubSeq(ws, 0 + 1, Len(ws)) = ws /\ Len(ws) \in Nat
<1>1. SubSeq(ws, 1, Len(ws)) = ws /\ SubSeq(ws, 1, 0) = <<>> /\ Len(ws) \in Nat /\ 0 + 1 = 1
  BY DEF Pending
<1>2. Extends(disk, disk, <<>>) /\ <<>> \in Pending /\ Len(<<>>) = 0
  BY NothingWritten
<1>3. Len(Records(disk)) \in Nat
  BY RecordsProperties, ListsProperties
<1>4. \A i \in 1..Len(Records(disk)) : i > Len(Records(disk)) + Len(<<>>) =>
        Records(disk)[i].path \notin Path
  BY <1>2, <1>3
<1>5. A!Becomes(A!Apply(FoundIn(disk), <<>>))
  BY <1>2, <1>4, FoundBecomes
<1>. QED
  BY <1>1, <1>5

\* An operation that flushes the buffer stores all that is pending, one that
\* leaves it stores nothing.
LEMMA FlushStores ==
    ASSUME NoMinus, IInv, ArchiveInv, Watch, pc = "open", Flushed' = Flushed,
           (disk' = Flushed /\ buf' = <<>>) \/ (disk' = disk /\ buf' = buf)
    PROVE  /\ \E k \in 0..Len(unwritten) : A!Store(k)
           /\ disk' = Flushed /\ buf' = <<>> => A!Store(Len(unwritten))
<1>1. CASE disk' = Flushed /\ buf' = <<>>
  <2>1. Unwritten' = <<>>
    BY <1>1 DEF Unwritten
  <2>2. disk' \in Seq(Cell) /\ Len(disk') \in Nat
    BY <1>1, OpenKnows DEF ArchiveInv
  <2>3. SameBefore(Flushed, disk', EndOfAll(Records(Flushed)))
        /\ Records(disk') = Records(Flushed) /\ Len(disk') >= Len(Flushed)
    BY <1>1, <2>2 DEF SameBefore
  <2>4. A!Store(Len(unwritten)) /\ Len(unwritten) \in Nat
    BY <2>1, <2>2, <2>3, StoresAll
  <2>5. Len(unwritten) \in 0..Len(unwritten)
    BY <2>4
  <2>. QED
    BY <2>4, <2>5
<1>2. CASE disk' = disk /\ buf' = buf /\ ~(disk' = Flushed /\ buf' = <<>>)
  <2>1. Unwritten' = Unwritten
    BY <1>2, SamePending
  <2>2. disk \in Seq(Cell) /\ Unwritten \in Pending
    BY OpenKnows, UnwrittenIs DEF ArchiveInv
  <2>3. unwritten = Unwritten /\ unwritten' = Unwritten /\ found = FoundIn(disk)
        /\ found' = FoundIn(disk')
    BY <2>1 DEF ArchiveInv, Observed, Watch
  <2>4. /\ A!Becomes(A!Apply(found, SubSeq(unwritten, 1, 0)))
        /\ SubSeq(unwritten, 0 + 1, Len(unwritten)) = unwritten /\ Len(unwritten) \in Nat
    BY <1>2, <2>2, <2>3, StoresNothing
  <2>5. A!Store(0) /\ 0 \in 0..Len(unwritten)
    BY <2>3, <2>4 DEF A!Store
  <2>. QED
    BY <1>2, <2>5
<1>. QED
  BY <1>1, <1>2

\* What a session sees of a path is what a flush would leave of it.
LEMMA VisibleIs ==
    ASSUME NoMinus, IInv, ArchiveInv, pc = "open", NEW p \in Path, A!Visible[p] # Damaged
    PROVE  A!Visible[p] = FoundIn(Flushed)[p]
<1>1. /\ Unwritten \in Pending /\ Extends(disk, Flushed, Unwritten)
      /\ Len(Records(disk)) + Len(Unwritten) = Len(Records(Flushed))
      /\ Len(Records(Flushed)) \in Nat
  BY UnwrittenIs DEF ArchiveInv
<1>2. disk \in Seq(Cell) /\ Flushed \in Seq(Cell)
  BY OpenKnows DEF ArchiveInv
<1>. DEFINE ws == Unwritten
            g  == Flushed
<1>3. A!Visible = A!Apply(FoundIn(disk), ws)
  BY DEF A!Visible, ArchiveInv, Observed
<1>. HIDE DEF ws, g
<1>4. ws \in Pending /\ Extends(disk, g, ws) /\ g \in Seq(Cell)
      /\ \A i \in 1..Len(Records(g)) : i > Len(Records(disk)) + Len(ws) => Records(g)[i].path # p
  BY <1>1, <1>2 DEF ws, g
<1>5. IF A!Apply(FoundIn(disk), ws)[p] = Damaged THEN FoundIn(g)[p] # Missing
      ELSE FoundIn(g)[p] = A!Apply(FoundIn(disk), ws)[p]
  BY <1>2, <1>4, FoundAfter
<1>. QED
  BY <1>3, <1>5 DEF g

\* The initial states are the abstract archive's.
LEMMA ArchiveInit ==
    ASSUME NoMinus
    PROVE  ObservedInit => ArchiveInv /\ A!Init
<1>. SUFFICES ASSUME ObservedInit PROVE ArchiveInv /\ A!Init
  OBVIOUS
<1>1. Init /\ found = FoundIn(disk) /\ unwritten = Unwritten
  BY DEF ObservedInit
<1>2. pc = "closed" /\ buf = <<>> /\ reply = NoReply
  BY <1>1 DEF Init
<1>3. unwritten = <<>>
  BY <1>1, <1>2, NothingPending
<1>4. FileInv /\ PendingWhole
  BY <1>1, <1>2, InitFile DEF PendingWhole
<1>5. found \in [Path -> Content \cup {Missing, Damaged}]
  BY <1>1, FoundType
<1>. QED
  BY <1>1, <1>2, <1>3, <1>4, <1>5 DEF ArchiveInv, Observed, A!Init

\* Opening.
LEMMA OpenMaps ==
    ASSUME NoMinus, IInv, ArchiveInv, Watch, NEW mode \in {"Read", "Write", "Append"}, Open(mode)
    PROVE  PendingWhole' /\ A!Open(mode)
<1>1. /\ pc = "closed" /\ pc' = "scanning" /\ m_mode' = mode /\ reply' = NoReply
      /\ disk' = (IF mode = "Write" THEN <<>> ELSE disk) /\ buf' = buf
  BY DEF Open, stream
<1>2. buf = <<>>
  BY <1>1 DEF IInv, SessionShape
<1>3. unwritten = <<>> /\ unwritten' = <<>>
  BY <1>1, <1>2 DEF ArchiveInv, Observed, Watch, Unwritten
<1>4. found' = IF mode = "Write" THEN A!Empty ELSE found
  BY <1>1, FoundNothing DEF ArchiveInv, Observed, Watch
<1>5. PendingWhole'
  BY <1>1 DEF PendingWhole
<1>. QED
  BY <1>1, <1>3, <1>4, <1>5 DEF A!Open

\* The scan of the constructor changes nothing a caller sees.
LEMMA ScanMaps ==
    ASSUME NoMinus, IInv, ArchiveInv, Watch, ScanRecord \/ ScanSkip \/ ScanDone
    PROVE  PendingWhole' /\ UNCHANGED A!vars
<1>1. /\ pc = "scanning" /\ pc' \in {"scanning", "open"} /\ (pc' = "open" => ~fail')
      /\ m_mode' = m_mode /\ reply' = reply /\ disk' = disk /\ buf' = buf
  BY ScanDoneGives DEF ScanRecord, ScanSkip, file
<1>2. buf = <<>>
  BY <1>1 DEF IInv, SessionShape
<1>3. unwritten = <<>> /\ unwritten' = <<>> /\ found' = found
  BY <1>1, <1>2 DEF ArchiveInv, Observed, Watch, Unwritten
<1>4. PendingWhole'
  <2>1. Flushed' = disk'
    BY <1>1, <1>2 DEF Flushed, Overlay
  <2>2. disk' \in Seq(Cell)
    BY <1>1 DEF IInv, Typed
  <2>3. Len(Records(disk')) \in Nat
    BY <2>2, RecordsProperties, ListsProperties
  <2>. QED
    BY <2>1, <2>3 DEF PendingWhole
<1>. QED
  BY <1>1, <1>3, <1>4 DEF A!vars

\* A constructor that throws is an archive closed.
LEMMA ScanThrowMaps ==
    ASSUME NoMinus, IInv, ArchiveInv, Watch, ScanThrow
    PROVE  PendingWhole' /\ A!Close
<1>1. pc = "scanning" /\ pc' = "closed" /\ buf' = <<>> /\ reply' = NoReply /\ disk' = disk
  BY DEF ScanThrow, Forget, file
<1>2. buf = <<>> /\ m_mode \in {"Read", "Write", "Append"} /\ disk \in Seq(Cell)
  BY <1>1 DEF IInv, SessionShape, Typed
<1>3. unwritten = <<>> /\ unwritten' = <<>>
  BY <1>1, <1>2 DEF ArchiveInv, Observed, Watch, Unwritten
<1>4. found = FoundIn(disk) /\ found' = FoundIn(disk')
  BY DEF ArchiveInv, Observed, Watch
<1>5. <<>> \in Pending
  BY DEF Pending
<1>6. A!Becomes(A!Apply(found, SubSeq(<<>>, 1, 0)))
  BY <1>1, <1>2, <1>4, <1>5, StoresNothing
<1>7. A!Store(Len(unwritten))
  <2>1. Len(unwritten) = 0 /\ SubSeq(unwritten, 0 + 1, 0) = <<>>
    BY <1>3
  <2>. QED
    BY <1>3, <1>6, <2>1 DEF A!Store
<1>8. PendingWhole'
  BY <1>1 DEF PendingWhole
<1>. QED
  BY <1>1, <1>2, <1>7, <1>8 DEF A!Close

\* What a read finds of a path of the index, and of one it does not have.
LEMMA ReadFinds ==
    ASSUME NoMinus, IInv, FileInv, pc = "open", ~fail, NEW p \in Path
    PROVE  /\ p \in DOMAIN m_fileOffsets =>
                FoundIn(Flushed)[p] =
                  ContentOf(Flushed, [start |-> m_fileOffsets[p], size |-> m_fileSizes[p]])
           /\ p \notin DOMAIN m_fileOffsets => FoundIn(Flushed)[p] = Missing
<1>1. ReopenReadsBack
  BY AgreesReadsBack
<1>2. p \in DOMAIN m_fileOffsets =>
        FoundIn(Flushed)[p] =
          ContentOf(Flushed, [start |-> m_fileOffsets[p], size |-> m_fileSizes[p]])
  BY <1>1 DEF ReopenReadsBack
<1>3. ASSUME p \notin DOMAIN m_fileOffsets
      PROVE  FoundIn(Flushed)[p] = Missing
  <2>. DEFINE rs == Records(Flushed)
  <2>1. Flushed \in Seq(Cell) /\ m_fileNames = [i \in 1..Len(rs) |-> rs[i].path]
    BY OpenKnows DEF IndexIs, Indexes
  <2>2. DOMAIN m_fileOffsets = {m_fileNames[i] : i \in DOMAIN m_fileNames}
    BY DEF IInv, ExtentsInside
  <2>. HIDE DEF rs
  <2>3. \A i \in 1..Len(rs) : rs[i].path # p
    BY <1>3, <2>1, <2>2
  <2>. QED
    BY <2>1, <2>3, FoundByLast DEF rs
<1>. QED
  BY <1>2, <1>3

\* A read of contents that are all in the file answers with them.
LEMMA ReadAnswers ==
    ASSUME NoMinus, IInv, FileInv, NEW p \in Path, Read(p), ~fail, FoundIn(Flushed)[p] \in Content
    PROVE  reply' = FoundIn(Flushed)[p] /\ fail' = FALSE
<1>. DEFINE s == m_fileOffsets[p]
            z == m_fileSizes[p]
            c == SubSeq(Flushed, s + 1, s + z)
            r == [start |-> s, size |-> z]
<1>1. /\ pc = "open" /\ p \in DOMAIN m_fileOffsets
      /\ fail' = (fail \/ (z > 0 /\ Len(Flushed) < s + z))
  BY DEF Read
<1>2. s \in Nat /\ z \in Nat /\ ~(z < 0)
  BY <1>1 DEF IInv, Typed, ExtentsInside, PartialMap
<1>15. reply' = [i \in 1..z |-> IF fail \/ Len(Flushed) < s + i THEN Uninit ELSE Flushed[s + i]]
  BY <1>2 DEF Read
<1>3. Flushed \in Seq(Cell)
  BY <1>1, OpenKnows
<1>4. FoundIn(Flushed)[p] = ContentOf(Flushed, r)
  BY <1>1, ReadFinds
<1>5. r.start = s /\ r.size = z
  OBVIOUS
<1>. HIDE DEF s, z
<1>6. ContentOf(Flushed, r) # Damaged
  BY <1>4, ValuesDiffer
<1>7. ~(s + z > Len(Flushed)) /\ ContentOf(Flushed, r) = c
  BY <1>2, <1>5, <1>6 DEF ContentOf
<1>. DEFINE n == Len(Flushed)
<1>8. n \in Nat /\ s + z <= n
  BY <1>2, <1>3, <1>7
<1>9. c \in Seq(Cell) /\ Len(c) = z /\ \A i \in 1..z : c[i] = CellAt(Flushed, s + i - 1)
  BY <1>2, <1>3, <1>8, PartOfFile
<1>. HIDE DEF c, n, r
<1>10. ASSUME NEW i \in 1..z
       PROVE  c[i] = Flushed[s + i] /\ ~(n < s + i)
  <2>1. s + i - 1 \in Nat /\ s + i - 1 < n /\ (s + i - 1) + 1 = s + i
    BY <1>2, <1>8
  <2>2. CellAt(Flushed, s + i - 1) = Flushed[(s + i - 1) + 1]
    BY <2>1 DEF CellAt, n
  <2>3. ~(n < s + i)
    BY <1>2, <1>8, <2>1
  <2>. QED
    BY <1>9, <2>1, <2>2, <2>3
<1>11. c = [i \in 1..z |-> c[i]]
  BY <1>9
<1>12. \A i \in 1..z : (IF fail \/ n < s + i THEN Uninit ELSE Flushed[s + i]) = c[i]
  BY <1>10
<1>13. reply' = c
  BY <1>15, <1>11, <1>12 DEF n
<1>14. fail' = FALSE
  <2>1. ~(n < s + z)
    BY <1>2, <1>8
  <2>2. ~(fail \/ (z > 0 /\ n < s + z))
    BY <2>1
  <2>. QED
    BY <1>1, <2>2, Zenon DEF n
<1>. QED
  BY <1>4, <1>7, <1>13, <1>14

\* A read.
LEMMA ReadMaps ==
    ASSUME NoMinus, IInv, IInv', ArchiveInv, Watch, NEW p \in Path, Read(p)
    PROVE  PendingWhole' /\ A!Read(p)
<1>1. /\ pc = "open" /\ pc' = "open" /\ m_mode' = m_mode /\ disk' = Flushed /\ buf' = <<>>
      /\ p \in DOMAIN m_fileOffsets /\ (fail => fail') /\ UNCHANGED <<index, m_maxPosition>>
  BY DEF Read
<1>2. FileInv /\ PendingWhole
  BY DEF ArchiveInv
<1>3. Flushed' = Flushed
  BY <1>1, <1>2, FlushOrNot
<1>4. \E k \in 0..Len(unwritten) : A!Store(k)
  BY <1>1, <1>3, FlushStores
<1>5. PendingWhole'
  BY <1>1, <1>2, <1>3, PendingFlushOrNot
<1>6. m_mode \in {"Read", "Write", "Append"} /\ fail \in BOOLEAN /\ fail' \in BOOLEAN
  BY DEF IInv, Typed
<1>. DEFINE answer == IF reply' \in Content \cup {NoReply, Synced, Missing} THEN reply' ELSE Damaged
<1>7. answer \in Content \cup {Missing, Damaged}
  <2>1. reply' \in Seq(Cell \cup {Uninit})
    <3>2. m_fileSizes[p] \in Nat /\ m_fileOffsets[p] \in Nat /\ ~(m_fileSizes[p] < 0)
      BY <1>1 DEF IInv, Typed, ExtentsInside, PartialMap
    <3>1. reply' = [i \in 1..m_fileSizes[p] |->
                      IF fail \/ Len(Flushed) < m_fileOffsets[p] + i THEN Uninit
                      ELSE Flushed[m_fileOffsets[p] + i]]
      BY <3>2 DEF Read
    <3>3. Flushed \in Seq(Cell)
      BY <1>1, <1>2, OpenKnows
    <3>. DEFINE z == m_fileSizes[p]
                o == m_fileOffsets[p]
                n == Len(Flushed)
    <3>4. n \in Nat
      BY <3>3
    <3>5. ASSUME NEW i \in 1..z, ~(n < o + i)
          PROVE  Flushed[o + i] \in Cell
      <4>. HIDE DEF z, o
      <4>1. z \in Nat /\ o \in Nat
        BY <3>2 DEF z, o
      <4>2. o + i \in 1..n
        <5>. HIDE DEF n
        <5>. QED
          BY <3>4, <3>5, <4>1
      <4>. QED
        BY <3>3, <4>2, ElementOfSeq
    <3>. HIDE DEF n, o, z
    <3>6. reply' = [i \in 1..z |-> IF fail \/ n < o + i THEN Uninit ELSE Flushed[o + i]]
      BY <3>1 DEF n, o, z
    <3>7. reply' \in [1..z -> Cell \cup {Uninit}]
      BY <3>5, <3>6
    <3>. QED
      BY <3>2, <3>7, IsASeq DEF z
  <2>2. reply' # NoReply /\ reply' # Synced /\ reply' # Missing
    BY <2>1, TarAssumption
  <2>. QED
    BY <2>2
<1>8. IF fail \/ A!Visible[p] = Damaged
      THEN answer \in Content \cup {Missing, Damaged} /\ fail' \in {fail, TRUE}
      ELSE answer = A!Visible[p] /\ fail' = fail
  <2>1. CASE fail \/ A!Visible[p] = Damaged
    BY <1>1, <1>6, <1>7, <2>1
  <2>2. CASE ~fail /\ A!Visible[p] # Damaged
    <3>1. A!Visible[p] = FoundIn(Flushed)[p]
      BY <1>1, <2>2, VisibleIs
    <3>2. FoundIn(Flushed)[p] \in Content \cup {Damaged}
      BY <1>1, <1>2, <2>2, ReadFinds, ContentType
    <3>3. FoundIn(Flushed)[p] \in Content
      BY <2>2, <3>1, <3>2
    <3>4. reply' = FoundIn(Flushed)[p] /\ fail' = FALSE
      BY <1>2, <2>2, <3>3, ReadAnswers
    <3>. QED
      BY <1>6, <2>2, <3>1, <3>3, <3>4
  <2>. QED
    BY <2>1, <2>2
<1>. HIDE DEF answer
<1>9. (pc = "open" /\ fail) = fail /\ (pc' = "open" /\ fail') = fail'
  BY <1>1, <1>6
<1>. QED
  BY <1>1, <1>4, <1>5, <1>6, <1>8, <1>9 DEF A!Read, answer

\* A read of a path the index does not have.
LEMMA ReadMissingMaps ==
    ASSUME NoMinus, IInv, ArchiveInv, Watch, NEW p \in Path, ReadMissing(p)
    PROVE  PendingWhole' /\ A!Read(p)
<1>1. /\ pc = "open" /\ pc' = "open" /\ m_mode' = m_mode /\ disk' = disk /\ buf' = buf
      /\ pos' = pos /\ fail' = fail
      /\ p \notin DOMAIN m_fileOffsets /\ UNCHANGED <<index, m_maxPosition>> /\ reply' = Missing
  BY DEF ReadMissing, file, stream
<1>2. FileInv /\ PendingWhole
  BY DEF ArchiveInv
<1>3. Flushed' = Flushed
  BY <1>1, <1>2, FlushOrNot
<1>4. \E k \in 0..Len(unwritten) : A!Store(k)
  BY <1>1, <1>3, FlushStores
<1>5. PendingWhole'
  BY <1>1, <1>2, <1>3, PendingFlushOrNot
<1>6. m_mode \in {"Read", "Write", "Append"}
  BY DEF IInv, Typed
<1>. DEFINE answer == IF reply' \in Content \cup {NoReply, Synced, Missing} THEN reply' ELSE Damaged
<1>7. answer = Missing
  BY <1>1
<1>8. ~fail /\ A!Visible[p] # Damaged => A!Visible[p] = Missing
  BY <1>1, <1>2, VisibleIs, ReadFinds
<1>. HIDE DEF answer
<1>9. answer \in Content \cup {Missing, Damaged}
  BY <1>7
<1>10. (pc = "open" /\ fail) = (pc' = "open" /\ fail') /\ ((pc = "open" /\ fail) <=> fail)
  BY <1>1
<1>. QED
  BY <1>1, <1>4, <1>5, <1>6, <1>7, <1>8, <1>9, <1>10 DEF A!Read, answer

\* A write that is refused, for its path or for the mode.
LEMMA RefusedMaps ==
    ASSUME NoMinus, IInv, ArchiveInv, Watch,
           WriteReadOnly \/ \E p \in Path : WriteTooLong(p)
    PROVE  PendingWhole' /\ A!WriteRefused
<1>1. /\ pc = "open" /\ pc' = "open" /\ m_mode' = m_mode /\ fail' = fail
      /\ UNCHANGED <<index, m_maxPosition>> /\ reply' = NoReply
      /\ \/ disk' = Flushed /\ buf' = <<>>
         \/ disk' = disk /\ buf' = buf /\ pos' = pos
  <2>1. CASE WriteReadOnly
    BY <2>1 DEF WriteReadOnly, file, stream
  <2>2. CASE \E p \in Path : WriteTooLong(p)
    <3>1. PICK p \in Path : WriteTooLong(p)
      BY <2>2
    <3>2. /\ disk' = SoughtFile /\ buf' = UnwrittenBuffer /\ pos' = WritePosition
      BY <3>1 DEF WriteTooLong
    <3>3. \/ disk' = Flushed /\ buf' = <<>>
          \/ disk' = disk /\ buf' = buf /\ pos' = pos
      BY <3>2 DEF SoughtFile, UnwrittenBuffer, WritePosition
    <3>. QED
      BY <3>1, <3>3 DEF WriteTooLong
  <2>. QED
    BY <2>1, <2>2
<1>2. FileInv /\ PendingWhole
  BY DEF ArchiveInv
<1>3. Flushed' = Flushed /\ ((disk' = Flushed /\ buf' = <<>>) \/ (disk' = disk /\ buf' = buf))
  BY <1>1, <1>2, FlushOrNot
<1>4. \E k \in 0..Len(unwritten) : A!Store(k)
  BY <1>1, <1>3, FlushStores
<1>5. PendingWhole'
  BY <1>1, <1>2, <1>3, PendingFlushOrNot
<1>6. m_mode \in {"Read", "Write", "Append"}
  BY DEF IInv, Typed
<1>. QED
  BY <1>1, <1>4, <1>5, <1>6 DEF A!WriteRefused

\* endBulkWrites stores all that is pending.
LEMMA EndBulkWritesMaps ==
    ASSUME NoMinus, IInv, ArchiveInv, Watch, EndBulkWrites
    PROVE  PendingWhole' /\ A!EndBulkWrites
<1>1. /\ pc = "open" /\ pc' = "open" /\ m_mode' = m_mode /\ fail' = fail
      /\ UNCHANGED <<index, m_maxPosition>> /\ reply' = Synced
      /\ disk' = Flushed /\ buf' = <<>>
  BY DEF EndBulkWrites
<1>2. FileInv /\ PendingWhole
  BY DEF ArchiveInv
<1>3. Flushed' = Flushed
  BY <1>1, <1>2, FlushOrNot
<1>4. A!Store(Len(unwritten))
  BY <1>1, <1>3, FlushStores
<1>5. PendingWhole'
  BY <1>1, <1>2, <1>3, PendingFlushOrNot
<1>6. m_mode \in {"Read", "Write", "Append"}
  BY DEF IInv, Typed
<1>. QED
  BY <1>1, <1>4, <1>5, <1>6 DEF A!EndBulkWrites

\* close stores all that is pending.
LEMMA CloseMaps ==
    ASSUME NoMinus, NoHeaderBehind, IInv, ArchiveInv, Watch, Close
    PROVE  PendingWhole' /\ A!Close
<1>1. pc = "open" /\ pc' = "closed" /\ buf' = <<>> /\ reply' = NoReply
  BY DEF Close, Forget
<1>2. FileInv
  BY DEF ArchiveInv
<1>3. /\ disk' \in Seq(Cell) /\ Len(disk') >= Len(Flushed)
      /\ SameBefore(Flushed, disk', EndOfAll(Records(Flushed)))
      /\ Records(disk') = Records(Flushed)
  BY <1>2, CloseFile
<1>4. Unwritten' = <<>>
  BY <1>1 DEF Unwritten
<1>5. A!Store(Len(unwritten))
  BY <1>1, <1>3, <1>4, StoresAll
<1>6. m_mode \in {"Read", "Write", "Append"}
  BY DEF IInv, Typed
<1>7. PendingWhole'
  BY <1>1 DEF PendingWhole
<1>. QED
  BY <1>1, <1>5, <1>6, <1>7 DEF A!Close

\* A process that dies inside close has stored all that was pending.
LEMMA CrashInCloseMaps ==
    ASSUME NoMinus, NoHeaderBehind, IInv, ArchiveInv, Watch, CrashInClose
    PROVE  PendingWhole' /\ A!Die
<1>1. pc = "open" /\ pc' = "closed" /\ buf' = <<>> /\ reply' = NoReply
  BY DEF CrashInClose, Forget
<1>2. FileInv
  BY DEF ArchiveInv
<1>3. /\ disk' \in Seq(Cell) /\ Len(disk') >= Len(Flushed)
      /\ SameBefore(Flushed, disk', EndOfAll(Records(Flushed)))
      /\ Records(disk') = Records(Flushed)
  BY <1>2, CloseFile
<1>4. Unwritten' = <<>>
  BY <1>1 DEF Unwritten
<1>5. /\ A!Becomes(A!Apply(found, unwritten))
      /\ SubSeq(unwritten, 1, Len(unwritten)) = unwritten /\ Len(unwritten) \in Nat
  BY <1>1, <1>3, <1>4, StoresAll
<1>6. m_mode \in {"Read", "Write", "Append"} /\ unwritten' = <<>>
  BY <1>4 DEF IInv, Typed, Watch
<1>7. PendingWhole'
  BY <1>1 DEF PendingWhole
<1>8. \E k \in 0..Len(unwritten) : A!Becomes(A!Apply(found, SubSeq(unwritten, 1, k)))
  <2>1. Len(unwritten) \in 0..Len(unwritten)
    BY <1>5
  <2>. QED
    BY <1>5, <2>1
<1>. QED
  BY <1>1, <1>6, <1>7, <1>8 DEF A!Die

\* A write to a stream that failed is lost.
LEMMA WriteFailedMaps ==
    ASSUME ArchiveInv, IInv, Watch, NEW p \in Path, NEW c \in Content, NEW immediate \in BOOLEAN,
           WritePtr(p, c, immediate), fail
    PROVE  PendingWhole' /\ A!WritePtr(p, c, immediate)
<1>1. /\ pc = "open" /\ pc' = "open" /\ m_mode' = m_mode /\ m_mode # "Read"
      /\ reply' = IF immediate THEN Synced ELSE NoReply
  BY DEF WritePtr
<1>2. disk' = disk /\ buf' = buf /\ fail' = fail /\ Flushed' = Flushed
  BY WriteFailedFile DEF ArchiveInv
<1>3. unwritten' = unwritten /\ found' = found
  BY <1>2, SamePending DEF ArchiveInv, Observed, Watch
<1>4. PendingWhole'
  BY <1>2 DEF PendingWhole
<1>5. m_mode \in {"Write", "Append"}
  BY <1>1 DEF IInv, Typed
<1>. QED
  BY <1>1, <1>2, <1>3, <1>4, <1>5 DEF A!WritePtr

\* The records behind those of f, when they are the writes ws and no more.
LEMMA WritesAre ==
    ASSUME NoMinus, NEW f \in Seq(Cell), NEW g \in Seq(Cell), NEW ws \in Pending, Extends(f, g, ws),
           Len(Records(f)) + Len(ws) = Len(Records(g))
    PROVE  [i \in 1..(Len(Records(g)) - Len(Records(f))) |->
              [path |-> Records(g)[Len(Records(f)) + i].path,
               value |-> ContentOf(g, Records(g)[Len(Records(f)) + i])]] = ws
<1>. DEFINE m == Len(Records(f))
            new == Records(g)
<1>1. m \in Nat /\ Len(new) \in Nat /\ Len(ws) \in Nat
  BY RecordsProperties, ListsProperties DEF Pending
<1>2. \A i \in 1..Len(ws) :
        new[m + i].path = ws[i].path /\ ContentOf(g, new[m + i]) = ws[i].value
  BY DEF Extends
<1>3. m + Len(ws) = Len(new)
  OBVIOUS
<1>. HIDE DEF m, new
<1>4. Len(new) - m = Len(ws)
  BY <1>1, <1>3
<1>5. \A i \in 1..Len(ws) : ws[i] = [path |-> ws[i].path, value |-> ws[i].value]
  <2>. DEFINE S == [path : Path, value : Content]
  <2>1. ws \in Seq(S)
    BY DEF Pending
  <2>2. SUFFICES ASSUME NEW i \in 1..Len(ws)
                 PROVE  ws[i] = [path |-> ws[i].path, value |-> ws[i].value]
    OBVIOUS
  <2>. HIDE DEF S
  <2>3. ws[i] \in S
    BY <2>1, ElementOfSeq
  <2>. QED
    BY <2>3 DEF S
<1>6. ws = [i \in 1..Len(ws) |-> ws[i]]
  <2>. DEFINE S == [path : Path, value : Content]
  <2>1. ws \in Seq(S)
    BY DEF Pending
  <2>. HIDE DEF S
  <2>. QED
    BY <2>1
<1>7. \A i \in 1..Len(ws) :
        [path |-> new[m + i].path, value |-> ContentOf(g, new[m + i])] = ws[i]
  BY <1>2, <1>5
<1>. QED
  BY <1>4, <1>6, <1>7 DEF m, new

\* A write adds one pending write, or stores it with all the others.
LEMMA WriteMaps ==
    ASSUME NoMinus, NoHeaderBehind, Fits, IInv, ArchiveInv, Watch,
           NEW p \in Path, NEW c \in Content, NEW immediate \in BOOLEAN,
           WritePtr(p, c, immediate), ~fail
    PROVE  PendingWhole' /\ A!WritePtr(p, c, immediate)
<1>. DEFINE cells == RecordCells(p, c)
            r == [path |-> p, start |-> m_maxPosition + 3, size |-> Len(c)]
            all == Records(Flushed)
            m == Len(Records(disk))
            ws == Unwritten
            w == [path |-> p, value |-> c]
            more == Append(ws, w)
<1>1. FileInv /\ PendingWhole /\ found = FoundIn(disk) /\ unwritten = ws
      /\ found' = FoundIn(disk') /\ unwritten' = Unwritten'
  BY DEF ArchiveInv, Observed, Watch
<1>2. /\ p \in Path \ TooLong /\ pc = "open" /\ pc' = "open" /\ fail' = FALSE
      /\ Flushed' \in Seq(Cell)
      /\ disk' = (IF immediate THEN Flushed' ELSE disk)
      /\ buf' = (IF immediate THEN <<>> ELSE buf \o cells)
      /\ SameBefore(Flushed, Flushed', m_maxPosition)
      /\ Len(Flushed') >= Len(Flushed)
  BY WriteGives
<1>3. /\ Records(Flushed') = Append(all, r) /\ ContentOf(Flushed', r) = c
  BY <1>1, WritePtrFile
<1>4. /\ disk \in Seq(Cell) /\ Flushed \in Seq(Cell) /\ EndOfAll(all) = m_maxPosition
  BY <1>1, <1>2, OpenKnows
<1>5. /\ m \in Nat /\ Len(all) \in Nat /\ m + Len(ws) = Len(all) /\ ws \in Pending
      /\ Extends(disk, Flushed, ws)
  BY <1>1, <1>2, UnwrittenIs
<1>6. m_mode' = m_mode /\ m_mode # "Read" /\ reply' = IF immediate THEN Synced ELSE NoReply
  BY DEF WritePtr
<1>7. m_mode \in {"Write", "Append"}
  BY <1>6 DEF IInv, Typed
<1>8. buf \o cells # <<>>
  <2>1. buf \in Seq(Cell) /\ cells \in Seq(Cell) /\ Len(cells) \in Nat /\ Len(cells) > 0
    BY RecordCellsProperties DEF IInv, Typed
  <2>. HIDE DEF cells
  <2>2. Len(buf \o cells) = Len(buf) + Len(cells) /\ Len(buf) \in Nat
    BY <2>1
  <2>3. Len(<<>>) = 0
    OBVIOUS
  <2>. QED
    BY <2>1, <2>2, <2>3
<1>. DEFINE h == Flushed'
<1>9. all \in Seq(FileRecord) /\ r.path = p
  BY <1>4, RecordsProperties, ListsProperties
<1>. HIDE DEF cells, r, h, ws
<1>10. /\ Len(Records(h)) = Len(all) + 1 /\ Records(h)[Len(all) + 1] = r
       /\ \A i \in 1..Len(all) : Records(h)[i] = all[i]
  <2>1. Records(h) = Append(all, r)
    BY <1>3 DEF h
  <2>. HIDE DEF all
  <2>. QED
    BY <1>9, <2>1
<1>11. h \in Seq(Cell) /\ SameBefore(Flushed, h, EndOfAll(Records(Flushed)))
       /\ Len(h) >= Len(Flushed)
  BY <1>2, <1>4 DEF h
<1>12. Extends(disk, h, ws)
  BY <1>4, <1>5, <1>11, ExtendsFurther
<1>13. more \in Pending /\ Len(more) = Len(ws) + 1 /\ Extends(disk, h, more)
  <2>. DEFINE i == m + Len(ws) + 1
  <2>1. i <= Len(Records(h)) /\ Records(h)[i].path = p /\ ContentOf(h, Records(h)[i]) = c
    BY <1>3, <1>5, <1>9, <1>10 DEF h
  <2>2. i = Len(Records(disk)) + Len(ws) + 1
    OBVIOUS
  <2>. HIDE DEF i, m, all
  <2>3. disk \in Seq(Cell) /\ h \in Seq(Cell) /\ ws \in Pending /\ Extends(disk, h, ws)
    BY <1>4, <1>5, <1>11, <1>12
  <2>. QED
    BY <2>1, <2>2, <2>3, OneWriteMore, SMTT(30)
<1>14. m + Len(more) = Len(Records(h)) /\ Len(ws) \in Nat
  <2>1. Len(ws) \in Nat
    BY <1>5 DEF Pending
  <2>. HIDE DEF all, m, more
  <2>. QED
    BY <1>5, <1>10, <1>13, <2>1
<1>. HIDE DEF m, more
<1>15. SubSeq(more, 1, Len(more)) = more /\ SubSeq(more, Len(more) + 1, Len(more)) = <<>>
       /\ SubSeq(more, 0 + 1, Len(more)) = more
  BY <1>13 DEF Pending
<1>16. more = Append(unwritten, [path |-> p, value |-> c])
  BY <1>1 DEF more, ws
<1>17. (pc = "open" /\ fail) = FALSE /\ (pc' = "open" /\ fail') = FALSE
  BY <1>2
<1>18. CASE immediate
  <2>1. disk' = h /\ buf' = <<>> /\ reply' = Synced
    BY <1>2, <1>6, <1>18 DEF h
  <2>2. unwritten' = <<>>
    BY <1>1, <2>1 DEF Unwritten
  <2>3. PendingWhole'
    <3>1. Len(Records(disk')) = Len(Records(h)) /\ Flushed' = h /\ Len(Records(h)) \in Nat
      BY <1>5, <1>10, <2>1 DEF h
    <3>. HIDE DEF h, all
    <3>2. \A i \in 1..Len(Records(h)) : ~(i > Len(Records(disk')))
      BY <3>1
    <3>. QED
      BY <3>1, <3>2 DEF PendingWhole
  <2>4. A!Becomes(A!Apply(found, more))
    <3>1. \A i \in 1..Len(Records(h)) : i > Len(Records(disk)) + Len(more) =>
            Records(h)[i].path \notin Path
      <4>1. Len(Records(h)) \in Nat /\ Len(Records(disk)) + Len(more) = Len(Records(h))
        BY <1>5, <1>10, <1>14 DEF m
      <4>. QED
        BY <4>1
    <3>2. found' = FoundIn(h) /\ found = FoundIn(disk)
      BY <1>1, <2>1
    <3>3. A!Becomes(A!Apply(FoundIn(disk), more))
      BY <1>4, <1>11, <1>13, <3>1, <3>2, FoundBecomes
    <3>. QED
      BY <3>2, <3>3
  <2>5. pc = "open" /\ pc' = "open"
    BY <1>2
  <2>. QED
    BY <1>6, <1>7, <1>15, <1>16, <1>17, <1>18, <2>1, <2>2, <2>3, <2>4, <2>5 DEF A!WritePtr
<1>19. CASE ~immediate
  <2>1. disk' = disk /\ buf' # <<>> /\ reply' = NoReply
    BY <1>2, <1>6, <1>8, <1>19
  <2>2. unwritten' = more
    <3>1. Unwritten' = [i \in 1..(Len(Records(h)) - Len(Records(disk))) |->
                          [path |-> Records(h)[Len(Records(disk)) + i].path,
                           value |-> ContentOf(h, Records(h)[Len(Records(disk)) + i])]]
      BY <2>1 DEF Unwritten, h
    <3>2. Len(Records(disk)) + Len(more) = Len(Records(h))
      BY <1>14 DEF m
    <3>3. Unwritten' = more
      BY <1>4, <1>11, <1>13, <3>1, <3>2, WritesAre
    <3>. QED
      BY <1>1, <3>3
  <2>3. PendingWhole'
    <3>1. ASSUME NEW i \in 1..Len(Records(h)), i > m
          PROVE  Records(h)[i].path \in Path \ TooLong /\ ContentOf(h, Records(h)[i]) \in Content
      <4>1. CASE i \in 1..Len(all)
        <5>1. all[i].path \in Path \ TooLong /\ ContentOf(Flushed, all[i]) \in Content
          BY <1>1, <1>2, <3>1, <4>1 DEF PendingWhole, m
        <5>2. ContentOf(Flushed, all[i]) # Damaged
          BY <5>1, ValuesDiffer
        <5>3. ContentOf(h, all[i]) = ContentOf(Flushed, all[i])
          BY <1>4, <1>11, <4>1, <5>2, ContentsKept
        <5>. QED
          BY <1>10, <4>1, <5>1, <5>3
      <4>2. CASE i = Len(all) + 1
        BY <1>2, <1>3, <1>9, <1>10, <4>2 DEF h
      <4>3. i \in 1..Len(all) \/ i = Len(all) + 1
        <5>. HIDE DEF all
        <5>. QED
          BY <1>5, <1>10, <3>1
      <4>. QED
        BY <4>1, <4>2, <4>3
    <3>2. Len(Records(disk')) = m
      BY <2>1 DEF m
    <3>3. \A i \in 1..Len(Records(Flushed')) : i > Len(Records(disk')) =>
            /\ Records(Flushed')[i].path \in Path \ TooLong
            /\ ContentOf(Flushed', Records(Flushed')[i]) \in Content
      BY <3>1, <3>2 DEF h
    <3>. QED
      BY <3>3 DEF PendingWhole
  <2>4. A!Becomes(A!Apply(found, SubSeq(more, 1, 0)))
    BY <1>1, <1>4, <1>13, <2>1, StoresNothing
  <2>5. pc = "open" /\ pc' = "open"
    BY <1>2
  <2>. QED
    BY <1>6, <1>7, <1>15, <1>16, <1>17, <1>19, <2>1, <2>2, <2>3, <2>4, <2>5 DEF A!WritePtr
<1>. QED
  BY <1>18, <1>19

-----------------------------------------------------------------------------
(* A process that dies while records are in its buffer *)

\* A content cut short reads as it was written or as damage.
LEMMA TornContents ==
    ASSUME NoMinus, TornShows, NEW f \in Seq(Cell), Tidy(f), NEW h \in Seq(Cell), NEW g \in Seq(Cell),
           NEW c \in Nat,
           \A q \in Nat : CellAt(g, q) = IF q < c THEN CellAt(h, q) ELSE CellAt(f, q),
           NEW r \in FileRecord, r.start > EndOfAll(Records(f)), ContentOf(h, r) \in Content
    PROVE  ContentOf(g, r) \in {Damaged, ContentOf(h, r)}
<1>. DEFINE s == r.start
            z == r.size
            v == SubSeq(h, s + 1, s + z)
            d == SubSeq(g, s + 1, s + z)
            e == EndOfAll(Records(f))
            Lh == Len(h)
            Lg == Len(g)
<1>1. s \in Nat /\ z \in Nat /\ e \in Nat /\ s > e
  BY EndOfProperties, RecordsProperties, ListsProperties
<1>2. ContentOf(h, r) # Damaged
  BY ValuesDiffer
<1>3. ~(s + z > Lh) /\ ContentOf(h, r) = v
  BY <1>2 DEF ContentOf
<1>4. SUFFICES ASSUME ContentOf(g, r) # Damaged PROVE ContentOf(g, r) = ContentOf(h, r)
  OBVIOUS
<1>5. ~(s + z > Lg) /\ ContentOf(g, r) = d /\ d \in Content
  BY <1>4 DEF ContentOf
<1>6. v \in Content
  BY <1>3
<1>7. Lh \in Nat /\ Lg \in Nat
  OBVIOUS
<1>. HIDE DEF s, z, e
<1>8. s + z <= Lh /\ s + z <= Lg
  BY <1>1, <1>3, <1>5, <1>7
<1>9. Len(v) = z /\ \A i \in 1..z : v[i] = CellAt(h, s + i - 1)
  BY <1>1, <1>8, PartOfFile
<1>10. Len(d) = z /\ \A i \in 1..z : d[i] = CellAt(g, s + i - 1)
  BY <1>1, <1>8, PartOfFile
<1>. HIDE DEF v, d, Lh, Lg
<1>. DEFINE j == IF c <= s THEN 0 ELSE IF c - s >= z THEN z ELSE c - s
<1>11. j \in 0..z /\ \A i \in 1..z : (i <= j) <=> (s + i - 1 < c)
  BY <1>1
<1>. HIDE DEF j
<1>12. ASSUME NEW i \in 1..z
       PROVE  IF i <= j THEN d[i] = v[i] ELSE d[i] \in Leftover
  <2>1. s + i - 1 \in Nat /\ s + i - 1 > e
    BY <1>1
  <2>2. CASE i <= j
    <3>1. s + i - 1 < c
      BY <1>11, <2>2
    <3>2. CellAt(g, s + i - 1) = CellAt(h, s + i - 1)
      BY <2>1, <3>1
    <3>. QED
      BY <1>9, <1>10, <2>2, <3>2
  <2>3. CASE ~(i <= j)
    <3>1. ~(s + i - 1 < c)
      BY <1>11, <2>3
    <3>2. CellAt(g, s + i - 1) = CellAt(f, s + i - 1)
      BY <2>1, <3>1
    <3>3. CellAt(f, s + i - 1) \in Leftover
      BY <2>1 DEF Tidy, e
    <3>. QED
      BY <1>10, <2>3, <3>2, <3>3
  <2>. QED
    BY <2>2, <2>3
<1>13. d = v
  BY <1>5, <1>6, <1>9, <1>10, <1>11, <1>12 DEF TornShows
<1>. QED
  BY <1>3, <1>5, <1>13

\* A header cut short is that of its path, or of no path anybody uses.
LEMMA TornPath ==
    ASSUME TornShows, NEW f \in Seq(Cell), Tidy(f), NEW h, NEW g,
           NEW o \in Nat, o + 2 > EndOfAll(Records(f)),
           CellAt(g, o) = CellAt(h, o), CellAt(g, o + 2) = CellAt(f, o + 2),
           RecordAt(h, o).path \in Path \ TooLong
    PROVE  RecordAt(g, o).path \in Path => RecordAt(g, o).path = RecordAt(h, o).path
<1>. DEFINE p == RecordAt(h, o).path
            t == CellAt(f, o + 2)
<1>1. t \in Leftover
  BY DEF Tidy
<1>2. p = PathOf(h, o) /\ RecordAt(g, o).path = PathOf(g, o)
  BY DEF RecordAt
<1>3. PathOf(g, o) = [PathOf(h, o) EXCEPT !.prefix = PrefixOf(t)]
  BY DEF PathOf
<1>4. p \in Path \ TooLong
  OBVIOUS
<1>. HIDE DEF p, t
<1>5. RecordAt(g, o).path = [p EXCEPT !.prefix = PrefixOf(t)]
  BY <1>2, <1>3
<1>6. [p EXCEPT !.prefix = PrefixOf(t)] \in Path => [p EXCEPT !.prefix = PrefixOf(t)] = p
  BY <1>1, <1>4 DEF TornShows
<1>. QED
  BY <1>5, <1>6 DEF p

\* The first writes of ws, when the file g holds them.
LEMMA ExtendsPart ==
    ASSUME NEW f \in Seq(Cell), NEW g \in Seq(Cell), Extends(f, g, <<>>), NEW ws \in Pending,
           NEW j \in 0..Len(ws), Len(Records(f)) + j <= Len(Records(g)),
           \A i \in 1..j : /\ Records(g)[Len(Records(f)) + i].path = ws[i].path
                           /\ ContentOf(g, Records(g)[Len(Records(f)) + i]) = ws[i].value
    PROVE  LET part == SubSeq(ws, 1, j)
           IN  part \in Pending /\ Len(part) = j /\ Extends(f, g, part)
<1>. DEFINE part == SubSeq(ws, 1, j)
<1>1. part \in Pending /\ Len(part) = j /\ \A i \in 1..j : part[i] = ws[i]
  <2>. DEFINE S == [path : Path, value : Content]
  <2>1. ws \in Seq(S)
    BY DEF Pending
  <2>. HIDE DEF S
  <2>2. part \in Seq(S) /\ Len(part) = j /\ \A i \in 1..j : part[i] = ws[i]
    BY <2>1
  <2>. QED
    BY <2>2 DEF Pending, S
<1>. HIDE DEF part
<1>2. Extends(f, g, part)
  BY <1>1 DEF Extends
<1>. QED
  BY <1>1, <1>2 DEF part

\* What a crash leaves of the records in the buffer: the first n are whole, one
\* more may be there, whole, damaged, or under a path nobody uses.
CrashLeaves(n) ==
    LET m   == Len(Records(disk))
        new == Records(disk')
        ws  == Unwritten
    IN  /\ n \in 0..Len(ws)
        /\ \A i \in 1..n : /\ new[m + i].path = ws[i].path
                           /\ ContentOf(disk', new[m + i]) = ws[i].value
        /\ \/ Len(new) = m + n
           \/ /\ Len(new) = m + n + 1 /\ n < Len(ws)
              /\ \/ new[m + n + 1].path \notin Path
                 \/ /\ new[m + n + 1].path = ws[n + 1].path
                    /\ ContentOf(disk', new[m + n + 1]) = Damaged

LEMMA CrashRecords ==
    ASSUME NoMinus, NoHeaderBehind, TornShows, IInv, ArchiveInv, Crash, disk' # disk
    PROVE  /\ disk' \in Seq(Cell) /\ Extends(disk, disk', <<>>) /\ pc = "open"
           /\ \E n \in Nat : CrashLeaves(n)
<1>. DEFINE f == disk
            h == Flushed
            g == disk'
            rs == Records(h)
            m == Len(Records(f))
            new == Records(g)
            ws == Unwritten
<1>1. FileInv /\ PendingWhole
  BY DEF ArchiveInv
<1>2. pc = "open" /\ ~fail /\ g \in Seq(Cell) /\ Len(g) >= Len(f)
  BY <1>1, CrashGives
<1>3. PICK k \in 0..Len(buf) :
        /\ k > 0 => Len(g) >= Settled + k
        /\ EndOfAll(Records(f)) <= Settled + k /\ Settled + k <= EndOfAll(rs)
        /\ Settled + k \in Nat
        /\ \A q \in Nat : CellAt(g, q) = IF q < Settled + k THEN CellAt(h, q) ELSE CellAt(f, q)
  BY <1>1, CrashGives
<1>4. /\ f \in Seq(Cell) /\ h \in Seq(Cell) /\ Tidy(f) /\ Settled \in Nat
      /\ SameBefore(f, h, EndOfAll(Records(f))) /\ EndOfAll(Records(f)) = Settled
  BY <1>1, <1>2, OpenKnows
<1>5. /\ m \in Nat /\ Len(rs) \in Nat /\ Len(ws) \in Nat /\ m + Len(ws) = Len(rs)
      /\ ws \in Pending
      /\ \A i \in 1..Len(ws) :
           /\ rs[m + i].path \in Path \ TooLong /\ rs[m + i].path = ws[i].path
           /\ ContentOf(h, rs[m + i]) = ws[i].value
  BY <1>1, <1>2, UnwrittenIs
<1>. DEFINE c == Settled + k
            e == EndOfAll(Records(f))
<1>6. /\ c \in Nat /\ e <= c /\ c <= EndOfAll(rs) /\ e \in Nat /\ (c > e => Len(g) >= c)
      /\ \A q \in Nat : CellAt(g, q) = IF q < c THEN CellAt(h, q) ELSE CellAt(f, q)
  BY <1>3, <1>4
<1>7. Lists(h, rs) /\ rs \in Seq(FileRecord)
  BY <1>4, RecordsProperties, ListsProperties
<1>8. HeaderPlace(rs, m + 1) = e
  BY <1>4, OldRecordsFirst
<1>. HIDE DEF c, f, h, g
<1>9. SameBefore(f, g, e)
  <2>1. SUFFICES ASSUME NEW q \in Nat, q < e PROVE CellAt(g, q) = CellAt(f, q)
    BY DEF SameBefore
  <2>. HIDE DEF e
  <2>2. q < c
    BY <1>6, <2>1
  <2>3. CellAt(h, q) = CellAt(f, q)
    BY <1>4, <2>1 DEF SameBefore, e
  <2>. QED
    BY <1>6, <2>2, <2>3
<1>10. Extends(f, g, <<>>)
  BY <1>2, <1>4, <1>9, NothingWritten, ExtendsFurther DEF f
<1>11. PICK n \in 0..Len(rs) :
         /\ Len(new) = n /\ m <= n
         /\ \A i \in 1..n :
              /\ HeaderPlace(rs, i) + 1 < c
              /\ new[i] = RecordAt(g, HeaderPlace(rs, i))
              /\ new[i].start = rs[i].start
              /\ new[i].size = rs[i].size
              /\ c > HeaderPlace(rs, i) + 2 => new[i] = rs[i]
  <2>1. /\ f \in Seq(Cell) /\ Tidy(f) /\ h \in Seq(Cell) /\ g \in Seq(Cell)
        /\ SameBefore(f, h, EndOfAll(Records(f)))
    BY <1>2, <1>4
  <2>2. /\ c \in Nat /\ EndOfAll(Records(f)) <= c /\ c <= EndOfAll(Records(h))
        /\ \A q \in Nat : CellAt(g, q) = IF q < c THEN CellAt(h, q) ELSE CellAt(f, q)
    BY <1>6
  <2>. HIDE DEF e, rs, m, new
  <2>3. \E n \in 0..Len(Records(h)) :
          /\ Len(Records(g)) = n /\ Len(Records(f)) <= n
          /\ \A i \in 1..n :
               /\ HeaderPlace(Records(h), i) + 1 < c
               /\ Records(g)[i] = RecordAt(g, HeaderPlace(Records(h), i))
               /\ Records(g)[i].start = Records(h)[i].start
               /\ Records(g)[i].size = Records(h)[i].size
               /\ c > HeaderPlace(Records(h), i) + 2 => Records(g)[i] = Records(h)[i]
    BY <2>1, <2>2, CutShort
  <2>. QED
    BY <2>3 DEF rs, m, new
<1>. HIDE DEF e, rs, m, new, ws
\* What is known of the i-th record of the buffer.
<1>12. ASSUME NEW i \in 1..Len(ws), m + i <= n
       PROVE  /\ m + i \in 1..Len(rs) /\ m + i \in 1..n
              /\ rs[m + i] \in FileRecord /\ HeaderPlace(rs, m + i) \in Nat
              /\ HeaderPlace(rs, m + i) >= e
              /\ rs[m + i].start = HeaderPlace(rs, m + i) + 3
              /\ rs[m + i] = RecordAt(h, HeaderPlace(rs, m + i))
              /\ ContentOf(h, rs[m + i]) \in Content
              /\ HeaderPlace(rs, m + i + 1) = EndOf(rs[m + i])
  <2>1. m + i \in 1..Len(rs) /\ m + i \in 1..n /\ m + 1 \in 1..Len(rs) + 1
        /\ m + i \in (m + 1)..(Len(rs) + 1) /\ m + i + 1 = (m + i) + 1
    BY <1>5, <1>11, <1>12
  <2>2. HeaderPlace(rs, m + 1) <= HeaderPlace(rs, m + i)
    BY <1>4, <1>7, <2>1, PlacesIncrease
  <2>3. /\ rs[m + i] \in FileRecord /\ HeaderPlace(rs, m + i) \in Nat
        /\ rs[m + i].start = HeaderPlace(rs, m + i) + 3
        /\ rs[m + i] = RecordAt(h, HeaderPlace(rs, m + i))
        /\ HeaderPlace(rs, (m + i) + 1) = EndOf(rs[m + i])
    <3>. DEFINE j == m + i
    <3>1. j \in 1..Len(rs) /\ j \in 1..Len(rs) + 1
      BY <1>5, <2>1
    <3>. HIDE DEF j
    <3>2. /\ rs[j] \in FileRecord /\ HeaderPlace(rs, j) \in Nat
          /\ rs[j].start = HeaderPlace(rs, j) + 3
          /\ rs[j] = RecordAt(h, HeaderPlace(rs, j))
          /\ HeaderPlace(rs, j + 1) = EndOf(rs[j])
      BY <1>4, <1>7, <3>1, ListsProperties
    <3>. QED
      BY <3>2 DEF j
  <2>4. ContentOf(h, rs[m + i]) \in Content
    BY <1>5, PendingWrites
  <2>5. HeaderPlace(rs, m + i) >= e
    BY <1>6, <1>8, <2>2, <2>3
  <2>. QED
    BY <2>1, <2>3, <2>4, <2>5
\* Those before the last one that is there are whole.
<1>13. ASSUME NEW i \in 1..Len(ws), m + i < n
       PROVE  new[m + i].path = ws[i].path /\ ContentOf(g, new[m + i]) = ws[i].value
  <2>. DEFINE r == rs[m + i]
              o == HeaderPlace(rs, m + i)
  <2>1. m + i <= n /\ m + i + 1 \in 1..n
    BY <1>5, <1>11, <1>13
  <2>2. /\ m + i \in 1..n /\ r \in FileRecord /\ o \in Nat /\ o >= e /\ r.start = o + 3
        /\ ContentOf(h, r) \in Content /\ HeaderPlace(rs, m + i + 1) = EndOf(r)
    BY <1>12, <2>1
  <2>3. EndOf(r) + 1 < c
    BY <1>11, <2>1, <2>2
  <2>4. EndOf(r) \in Nat /\ r.start \in Nat /\ r.size \in Nat /\ EndOf(r) >= r.start + r.size
    BY <2>2, EndOfProperties
  <2>5. c > o + 2 /\ r.start + r.size <= c /\ c > e
    <3>. HIDE DEF r, o
    <3>. QED
      BY <1>6, <2>2, <2>3, <2>4
  <2>6. new[m + i] = r
    BY <1>11, <2>2, <2>5
  <2>7. r.start + r.size <= Len(g)
    <3>1. Len(g) \in Nat
      BY <1>2
    <3>. HIDE DEF r
    <3>. QED
      BY <1>6, <2>4, <2>5, <3>1
  <2>8. r.start + r.size <= Len(h)
    <3>1. ~(r.start + r.size > Len(h)) /\ Len(h) \in Nat
      BY <1>4, <2>2, ValuesDiffer, WholeContents
    <3>. HIDE DEF r
    <3>. QED
      BY <2>4, <3>1
  <2>9. SameBefore(h, g, c)
    BY <1>6 DEF SameBefore
  <2>10. ContentOf(g, r) = ContentOf(h, r)
    <3>. HIDE DEF r
    <3>. QED
      BY <1>2, <1>4, <1>6, <2>2, <2>5, <2>7, <2>8, <2>9, ContentsSame
  <2>. QED
    BY <1>5, <2>6, <2>10
\* The last one.
<1>14. ASSUME NEW i \in 1..Len(ws), m + i = n
       PROVE  \/ new[n].path \notin Path
              \/ /\ new[n].path = ws[i].path
                 /\ ContentOf(g, new[n]) \in {Damaged, ws[i].value}
  <2>. DEFINE r == rs[m + i]
              o == HeaderPlace(rs, m + i)
  <2>1. m + i <= n /\ m + i = n
    BY <1>5, <1>11, <1>14
  <2>2. /\ n \in 1..n /\ r \in FileRecord /\ o \in Nat /\ o >= e /\ r.start = o + 3
        /\ ContentOf(h, r) \in Content /\ r = RecordAt(h, o)
    BY <1>12, <2>1
  <2>3. /\ o + 1 < c /\ new[n] = RecordAt(g, o) /\ new[n].start = r.start /\ new[n].size = r.size
        /\ c > o + 2 => new[n] = r
    BY <1>11, <2>1, <2>2
  <2>4. r.path \in Path \ TooLong /\ r.path = ws[i].path /\ ContentOf(h, r) = ws[i].value
    BY <1>5
  <2>5. ContentOf(g, r) \in {Damaged, ContentOf(h, r)}
    <3>1. r.start > EndOfAll(Records(f))
      <4>. HIDE DEF r, o
      <4>. QED
        BY <1>6, <2>2 DEF e
    <3>. HIDE DEF r, o
    <3>. QED
      BY <1>2, <1>4, <1>6, <2>2, <3>1, TornContents
  <2>6. ContentOf(g, new[n]) = ContentOf(g, r)
    BY <2>3, SameContents
  <2>7. new[n].path \in Path => new[n].path = r.path
    <3>1. CASE c > o + 2
      BY <2>3, <3>1
    <3>2. CASE ~(c > o + 2)
      <4>. HIDE DEF r, o
      <4>1. o < c /\ ~(o + 2 < c) /\ o + 2 > e /\ o + 2 \in Nat
        BY <1>6, <2>2, <2>3, <3>2
      <4>2. CellAt(g, o) = CellAt(h, o) /\ CellAt(g, o + 2) = CellAt(f, o + 2)
        BY <1>6, <2>2, <4>1
      <4>3. RecordAt(h, o).path \in Path \ TooLong
        BY <2>2, <2>4
      <4>4. o + 2 > EndOfAll(Records(f))
        BY <4>1 DEF e
      <4>5. RecordAt(g, o).path \in Path => RecordAt(g, o).path = RecordAt(h, o).path
        BY <1>4, <2>2, <4>2, <4>3, <4>4, TornPath
      <4>. QED
        BY <2>2, <2>3, <4>5
    <3>. QED
      BY <3>1, <3>2
  <2>. QED
    BY <2>4, <2>5, <2>6, <2>7
<1>15. \E j \in Nat :
         /\ j \in 0..Len(ws)
         /\ \A i \in 1..j : new[m + i].path = ws[i].path /\ ContentOf(g, new[m + i]) = ws[i].value
         /\ \/ Len(new) = m + j
            \/ /\ Len(new) = m + j + 1 /\ j < Len(ws)
               /\ \/ new[m + j + 1].path \notin Path
                  \/ /\ new[m + j + 1].path = ws[j + 1].path
                     /\ ContentOf(g, new[m + j + 1]) = Damaged
  <2>1. n \in Nat /\ m <= n /\ n <= m + Len(ws) /\ Len(new) = n
    BY <1>5, <1>11
  <2>2. CASE n = m
    <3>1. 0 \in Nat /\ 0 \in 0..Len(ws) /\ Len(new) = m + 0
      BY <1>5, <2>1, <2>2
    <3>. QED
      BY <3>1
  <2>3. CASE n # m
    <3>. DEFINE i == n - m
                j == i - 1
    <3>1. /\ i \in 1..Len(ws) /\ m + i = n /\ j \in Nat /\ j \in 0..Len(ws) /\ j < Len(ws)
          /\ m + j + 1 = n /\ j + 1 = i /\ i \in Nat /\ i \in 0..Len(ws)
      BY <1>5, <2>1, <2>3
    <3>2. \A l \in 1..j : l \in 1..Len(ws) /\ m + l < n
      BY <1>5, <2>1, <3>1
    <3>3. \A l \in 1..i : l \in 1..j \/ l = i
      BY <3>1
    <3>. HIDE DEF i, j
    <3>4. \A l \in 1..j : new[m + l].path = ws[l].path /\ ContentOf(g, new[m + l]) = ws[l].value
      BY <1>13, <3>2
    <3>5. CASE new[n].path = ws[i].path /\ ContentOf(g, new[n]) = ws[i].value
      <4>1. \A l \in 1..i : new[m + l].path = ws[l].path /\ ContentOf(g, new[m + l]) = ws[l].value
        BY <3>1, <3>3, <3>4, <3>5
      <4>2. Len(new) = m + i
        BY <2>1, <3>1
      <4>. QED
        BY <3>1, <4>1, <4>2
    <3>6. CASE ~(new[n].path = ws[i].path /\ ContentOf(g, new[n]) = ws[i].value)
      <4>1. \/ new[n].path \notin Path
            \/ new[n].path = ws[i].path /\ ContentOf(g, new[n]) = Damaged
        BY <1>14, <3>1, <3>6
      <4>2. Len(new) = m + j + 1
        BY <2>1, <3>1
      <4>. QED
        BY <3>1, <3>4, <4>1, <4>2
    <3>. QED
      BY <3>5, <3>6
  <2>. QED
    BY <2>2, <2>3
<1>16. \E j \in Nat : CrashLeaves(j)
  BY <1>15 DEF CrashLeaves, ws, m, new, g, f
<1>. QED
  BY <1>2, <1>10, <1>16 DEF f, g

\* A process that dies with the file as it was has stored nothing.
LEMMA CrashStoresNothing ==
    ASSUME NoMinus, IInv, ArchiveInv, Watch, Crash, disk' = disk
    PROVE  \E k \in 0..Len(unwritten) : A!Becomes(A!Apply(found, SubSeq(unwritten, 1, k)))
<1>1. pc \in {"scanning", "open"} /\ disk \in Seq(Cell)
  BY DEF Crash, IInv, Typed
<1>2. Unwritten \in Pending
  <2>1. CASE pc = "open"
    BY <2>1, UnwrittenIs DEF ArchiveInv
  <2>2. CASE pc = "scanning"
    <3>1. Unwritten = <<>>
      BY <2>2, NothingPending DEF IInv, SessionShape
    <3>. QED
      BY <3>1 DEF Pending
  <2>. QED
    BY <1>1, <2>1, <2>2
<1>3. unwritten \in Pending /\ found = FoundIn(disk) /\ found' = FoundIn(disk')
  BY <1>2 DEF ArchiveInv, Observed, Watch
<1>4. A!Becomes(A!Apply(found, SubSeq(unwritten, 1, 0))) /\ Len(unwritten) \in Nat
  BY <1>1, <1>3, StoresNothing
<1>5. 0 \in 0..Len(unwritten)
  BY <1>4
<1>. QED
  BY <1>4, <1>5

\* A process that dies with part of its buffer in the file has stored the first
\* writes, and at most one more, damaged.
LEMMA CrashStoresSome ==
    ASSUME NoMinus, NoHeaderBehind, TornShows, IInv, ArchiveInv, Watch, Crash, disk' # disk
    PROVE  \E k \in 0..Len(unwritten) :
             LET kept == A!Apply(found, SubSeq(unwritten, 1, k))
             IN  \/ A!Becomes(kept)
                 \/ /\ k < Len(unwritten)
                    /\ A!Becomes([kept EXCEPT ![unwritten[k + 1].path] = Damaged])
                    /\ found'[unwritten[k + 1].path] = Damaged
<1>. DEFINE f == disk
            g == disk'
            m == Len(Records(f))
            new == Records(g)
            ws == Unwritten
<1>1. g \in Seq(Cell) /\ Extends(f, g, <<>>) /\ pc = "open"
  BY CrashRecords
<1>2. PICK n \in Nat : CrashLeaves(n)
  BY CrashRecords
<1>3. /\ n \in 0..Len(ws)
      /\ \A i \in 1..n : new[m + i].path = ws[i].path /\ ContentOf(g, new[m + i]) = ws[i].value
      /\ \/ Len(new) = m + n
         \/ /\ Len(new) = m + n + 1 /\ n < Len(ws)
            /\ \/ new[m + n + 1].path \notin Path
               \/ /\ new[m + n + 1].path = ws[n + 1].path
                  /\ ContentOf(g, new[m + n + 1]) = Damaged
  BY <1>2 DEF CrashLeaves
<1>4. ws \in Pending
  BY <1>1, UnwrittenIs DEF ArchiveInv
<1>5. f \in Seq(Cell)
  BY DEF IInv, Typed
<1>6. unwritten = ws /\ found = FoundIn(f) /\ found' = FoundIn(g)
  BY DEF ArchiveInv, Observed, Watch
<1>7. m \in Nat /\ Len(new) \in Nat /\ new \in Seq(FileRecord)
  BY <1>1, <1>5, RecordsProperties, ListsProperties
<1>. DEFINE part == SubSeq(ws, 1, n)
<1>. HIDE DEF f, g, ws
<1>8. part \in Pending /\ Len(part) = n /\ Extends(f, g, part)
  <2>1. Len(Records(f)) + n <= Len(Records(g))
    <3>. HIDE DEF m, new
    <3>1. m + n <= Len(new)
      BY <1>2, <1>3, <1>7
    <3>. QED
      BY <3>1 DEF m, new
  <2>2. \A i \in 1..n : /\ Records(g)[Len(Records(f)) + i].path = ws[i].path
                        /\ ContentOf(g, Records(g)[Len(Records(f)) + i]) = ws[i].value
    BY <1>3
  <2>. QED
    BY <1>1, <1>3, <1>4, <1>5, <2>1, <2>2, ExtendsPart
<1>. DEFINE kept == A!Apply(found, part)
<1>9. CASE Len(new) = m + n \/ (Len(new) = m + n + 1 /\ new[m + n + 1].path \notin Path)
  <2>1. \A i \in 1..Len(new) : i > m + n => new[i].path \notin Path
    <3>1. SUFFICES ASSUME NEW i \in 1..Len(new), i > m + n PROVE new[i].path \notin Path
      OBVIOUS
    <3>. HIDE DEF m, new
    <3>2. i = m + n + 1 /\ Len(new) # m + n
      BY <1>2, <1>7, <1>9, <3>1
    <3>. QED
      BY <1>9, <3>2
  <2>2. \A i \in 1..Len(Records(g)) : i > Len(Records(f)) + Len(part) => Records(g)[i].path \notin Path
    BY <1>8, <2>1
  <2>. HIDE DEF part, m, new
  <2>3. A!Becomes(A!Apply(FoundIn(f), part))
    BY <1>1, <1>5, <1>6, <1>8, <2>2, FoundBecomes
  <2>4. A!Becomes(A!Apply(found, SubSeq(unwritten, 1, n)))
    BY <1>6, <2>3 DEF part
  <2>. QED
    BY <1>3, <1>6, <2>4
<1>10. CASE /\ Len(new) = m + n + 1 /\ n < Len(ws)
            /\ new[m + n + 1].path = ws[n + 1].path
            /\ ContentOf(g, new[m + n + 1]) = Damaged
  <2>. DEFINE P == ws[n + 1].path
              last == m + n + 1
  <2>1. n + 1 \in 1..Len(ws)
    <3>1. Len(ws) \in Nat
      BY <1>4 DEF Pending
    <3>. QED
      BY <1>2, <1>10, <3>1
  <2>2. P \in Path
    BY <1>4, <2>1, PendingWrites
  <2>3. new[last].path = P /\ ContentOf(g, new[last]) = Damaged /\ Len(new) = last
    BY <1>10
  <2>. HIDE DEF P
  <2>4. /\ \A i \in 1..Len(new) : i > m + n => i = last
        /\ last \in 1..Len(new) /\ \A i \in 1..Len(new) : i <= last
    <3>. HIDE DEF m, new
    <3>. QED
      BY <1>2, <1>7, <2>3
  <2>. HIDE DEF last
  <2>5. FoundIn(g)[P] = Damaged
    <3>1. IsLast(Records(g), P, last)
      BY <2>3, <2>4 DEF IsLast
    <3>2. last \in 1..Len(Records(g))
      BY <2>4
    <3>3. FoundIn(g)[P] = ContentOf(g, Records(g)[last])
      BY <1>1, <2>2, <3>1, <3>2, FoundByLast
    <3>. QED
      BY <2>3, <3>3
  <2>6. ASSUME NEW p \in Path, p # P
        PROVE  IF kept[p] = Damaged THEN found'[p] # Missing ELSE found'[p] = kept[p]
    <3>1. \A i \in 1..Len(Records(g)) : i > Len(Records(f)) + Len(part) => Records(g)[i].path # p
      BY <1>8, <2>3, <2>4, <2>6
    <3>. HIDE DEF part, m, new
    <3>2. IF A!Apply(FoundIn(f), part)[p] = Damaged THEN FoundIn(g)[p] # Missing
          ELSE FoundIn(g)[p] = A!Apply(FoundIn(f), part)[p]
      BY <1>1, <1>5, <1>8, <3>1, FoundAfter
    <3>. QED
      BY <1>6, <3>2
  <2>7. kept = [p \in Path |-> kept[p]]
    BY AppliedIsMap
  <2>8. FoundIn(g) \in [Path -> Content \cup {Missing, Damaged}]
    BY FoundType
  <2>. DEFINE marked == [kept EXCEPT ![P] = Damaged]
  <2>. HIDE DEF part, m, new, kept
  <2>9. ASSUME NEW p \in Path
        PROVE  marked[p] = IF p = P THEN Damaged ELSE kept[p]
    BY <2>2, <2>7
  <2>. HIDE DEF marked
  <2>10. A!Becomes(marked)
    <3>1. ASSUME NEW p \in Path
          PROVE  IF marked[p] = Damaged THEN found'[p] # Missing ELSE found'[p] = marked[p]
      <4>1. CASE p = P
        BY <1>6, <2>5, <2>9, <4>1, ValuesDiffer
      <4>2. CASE p # P
        BY <2>6, <2>9, <4>2
      <4>. QED
        BY <4>1, <4>2
    <3>. QED
      BY <1>6, <2>8, <3>1 DEF A!Becomes
  <2>11. /\ n \in 0..Len(unwritten) /\ n < Len(unwritten)
         /\ A!Becomes([A!Apply(found, SubSeq(unwritten, 1, n))
                         EXCEPT ![unwritten[n + 1].path] = Damaged])
         /\ found'[unwritten[n + 1].path] = Damaged
    BY <1>3, <1>6, <1>10, <2>5, <2>10 DEF marked, kept, part, P
  <2>. QED
    BY <2>11
<1>. QED
  BY <1>3, <1>9, <1>10

\* A process that dies.
LEMMA CrashMaps ==
    ASSUME NoMinus, NoHeaderBehind, TornShows, IInv, ArchiveInv, Watch, Crash
    PROVE  PendingWhole' /\ A!Die
<1>1. pc \in {"scanning", "open"} /\ m_mode \in {"Read", "Write", "Append"}
  BY DEF Crash, IInv, Typed
<1>2. pc' = "closed" /\ buf' = <<>> /\ reply' = NoReply
  BY DEF Crash, Forget
<1>3. unwritten' = <<>>
  BY <1>2 DEF Watch, Unwritten
<1>4. PendingWhole'
  BY <1>2 DEF PendingWhole
<1>5. \E k \in 0..Len(unwritten) :
        LET kept == A!Apply(found, SubSeq(unwritten, 1, k))
        IN  \/ A!Becomes(kept)
            \/ /\ k < Len(unwritten)
               /\ A!Becomes([kept EXCEPT ![unwritten[k + 1].path] = Damaged])
               /\ found'[unwritten[k + 1].path] = Damaged
  <2>1. CASE disk' = disk
    <3>1. \E k \in 0..Len(unwritten) : A!Becomes(A!Apply(found, SubSeq(unwritten, 1, k)))
      BY <2>1, CrashStoresNothing
    <3>. QED
      BY <3>1
  <2>2. CASE disk' # disk
    BY <2>2, CrashStoresSome
  <2>. QED
    BY <2>1, <2>2
<1>. QED
  BY <1>1, <1>2, <1>3, <1>4, <1>5 DEF A!Die

\* Every step is a step of the abstract archive, or none.
LEMMA ArchiveNext ==
    ASSUME NoMinus, NoHeaderBehind, Fits, TornShows, IInv, IInv', ArchiveInv,
           [ObservedNext]_<<vars, found, unwritten>>
    PROVE  ArchiveInv' /\ [A!Next]_(A!vars)
<1>. DEFINE Maps == PendingWhole' /\ (A!Next \/ UNCHANGED A!vars)
<1>1. CASE ObservedNext
  <2>1. Next /\ Watch
    BY <1>1 DEF ObservedNext, Watch
  <2>2. ASSUME NEW mode \in {"Read", "Write", "Append"}, Open(mode)
        PROVE  Maps
    <3>1. PendingWhole' /\ A!Open(mode)
      BY <2>1, <2>2, OpenMaps
    <3>2. mode \in A!Mode
      BY <2>2 DEF A!Mode
    <3>. QED
      BY <3>1, <3>2 DEF A!Next
  <2>3. ASSUME ScanRecord \/ ScanSkip \/ ScanDone PROVE Maps
    BY <2>1, <2>3, ScanMaps
  <2>4. ASSUME ScanThrow PROVE Maps
    BY <2>1, <2>4, ScanThrowMaps DEF A!Next
  <2>5. ASSUME NEW p \in Path, NEW c \in Content, NEW immediate \in BOOLEAN,
               WritePtr(p, c, immediate)
        PROVE  Maps
    <3>1. PendingWhole' /\ A!WritePtr(p, c, immediate)
      <4>1. CASE fail
        BY <2>1, <2>5, <4>1, WriteFailedMaps
      <4>2. CASE ~fail
        BY <2>1, <2>5, <4>2, WriteMaps
      <4>. QED
        BY <4>1, <4>2
    <3>. QED
      BY <3>1 DEF A!Next
  <2>6. ASSUME WriteReadOnly \/ \E p \in Path : WriteTooLong(p) PROVE Maps
    BY <2>1, <2>6, RefusedMaps DEF A!Next
  <2>7. ASSUME NEW p \in Path, Read(p)
        PROVE  Maps
    BY <2>1, <2>7, ReadMaps DEF A!Next
  <2>8. ASSUME NEW p \in Path, ReadMissing(p)
        PROVE  Maps
    BY <2>1, <2>8, ReadMissingMaps DEF A!Next
  <2>9. ASSUME EndBulkWrites PROVE Maps
    BY <2>1, <2>9, EndBulkWritesMaps DEF A!Next
  <2>10. ASSUME Close PROVE Maps
    BY <2>1, <2>10, CloseMaps DEF A!Next
  <2>11. ASSUME Crash PROVE Maps
    BY <2>1, <2>11, CrashMaps DEF A!Next
  <2>12. ASSUME CrashInClose PROVE Maps
    BY <2>1, <2>12, CrashInCloseMaps DEF A!Next
  <2>13. Maps
    BY <2>1, <2>2, <2>3, <2>4, <2>5, <2>6, <2>7, <2>8, <2>9, <2>10, <2>11, <2>12 DEF Next, Scan
  <2>14. FileInv'
    BY <2>1, NextFile DEF ArchiveInv
  <2>15. Observed'
    BY <2>1 DEF Observed, Watch
  <2>. QED
    BY <2>13, <2>14, <2>15 DEF ArchiveInv
<1>2. CASE UNCHANGED <<vars, found, unwritten>>
  <2>1. /\ UNCHANGED <<disk, pc, m_mode, pos, buf, fail, offset, m_maxPosition, m_fileNames,
                       m_fileOffsets, m_fileSizes, reply, found, unwritten>>
        /\ UNCHANGED vars
    BY <1>2 DEF vars, file, stream, index
  <2>2. FileInv'
    BY <2>1, NextFile DEF ArchiveInv
  <2>3. Flushed' = Flushed
    BY <2>1 DEF Flushed
  <2>4. PendingWhole' /\ Observed'
    <3>1. PendingWhole'
      BY <2>1, <2>3 DEF ArchiveInv, PendingWhole
    <3>2. Unwritten' = Unwritten
      BY <2>1, <2>3, SamePending
    <3>. QED
      BY <2>1, <3>1, <3>2 DEF ArchiveInv, Observed
  <2>. QED
    BY <2>1, <2>2, <2>4 DEF ArchiveInv, A!vars
<1>. QED
  BY <1>1, <1>2

\* The histories see the same steps.
LEMMA ObservedHolds ==
    ASSUME NoMinus
    PROVE  ObservedSpec => []IInv
<1>1. ObservedInit => IInv
  BY InitStep DEF ObservedInit
<1>2. IInv /\ [ObservedNext]_<<vars, found, unwritten>> => IInv'
  <2>1. [ObservedNext]_<<vars, found, unwritten>> => [Next]_vars
    BY DEF ObservedNext
  <2>. QED
    BY <2>1, NextStep
<1>. QED
  BY <1>1, <1>2, PTL DEF ObservedSpec

\* The tar backend implements Archive, on files without a header behind the end
\* of their records, for writes that headers can hold and contents whose torn
\* remains are no contents: one stream shared by reads and writes, buffered and
\* immediate writes, a crash at any cell and inside close, reopening by scanning
\* (TarArchive.cpp:39-275, Archive.hpp:51-79).
THEOREM ArchiveImplemented ==
    ASSUME NoMinus, NoHeaderBehind, Fits, TornShows
    PROVE  ObservedSpec => ImplementsArchive
<1>1. ObservedSpec => []IInv
  BY ObservedHolds
<1>2. ObservedInit => ArchiveInv /\ A!Init
  BY ArchiveInit
<1>3. IInv /\ IInv' /\ ArchiveInv /\ [ObservedNext]_<<vars, found, unwritten>>
        => ArchiveInv' /\ [A!Next]_(A!vars)
  BY ArchiveNext
<1>. QED
  BY <1>1, <1>2, <1>3, PTL DEF ObservedSpec, ImplementsArchive, A!Spec, A!vars
=============================================================================
