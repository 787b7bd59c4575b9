----------------------------- MODULE GtarProofs -----------------------------
(***************************************************************************)
(* What holds of the front end for any paths, contents and length of       *)
(* history: the cache lists the archive, queries answer from it rightly,   *)
(* a generator yields what is stored, and appending keeps what is there.   *)
(* The cache rests on records, so what holds of those comes first: for     *)
(* paths of any length and any directories a record gives its path back,   *)
(* parsing is idempotent, and an index that is set is found again.         *)
(***************************************************************************)
EXTENDS Gtar, RecordParser, RecordLemmas

-----------------------------------------------------------------------------
(* Records *)

\* What the parser's loop goes through are paths.
IsPath == dirs \in Seq(Directory) \ {<<>>}

LEMMA AlwaysPath == ParserSpec => []IsPath
<1>1. ParserInit => IsPath
  BY OneElement DEF ParserInit, IsPath
<1>2. IsPath /\ [ParserNext]_dirs => IsPath'
  BY DEF IsPath, ParserNext, PushBack
<1>. QED
  BY <1>1, <1>2, PTL DEF ParserSpec

LEMMA DirectoryIsText ==
    ASSUME NEW d \in Directory
    PROVE  d \in Text
BY SeqMonotonic, ParserAssumption DEF Text, Word

LEMMA PathOfTexts ==
    ASSUME IsPath
    PROVE  dirs \in Seq(Text) /\ dirs # <<>>
BY DirectoryIsText, SeqMonotonic DEF IsPath

\* A record gives its path back, whatever directories and however many
\* (Record.hpp:65-67), unless that begins with a slash.
THEOREM PathsReadBack == ParserSpec => []ReadsBack
<1>1. IsPath => ReadsBack
  BY PathOfTexts, PathReadsBack DEF ReadsBack
<1>. QED
  BY <1>1, AlwaysPath, PTL

\* Parsing is idempotent, with slashes anywhere (GTAR.cpp:202-209).
THEOREM ParsingIsNormal == ParserSpec => []Normal
<1>1. IsPath => Normal
  <2>. SUFFICES ASSUME IsPath PROVE RecordOf(GetPath(RecordOf(dirs))) = RecordOf(dirs)
    BY DEF Normal
  <2>1. IsNormal(RecordOf(dirs))
    BY PathOfTexts, ParsedIsNormal
  <2>. QED
    BY <2>1, NormalReadsBack DEF IsNormal
<1>. QED
  BY <1>1, AlwaysPath, PTL

\* An index that is set is found again by parsing the path (_gtar.pyx:556-563).
THEOREM IndicesReadBack == ParserSpec => []IndexReadsBack
<1>1. IsPath => IndexReadsBack
  <2>. SUFFICES ASSUME IsPath, NEW d \in Directory, RecordOf(dirs).behavior # "constant"
                PROVE  RecordOf(GetPath(WithIndex(RecordOf(dirs), d)))
                         = WithIndex(RecordOf(dirs), d)
    BY DEF IndexReadsBack
  <2>1. PICK g \in Seq(Text), dir \in Text, i \in Text, b \in Behavior :
          RecordOf(dirs) = Rec(g, dir, i, b) /\ StartsNamed(g)
    BY PathOfTexts, ParsedIsNormal DEF IsNormal
  <2>2. b # "constant"
    BY <2>1 DEF Rec
  <2>3. WithIndex(RecordOf(dirs), d) = Rec(g, dir, d, b)
    BY <2>1 DEF WithIndex, Rec
  <2>4. d \in Text
    BY DirectoryIsText
  <2>. QED
    BY <2>1, <2>2, <2>3, <2>4, NormalReadsBack
<1>. QED
  BY <1>1, AlwaysPath, PTL

-----------------------------------------------------------------------------
(* Paths and contents *)

\* No path begins with a slash (Gtar_departures.cfg has one that does).
PlainPaths == \A p \in Path : p[1] # NoText

WriteRecord == [path : Path, value : Value]
Contents == Value \cup {Missing, Damaged}

-----------------------------------------------------------------------------
(* The archive: which paths a map and the writes that follow it have *)

Has(map, ws, p) == map[p] # Missing \/ \E i \in DOMAIN ws : ws[i].path = p

\* After some writes a path is there if it was, or is one of theirs.
LEMMA ApplyHas ==
    ASSUME NEW map \in [Path -> Contents], NEW ws \in Seq(WriteRecord), NEW p \in Path
    PROVE  /\ A!Apply(map, ws) \in [Path -> Contents]
           /\ A!Apply(map, ws)[p] # Missing <=> Has(map, ws, p)
<1>. DEFINE hits(q) == {i \in DOMAIN ws : ws[i].path = q}
            last(q) == CHOOSE i \in hits(q) : \A j \in hits(q) : j <= i
<1>1. /\ Len(ws) \in Nat
      /\ DOMAIN ws = 1..Len(ws)
      /\ \A i \in DOMAIN ws : ws[i] \in WriteRecord
  OBVIOUS
<1>2. ASSUME NEW q \in Path, hits(q) # {}
      PROVE  last(q) \in DOMAIN ws /\ ws[last(q)].path = q /\ ws[last(q)].value \in Value
  <2>1. hits(q) \in SUBSET (1..Len(ws))
    BY <1>1
  <2>2. \E i \in hits(q) : \A j \in hits(q) : j <= i
    <3>. HIDE DEF hits
    <3>. QED
      BY <1>1, <1>2, <2>1, LastPosition
  <2>3. last(q) \in hits(q)
    <3>. HIDE DEF hits
    <3>. QED
      BY <2>2
  <2>. HIDE DEF last
  <2>. QED
    BY <1>1, <2>3 DEF WriteRecord
<1>3. A!Apply(map, ws) = [q \in Path |-> IF hits(q) = {} THEN map[q] ELSE ws[last(q)].value]
  BY DEF A!Apply
<1>4. hits(p) # {} <=> \E i \in DOMAIN ws : ws[i].path = p
  OBVIOUS
<1>. HIDE DEF hits, last
<1>5. \A q \in Path : (IF hits(q) = {} THEN map[q] ELSE ws[last(q)].value) \in Contents
  BY <1>2 DEF Contents
<1>6. Missing \notin Value
  BY GtarAssumption
<1>. QED
  BY <1>2, <1>3, <1>4, <1>5, <1>6 DEF Has

\* What the archive holds, when its variables have their types.
Stored == stored \in [Path -> Contents] /\ pending \in Seq(WriteRecord)

LEMMA PresentHas ==
    /\ Stored  => Present  = {p \in Path : Has(stored, pending, p)}
    /\ Stored' => Present' = {p \in Path : Has(stored', pending', p)}
BY ApplyHas DEF Stored, Present, A!Visible

\* Storing the oldest of some writes changes no path's being there.
LEMMA StoreKeeps ==
    ASSUME stored \in [Path -> Contents], NEW ws \in Seq(WriteRecord), NEW k \in 0..Len(ws),
           pending' = SubSeq(ws, k + 1, Len(ws)),
           A!Becomes(A!Apply(stored, SubSeq(ws, 1, k)))
    PROVE  /\ Stored'
           /\ Len(pending') = Len(ws) - k
           /\ \A p \in Path : Has(stored', pending', p) <=> Has(stored, ws, p)
<1>. DEFINE old == SubSeq(ws, 1, k)
            new == SubSeq(ws, k + 1, Len(ws))
<1>1. /\ Len(ws) \in Nat /\ DOMAIN ws = 1..Len(ws)
      /\ old \in Seq(WriteRecord) /\ DOMAIN old = 1..k /\ \A i \in 1..k : old[i] = ws[i]
      /\ new \in Seq(WriteRecord) /\ Len(new) = Len(ws) - k /\ DOMAIN new = 1..(Len(ws) - k)
      /\ \A i \in 1..(Len(ws) - k) : new[i] = ws[k + i]
  OBVIOUS
<1>0. pending' = new
  OBVIOUS
<1>. HIDE DEF old, new
<1>2. stored' \in [Path -> Contents]
  BY DEF A!Becomes, Contents
<1>3. ASSUME NEW p \in Path
      PROVE  Has(stored', pending', p) <=> Has(stored, ws, p)
  <2>1. stored'[p] # Missing <=> A!Apply(stored, old)[p] # Missing
    BY GtarAssumption DEF A!Becomes, old
  <2>2. stored'[p] # Missing <=> Has(stored, old, p)
    BY <1>1, <2>1, ApplyHas
  <2>3. (\E i \in DOMAIN ws : ws[i].path = p)
          <=> (\E i \in DOMAIN old : old[i].path = p) \/ (\E i \in DOMAIN new : new[i].path = p)
    <3>1. ASSUME NEW i \in DOMAIN ws, ws[i].path = p
          PROVE  \/ \E j \in DOMAIN old : old[j].path = p
                 \/ \E j \in DOMAIN new : new[j].path = p
      <4>1. CASE i \in 1..k
        BY <1>1, <3>1, <4>1
      <4>2. CASE i \notin 1..k
        <5>1. i - k \in DOMAIN new /\ k + (i - k) = i
          BY <1>1, <4>2
        <5>2. new[i - k] = ws[i]
          BY <1>1, <5>1
        <5>. QED
          BY <3>1, <5>1, <5>2
      <4>. QED
        BY <4>1, <4>2
    <3>2. ASSUME NEW j \in DOMAIN old, old[j].path = p
          PROVE  \E i \in DOMAIN ws : ws[i].path = p
      BY <1>1, <3>2
    <3>3. ASSUME NEW j \in DOMAIN new, new[j].path = p
          PROVE  \E i \in DOMAIN ws : ws[i].path = p
      <4>1. k + j \in DOMAIN ws /\ ws[k + j] = new[j]
        BY <1>1
      <4>. QED
        BY <3>3, <4>1
    <3>. QED
      BY <3>1, <3>2, <3>3
  <2>. QED
    BY <1>0, <2>2, <2>3 DEF Has
<1>. QED
  BY <1>0, <1>1, <1>2, <1>3 DEF Stored

\* A step of the archive that no query can tell from no step.
Calm ==
    /\ Stored'
    /\ Present' = Present
    /\ Len(pending') <= Len(pending)
    /\ stored = A!Empty /\ pending = <<>> => stored' = A!Empty /\ pending' = <<>>

\* An empty archive with nothing pending stays empty.
LEMMA EmptyStays ==
    ASSUME stored = A!Empty, A!Becomes(A!Apply(stored, <<>>))
    PROVE  stored' = A!Empty
<1>1. A!Apply(stored, <<>>) = A!Empty
  BY DEF A!Apply, A!Empty
<1>2. stored' \in [Path -> Contents] /\ \A p \in Path : stored'[p] = A!Empty[p]
  BY <1>1, GtarAssumption DEF A!Becomes, A!Empty, Contents
<1>. QED
  BY <1>2 DEF A!Empty

LEMMA StoreIsCalm ==
    ASSUME Stored, NEW k \in 0..Len(pending), A!Store(k)
    PROVE  Calm
<1>1. /\ Stored'
      /\ Len(pending') = Len(pending) - k
      /\ \A p \in Path : Has(stored', pending', p) <=> Has(stored, pending, p)
  BY StoreKeeps DEF Stored, A!Store
<1>2. Present' = Present
  BY <1>1, PresentHas
<1>3. ASSUME stored = A!Empty, pending = <<>>
      PROVE  stored' = A!Empty /\ pending' = <<>>
  <2>1. k = 0 /\ SubSeq(pending, 1, k) = <<>> /\ SubSeq(pending, k + 1, Len(pending)) = <<>>
    BY <1>3
  <2>. QED
    BY <1>3, <2>1, EmptyStays DEF A!Store
<1>4. Len(pending) \in Nat /\ k \in Nat
  BY DEF Stored
<1>. QED
  BY <1>1, <1>2, <1>3, <1>4 DEF Calm

LEMMA UnchangedIsCalm ==
    ASSUME Stored, UNCHANGED <<stored, pending>>
    PROVE  Calm
<1>1. Stored'
  BY DEF Stored
<1>2. Present' = Present
  BY <1>1, PresentHas DEF Has
<1>3. Len(pending) \in Nat
  BY DEF Stored
<1>. QED
  BY <1>1, <1>2, <1>3 DEF Calm

LEMMA LengthInRange ==
    ASSUME Stored
    PROVE  Len(pending) \in Nat /\ Len(pending) \in 0..Len(pending)
BY DEF Stored

\* Reads, refused writes and the end of a bulk write are such steps.
LEMMA ReadIsCalm ==
    ASSUME Stored, NEW p, ReadAt(p)
    PROVE  Calm /\ session' = session /\ (~broken' => ~broken)
<1>1. CASE p \notin Path
  BY <1>1, UnchangedIsCalm DEF ReadAt
<1>2. CASE p \in Path
  <2>1. A!Read(p)
    BY <1>2 DEF ReadAt
  <2>2. Calm
    BY <2>1, StoreIsCalm DEF A!Read
  <2>. QED
    BY <2>1, <2>2 DEF A!Read
<1>. QED
  BY <1>1, <1>2

LEMMA RefusedIsCalm ==
    ASSUME Stored, A!WriteRefused
    PROVE  Calm /\ session' = session /\ broken' = broken
BY StoreIsCalm DEF A!WriteRefused

LEMMA EndIsCalm ==
    ASSUME Stored, A!EndBulkWrites
    PROVE  Calm /\ session' = session /\ broken' = broken
BY StoreIsCalm, LengthInRange DEF A!EndBulkWrites

LEMMA CloseIsCalm ==
    ASSUME Stored, A!Close
    PROVE  Calm /\ session' = "closed" /\ pending' = <<>>
<1>1. Calm
  BY StoreIsCalm, LengthInRange DEF A!Close
<1>2. pending' = SubSeq(pending, Len(pending) + 1, Len(pending))
  BY DEF A!Close, A!Store
<1>3. pending' = <<>>
  BY <1>2 DEF Stored
<1>. QED
  BY <1>1, <1>3 DEF A!Close

\* A write adds its path, unless the session is broken.
LEMMA WriteAdds ==
    ASSUME Stored, NEW p \in Path, NEW v \in Value, NEW immediate \in BOOLEAN,
           A!WritePtr(p, v, immediate)
    PROVE  /\ Stored'
           /\ session' = session /\ broken' = broken
           /\ Len(pending') <= Len(pending) + 1
           /\ ~broken => Present' = Present \cup {p}
<1>1. session' = session /\ broken' = broken
  BY DEF A!WritePtr
<1>2. CASE broken
  <2>1. UNCHANGED <<stored, pending>>
    BY <1>2 DEF A!WritePtr
  <2>2. Calm
    BY <2>1, UnchangedIsCalm
  <2>. QED
    BY <1>1, <1>2, <2>2, LengthInRange DEF Calm, Stored
<1>3. CASE ~broken
  <2>. DEFINE w   == [path |-> p, value |-> v]
              all == Append(pending, w)
              k   == IF immediate THEN Len(all) ELSE 0
  <2>1. /\ pending' = SubSeq(all, k + 1, Len(all))
        /\ A!Becomes(A!Apply(stored, SubSeq(all, 1, k)))
    BY <1>3 DEF A!WritePtr
  <2>2. w \in WriteRecord
    BY DEF WriteRecord
  <2>3. /\ all \in Seq(WriteRecord) /\ Len(all) = Len(pending) + 1 /\ Len(pending) \in Nat
        /\ DOMAIN all = 1..(Len(pending) + 1) /\ DOMAIN pending = 1..Len(pending)
        /\ all[Len(pending) + 1] = w
        /\ \A i \in 1..Len(pending) : all[i] = pending[i]
    <3>. HIDE DEF w
    <3>. QED
      BY <2>2 DEF Stored
  <2>. HIDE DEF all
  <2>4. k \in 0..Len(all)
    BY <2>3
  <2>5. /\ Stored'
        /\ Len(pending') = Len(all) - k
        /\ \A q \in Path : Has(stored', pending', q) <=> Has(stored, all, q)
    <3>. HIDE DEF k
    <3>. QED
      BY <2>1, <2>3, <2>4, StoreKeeps DEF Stored
  <2>6. ASSUME NEW q \in Path
        PROVE  Has(stored, all, q) <=> Has(stored, pending, q) \/ q = p
    <3>1. \A i \in DOMAIN all : i \in DOMAIN pending \/ i = Len(pending) + 1
      BY <2>3
    <3>2. \A i \in DOMAIN pending : i \in DOMAIN all
      BY <2>3
    <3>3. Len(pending) + 1 \in DOMAIN all
      BY <2>3
    <3>. QED
      BY <2>3, <3>1, <3>2, <3>3 DEF Has
  <2>7. Present' = Present \cup {p}
    BY <2>5, <2>6, PresentHas
  <2>8. Len(pending') <= Len(pending) + 1
    <3>. HIDE DEF k
    <3>. QED
      BY <2>3, <2>4, <2>5
  <2>. QED
    BY <1>1, <2>5, <2>7, <2>8
<1>. QED
  BY <1>2, <1>3

LEMMA Dies ==
    ASSUME Stored, A!Die
    PROVE  /\ Stored' /\ pending' = <<>> /\ session' = "closed"
           /\ stored = A!Empty /\ pending = <<>> => stored' = A!Empty
<1>1. pending' = <<>> /\ session' = "closed" /\ stored' \in [Path -> Contents]
  BY DEF A!Die, A!Becomes, Contents
<1>2. ASSUME stored = A!Empty, pending = <<>>
      PROVE  stored' = A!Empty
  <2>1. \A k \in 0..Len(pending) : k = 0 /\ ~(k < Len(pending)) /\ SubSeq(pending, 1, k) = <<>>
    BY <1>2
  <2>2. A!Becomes(A!Apply(stored, <<>>))
    BY <2>1 DEF A!Die
  <2>. QED
    BY <1>2, <2>2, EmptyStays
<1>. QED
  BY <1>1, <1>2 DEF Stored

\* Opening finds what is stored, or nothing.
LEMMA Opens ==
    ASSUME Stored, NEW m \in A!Mode, A!Open(m), pending = <<>>
    PROVE  /\ Stored' /\ session' = m /\ session = "closed" /\ UNCHANGED <<pending, broken>>
           /\ Present' = {p \in Path : stored'[p] # Missing}
           /\ stored' = IF m = "Write" THEN A!Empty ELSE stored
<1>1. /\ session = "closed" /\ session' = m /\ UNCHANGED <<pending, broken>>
      /\ stored' = IF m = "Write" THEN A!Empty ELSE stored
  BY DEF A!Open
<1>2. Stored'
  BY <1>1 DEF Stored, A!Empty, Contents
<1>3. Present' = {p \in Path : stored'[p] # Missing}
  <2>1. pending' = <<>>
    BY <1>1
  <2>2. \A p \in Path : Has(stored', pending', p) <=> stored'[p] # Missing
    BY <2>1 DEF Has
  <2>. QED
    BY <1>2, <2>2, PresentHas
<1>. QED
  BY <1>1, <1>2, <1>3

-----------------------------------------------------------------------------
(* The inductive invariant *)

IterOK ==
    iter # None =>
        /\ iter.rec \in GetRecordTypes /\ iter.rec.index = NoText
        /\ iter.frames \subseteq QueryFrames(iter.rec)

\* Nothing is left to store once the archive is closed.
Settled == session = "closed" => pending = <<>>

\* Of a file that is not there nothing is stored, nor will be.
Absent == exists \/ (stored = A!Empty /\ pending = <<>> /\ session \in {"closed", "Read"})

\* No generator outlives its object.
NoIterator == object \in {"none", "opening"} => iter = None

\* The cache is the set of the records of the paths that a read finds.
Catalog == object = "open" /\ ~broken => m_records = {RecordOf(p) : p \in Present}

GInv == TypeOK /\ Stored /\ Settled /\ Absent /\ NoIterator /\ Catalog

LEMMA IterKept ==
    ASSUME IterOK, m_records \subseteq m_records', iter' = iter
    PROVE  IterOK'
BY DEF IterOK, GetRecordTypes, QueryFrames

LEMMA TypeOKIterOK == TypeOK => IterOK
BY DEF TypeOK, IterOK

\* Steps that change neither the map nor the object.
LEMMA CalmKeeps ==
    ASSUME GInv, Calm, session' = session, ~broken' => ~broken,
           UNCHANGED <<exists, object, asked, realMode, m_records>>,
           writer' \in BOOLEAN, IterOK', NoIterator'
    PROVE  GInv'
<1>1. Len(pending) \in Nat /\ Len(pending') \in Nat
  BY DEF GInv, Calm, Stored
<1>2. TypeOK'
  <2>1. Len(pending') <= MaxPending
    BY <1>1, GtarAssumption DEF GInv, Calm, TypeOK
  <2>. QED
    BY <2>1 DEF GInv, TypeOK, IterOK
<1>3. Stored'
  BY DEF Calm
<1>4. Settled'
  <2>1. ASSUME pending = <<>> PROVE pending' = <<>>
    BY <1>1, <1>3, <2>1 DEF Calm, Stored
  <2>. QED
    BY <2>1 DEF GInv, Settled
<1>5. Absent'
  BY DEF GInv, Calm, Absent
<1>6. Catalog'
  BY DEF GInv, Calm, Catalog
<1>. QED
  BY <1>2, <1>3, <1>4, <1>5, <1>6 DEF GInv

\* The same for those that leave the generator alone.
LEMMA QuietKeeps ==
    ASSUME GInv, Calm, session' = session, ~broken' => ~broken,
           UNCHANGED <<exists, object, asked, realMode, m_records, iter>>,
           writer' \in BOOLEAN
    PROVE  GInv'
<1>1. IterOK'
  BY IterKept, TypeOKIterOK DEF GInv
<1>2. NoIterator'
  BY DEF GInv, NoIterator
<1>. QED
  BY <1>1, <1>2, CalmKeeps

LEMMA InitHolds == Init => GInv
<1>. SUFFICES ASSUME Init PROVE GInv
  OBVIOUS
<1>1. Stored
  BY DEF Init, A!Init, Stored, Contents
<1>2. TypeOK
  <2>1. Len(pending) = 0
    BY DEF Init, A!Init
  <2>2. {asked, realMode} \subseteq A!Mode
    BY DEF Init, A!Mode
  <2>3. Len(pending) <= MaxPending
    BY <2>1, GtarAssumption
  <2>4. exists \in BOOLEAN /\ writer \in BOOLEAN /\ m_records = {} /\ iter = None
    BY DEF Init
  <2>5. session = "closed" /\ object = "none"
    BY DEF Init, A!Init
  <2>. QED
    BY <2>2, <2>3, <2>4, <2>5 DEF TypeOK
<1>. QED
  BY <1>1, <1>2 DEF Init, A!Init, GInv, Settled, Absent, NoIterator, Catalog

LEMMA StatKeeps ==
    ASSUME GInv, NEW m \in A!Mode, Stat(m)
    PROVE  GInv'
<1>1. realMode' \in A!Mode
  BY DEF Stat, RealMode, A!Mode
<1>2. IterOK'
  BY IterKept, TypeOKIterOK DEF GInv, Stat
<1>3. TypeOK'
  BY <1>1, <1>2 DEF GInv, TypeOK, IterOK, Stat, archive
<1>. QED
  BY <1>3 DEF GInv, Stat, archive, Stored, Settled, Absent, NoIterator, Catalog

LEMMA ConstructKeeps ==
    ASSUME GInv, Construct
    PROVE  GInv'
<1>1. realMode \in A!Mode /\ session = "closed" /\ pending = <<>> /\ iter = None
  BY DEF GInv, TypeOK, Construct, A!Open, Settled, NoIterator
<1>2. /\ Stored' /\ session' = realMode /\ UNCHANGED <<pending, broken>>
      /\ Present' = {p \in Path : stored'[p] # Missing}
      /\ stored' = IF realMode = "Write" THEN A!Empty ELSE stored
  BY <1>1, Opens DEF GInv, Construct
<1>3. m_records' = {RecordOf(p) : p \in Present'}
  BY <1>2 DEF Construct
<1>4. m_records' \subseteq {RecordOf(p) : p \in Path}
  BY <1>3 DEF Present
<1>5. TypeOK'
  <2>1. session' # "closed"
    BY <1>1, <1>2 DEF A!Mode
  <2>. QED
    BY <1>1, <1>2, <1>4, <2>1 DEF GInv, TypeOK, Construct
<1>6. Absent'
  BY <1>1, <1>2 DEF GInv, Absent, Construct, A!Mode
<1>7. Settled' /\ NoIterator' /\ Catalog'
  BY <1>1, <1>2, <1>3 DEF Settled, NoIterator, Catalog, Construct
<1>. QED
  BY <1>2, <1>5, <1>6, <1>7 DEF GInv

LEMMA ConstructThrowsKeeps ==
    ASSUME GInv, ConstructThrows
    PROVE  GInv'
<1>1. IterOK'
  BY IterKept, TypeOKIterOK DEF GInv, ConstructThrows
<1>2. TypeOK'
  BY <1>1 DEF GInv, TypeOK, IterOK, ConstructThrows, archive
<1>. QED
  BY <1>2 DEF GInv, ConstructThrows, archive, Stored, Settled, Absent, NoIterator, Catalog

LEMMA OtherProcessKeeps ==
    ASSUME GInv, NEW p \in CallerPath, NEW v \in Value, OtherProcess(p, v)
    PROVE  GInv'
<1>1. IterOK'
  BY IterKept, TypeOKIterOK DEF GInv, OtherProcess
<1>2. object \in {"none", "opening"}
  BY DEF OtherProcess
<1>3. TypeOK'
  BY <1>1, <1>2 DEF GInv, TypeOK, IterOK, OtherProcess
<1>4. Stored'
  BY DEF GInv, Stored, OtherProcess, Contents
<1>5. Settled' /\ Absent' /\ NoIterator' /\ Catalog'
  BY <1>2 DEF GInv, OtherProcess, Settled, Absent, NoIterator, Catalog
<1>. QED
  BY <1>3, <1>4, <1>5 DEF GInv

LEMMA PutKeeps ==
    ASSUME GInv, NEW p \in Path, NEW v \in Value, NEW immediate \in BOOLEAN, Put(p, v, immediate)
    PROVE  GInv'
<1>1. /\ Stored' /\ session' = session /\ broken' = broken
      /\ Len(pending') <= Len(pending) + 1
      /\ ~broken => Present' = Present \cup {p}
  BY WriteAdds DEF GInv, Put
<1>2. /\ object = "open" /\ Len(pending) < MaxPending /\ session \in {"Write", "Append"}
      /\ m_records' = m_records \cup {RecordOf(p)}
      /\ UNCHANGED <<exists, object, asked, realMode, writer, iter>>
  BY DEF Put, Inserted, A!WritePtr
<1>3. IterOK'
  BY <1>2, IterKept, TypeOKIterOK DEF GInv
<1>4. TypeOK'
  <2>1. Len(pending') <= MaxPending
    BY <1>1, <1>2, GtarAssumption DEF GInv, Stored
  <2>2. m_records' \subseteq {RecordOf(q) : q \in Path}
    BY <1>2 DEF GInv, TypeOK
  <2>. QED
    BY <1>1, <1>2, <1>3, <2>1, <2>2 DEF GInv, TypeOK, IterOK
<1>5. Catalog'
  <2>1. ASSUME ~broken' PROVE m_records' = {RecordOf(q) : q \in Present'}
    <3>1. m_records = {RecordOf(q) : q \in Present} /\ Present' = Present \cup {p}
      BY <1>1, <1>2, <2>1 DEF GInv, Catalog
    <3>. QED
      BY <1>2, <3>1
  <2>. QED
    BY <2>1 DEF Catalog
<1>6. Settled' /\ Absent' /\ NoIterator'
  BY <1>1, <1>2 DEF GInv, Settled, Absent, NoIterator
<1>. QED
  BY <1>1, <1>4, <1>5, <1>6 DEF GInv

LEMMA CallerWrites ==
    ASSUME NEW p \in CallerPath
    PROVE  p \in Path /\ GetPath(RecordOf(p)) \in Path
BY GtarAssumption

\* The object is closed, and the process may go on without it.
LEMMA EndKeeps ==
    ASSUME GInv, Stored', pending' = <<>>, session' = "closed",
           object' \in {"none", "closed"},
           exists' \in BOOLEAN, writer' \in BOOLEAN, UNCHANGED <<asked, realMode>>,
           exists' \/ stored' = A!Empty,
           \/ object' = "closed" /\ UNCHANGED <<m_records, iter>>
           \/ m_records' = {} /\ iter' = None
    PROVE  GInv'
<1>1. IterOK'
  BY IterKept, TypeOKIterOK DEF GInv, IterOK
<1>2. NoIterator'
  BY DEF NoIterator
<1>3. TypeOK'
  <2>1. Len(pending') <= MaxPending
    <3>1. Len(<<>>) = 0
      OBVIOUS
    <3>. QED
      BY <3>1, GtarAssumption
  <2>. QED
    BY <1>1, <2>1 DEF GInv, TypeOK, IterOK
<1>. QED
  BY <1>2, <1>3 DEF GInv, Settled, Absent, Catalog

LEMMA CloseKeeps ==
    ASSUME GInv, A!Close, UNCHANGED exists
    PROVE  Stored' /\ pending' = <<>> /\ session' = "closed" /\ (exists' \/ stored' = A!Empty)
<1>1. Calm /\ session' = "closed" /\ pending' = <<>>
  BY CloseIsCalm DEF GInv
<1>. QED
  BY <1>1 DEF GInv, Calm, Absent

LEMMA DestroyKeeps ==
    ASSUME GInv, Destroy
    PROVE  GInv'
<1>1. Stored' /\ pending' = <<>> /\ session' = "closed" /\ (exists' \/ stored' = A!Empty)
  <2>1. CASE object = "open"
    BY <2>1, CloseKeeps DEF Destroy
  <2>2. CASE object # "open"
    <3>1. UNCHANGED <<archive, exists>>
      BY <2>2 DEF Destroy
    <3>. QED
      BY <2>2, <3>1 DEF GInv, TypeOK, archive, Stored, Settled, Absent
  <2>. QED
    BY <2>1, <2>2
<1>2. /\ object' = "none" /\ m_records' = {} /\ iter' = None
      /\ UNCHANGED <<exists, asked, realMode, writer>>
  BY DEF Destroy
<1>3. exists \in BOOLEAN /\ writer \in BOOLEAN
  BY DEF GInv, TypeOK
<1>. QED
  BY <1>1, <1>2, <1>3, EndKeeps

LEMMA DieKeeps ==
    ASSUME GInv, Die
    PROVE  GInv'
<1>1. /\ Stored' /\ pending' = <<>> /\ session' = "closed"
      /\ stored = A!Empty /\ pending = <<>> => stored' = A!Empty
  BY Dies DEF GInv, Die
<1>2. exists' \in BOOLEAN /\ (exists' \/ stored' = A!Empty)
  BY <1>1 DEF GInv, TypeOK, Absent, Die
<1>. QED
  BY <1>1, <1>2, EndKeeps DEF Die

\* What is left of the process, if anything, holds no archive.
LEMMA CrashKeeps ==
    ASSUME GInv, object # "open", object' \in {"crashed", "terminated"},
           UNCHANGED <<archive, exists, asked, realMode, m_records, writer, iter>>
    PROVE  GInv'
<1>1. IterOK'
  BY IterKept, TypeOKIterOK DEF GInv
<1>2. TypeOK'
  BY <1>1 DEF GInv, TypeOK, IterOK, archive
<1>. QED
  BY <1>2 DEF GInv, archive, Stored, Settled, Absent, NoIterator, Catalog

\* The records without index are their own types.
LEMMA TypesHaveNoIndex ==
    ASSUME TypeOK, NEW t \in GetRecordTypes
    PROVE  t.index = NoText
<1>1. PICK p \in Path : t = WithNullifiedIndex(RecordOf(p))
  BY DEF TypeOK, GetRecordTypes
<1>. QED
  BY <1>1 DEF WithNullifiedIndex, WithIndex, RecordOf

LEMMA RecordsNamedKeeps ==
    ASSUME GInv, NEW t \in GetRecordTypes, RecordsNamed(t)
    PROVE  GInv'
<1>1. Calm /\ session' = session /\ broken' = broken
  BY UnchangedIsCalm DEF GInv, RecordsNamed, archive
<1>2. IterOK'
  <2>1. iter' = [rec |-> t, frames |-> QueryFrames(t)] /\ m_records' = m_records
    BY DEF RecordsNamed
  <2>2. t.index = NoText
    BY TypesHaveNoIndex DEF GInv
  <2>3. iter'.rec = t /\ iter'.frames = QueryFrames(t)
    BY <2>1
  <2>. QED
    BY <2>1, <2>2, <2>3 DEF IterOK, GetRecordTypes, QueryFrames
<1>3. NoIterator'
  BY DEF NoIterator, RecordsNamed
<1>. QED
  BY <1>1, <1>2, <1>3, CalmKeeps DEF RecordsNamed, GInv, TypeOK

LEMMA ReadsKeep ==
    ASSUME GInv, NEW p, ReadAt(p),
           UNCHANGED <<exists, object, asked, realMode, m_records, writer, iter>>
    PROVE  GInv'
<1>1. Calm /\ session' = session /\ (~broken' => ~broken)
  BY ReadIsCalm DEF GInv
<1>. QED
  BY <1>1, QuietKeeps DEF GInv, TypeOK

LEMMA NextRecordKeeps ==
    ASSUME GInv, NEW f, NextRecord(f)
    PROVE  GInv'
<1>1. Calm /\ session' = session /\ (~broken' => ~broken)
  BY ReadIsCalm DEF GInv, NextRecord
<1>2. /\ iter # None /\ iter' = [iter EXCEPT !.frames = @ \ {f}]
      /\ object = "open" /\ UNCHANGED <<exists, object, asked, realMode, m_records, writer>>
  BY DEF NextRecord
<1>3. IterOK'
  <2>1. IterOK
    BY TypeOKIterOK DEF GInv
  <2>2. iter'.rec = iter.rec /\ iter'.frames \subseteq iter.frames
    BY <1>2
  <2>3. m_records' = m_records
    BY <1>2
  <2>. QED
    BY <1>2, <2>1, <2>2, <2>3 DEF IterOK, GetRecordTypes, QueryFrames
<1>4. NoIterator'
  BY <1>2 DEF NoIterator
<1>. QED
  BY <1>1, <1>2, <1>3, <1>4, CalmKeeps DEF GInv, TypeOK

LEMMA DropIteratorKeeps ==
    ASSUME GInv, DropIterator
    PROVE  GInv'
<1>1. Calm /\ session' = session /\ broken' = broken
  BY UnchangedIsCalm DEF GInv, DropIterator, archive
<1>2. IterOK' /\ NoIterator'
  BY DEF DropIterator, IterOK, NoIterator
<1>. QED
  BY <1>1, <1>2, CalmKeeps DEF DropIterator, GInv, TypeOK

LEMMA NextHolds == GInv /\ [Next]_vars => GInv'
<1>. SUFFICES ASSUME GInv, [Next]_vars PROVE GInv'
  OBVIOUS
<1>. USE DEF GInv
<1>1. ASSUME NEW m \in A!Mode, Stat(m) PROVE GInv'
  BY <1>1, StatKeeps
<1>2. CASE Construct
  BY <1>2, ConstructKeeps
<1>3. CASE ConstructThrows
  BY <1>3, ConstructThrowsKeeps
<1>4. ASSUME NEW p \in CallerPath, NEW v \in Value, OtherProcess(p, v) PROVE GInv'
  BY <1>4, OtherProcessKeeps
<1>5. ASSUME NEW p \in CallerPath, NEW v \in Value, NEW immediate \in BOOLEAN,
             Write(p, v, immediate)
      PROVE  GInv'
  BY <1>5, CallerWrites, PutKeeps DEF Write
<1>6. CASE WriteThrows
  <2>1. Calm /\ session' = session /\ broken' = broken
    BY <1>6, RefusedIsCalm DEF WriteThrows
  <2>. QED
    BY <1>6, <2>1, QuietKeeps DEF WriteThrows, TypeOK
<1>7. CASE BeginBulkWrites
  <2>1. Calm /\ session' = session /\ broken' = broken
    BY <1>7, UnchangedIsCalm DEF BeginBulkWrites, archive
  <2>. QED
    BY <1>7, <2>1, QuietKeeps DEF BeginBulkWrites
<1>8. CASE EndBulkWrites
  <2>1. Calm /\ session' = session /\ broken' = broken
    BY <1>8, EndIsCalm DEF EndBulkWrites
  <2>. QED
    BY <1>8, <2>1, QuietKeeps DEF EndBulkWrites
<1>9. CASE EndBulkWritesLate
  BY <1>9, CrashKeeps DEF EndBulkWritesLate
<1>10. ASSUME NEW p \in CallerPath, Read(p) PROVE GInv'
  BY <1>10, ReadsKeep DEF Read
<1>11. ASSUME NEW t \in GetRecordTypes, StaticRecordNamed(t) PROVE GInv'
  BY <1>11, ReadsKeep DEF StaticRecordNamed
<1>12. ASSUME NEW t \in GetRecordTypes, RecordsNamed(t) PROVE GInv'
  BY <1>12, RecordsNamedKeeps
<1>13. CASE ReadTypedClosed
  BY <1>13, CrashKeeps DEF ReadTypedClosed
<1>14. ASSUME NEW f, NextRecord(f) PROVE GInv'
  BY <1>14, NextRecordKeeps
<1>15. CASE DropIterator
  BY <1>15, DropIteratorKeeps
<1>16. CASE Close
  <2>1. /\ Stored' /\ pending' = <<>> /\ session' = "closed" /\ (exists' \/ stored' = A!Empty)
    BY <1>16, CloseKeeps DEF Close
  <2>. QED
    BY <1>16, <2>1, EndKeeps DEF Close, TypeOK
<1>17. CASE Destroy
  BY <1>17, DestroyKeeps
<1>18. CASE Die
  BY <1>18, DieKeeps
<1>19. CASE UNCHANGED vars
  <2>1. Calm /\ session' = session /\ broken' = broken
    BY <1>19, UnchangedIsCalm DEF vars, archive
  <2>. QED
    BY <1>19, <2>1, QuietKeeps DEF vars, TypeOK
<1>. QED
  BY <1>1, <1>2, <1>3, <1>4, <1>5, <1>6, <1>7, <1>8, <1>9, <1>10, <1>11, <1>12, <1>13, <1>14,
     <1>15, <1>16, <1>17, <1>18, <1>19 DEF Next

LEMMA AlwaysGInv == Spec => []GInv
BY InitHolds, NextHolds, PTL DEF Spec

\* An archive is open exactly while the object holds one, its writes are bounded, and
\* records from queries "will all have empty indices" (GTAR.hpp:171-176).
THEOREM Typed == Spec => []TypeOK
<1>1. GInv => TypeOK
  BY DEF GInv
<1>. QED
  BY <1>1, AlwaysGInv, PTL

-----------------------------------------------------------------------------
(* Queries *)

\* A path that does not begin with a slash is the path of its record.
LEMMA PathIsPlain ==
    ASSUME PlainPaths, NEW p \in Path
    PROVE  GetPath(RecordOf(p)) = p
<1>1. p \in Seq(Seq(STRING)) /\ p # <<>> /\ p[1] # NoText
  BY GtarAssumption DEF PlainPaths
<1>2. Seq(STRING) \subseteq Text
  BY SeqMonotonic DEF Text, Word
<1>3. p \in Seq(Text)
  BY <1>1, <1>2, SeqMonotonic
<1>. QED
  BY <1>1, <1>3, PathReadsBack

\* A record is its fields: the index can be taken out and put back.
LEMMA FieldsOfRecord ==
    ASSUME NEW g, NEW n, NEW i, NEW h, NEW f, NEW z
    PROVE  LET r == [group |-> g, name |-> n, index |-> i, behavior |-> h, format |-> f,
                     resolution |-> z]
           IN  /\ WithIndex(WithNullifiedIndex(r), r.index) = r
               /\ WithNullifiedIndex(WithNullifiedIndex(r)) = WithNullifiedIndex(r)
BY DEF WithIndex, WithNullifiedIndex

LEMMA RecordHasFields ==
    ASSUME NEW p
    PROVE  \E g, n, i, h, f, z :
             RecordOf(p) = [group |-> g, name |-> n, index |-> i, behavior |-> h, format |-> f,
                            resolution |-> z]
<1>. DEFINE len == Len(p)
            b   == BehaviorOf(p)
            dir == p[IF b = "vars" THEN len - 1 ELSE len]
            g   == Group(SubSeq(p, 1, IF b = "constant" THEN GroupLength(p) ELSE len - 3))
            i   == CASE b = "frames" -> p[len - 1] [] b = "vars" -> p[len] [] OTHER -> NoText
            f   == IF IsTyped(dir) THEN dir[Len(dir) - 1] ELSE "u8"
            z   == IF IsTyped(dir) THEN dir[Len(dir)] ELSE "text"
<1>1. RecordOf(p) = [group |-> g, name |-> NameOf(dir), index |-> i, behavior |-> b,
                     format |-> f, resolution |-> z]
  BY DEF RecordOf
<1>. HIDE DEF len, b, dir, g, i, f, z
<1>. QED
  BY <1>1

\* The type and the index of a record are all of it.
LEMMA TypeAndIndex ==
    ASSUME NEW p, NEW q,
           WithNullifiedIndex(RecordOf(p)) = WithNullifiedIndex(RecordOf(q))
    PROVE  WithIndex(WithNullifiedIndex(RecordOf(p)), RecordOf(q).index) = RecordOf(q)
<1>1. \A x : WithIndex(WithNullifiedIndex(RecordOf(x)), RecordOf(x).index) = RecordOf(x)
  <2>. SUFFICES ASSUME NEW x
                PROVE  WithIndex(WithNullifiedIndex(RecordOf(x)), RecordOf(x).index) = RecordOf(x)
    OBVIOUS
  <2>1. PICK g, n, i, h, f, z :
          RecordOf(x) = [group |-> g, name |-> n, index |-> i, behavior |-> h, format |-> f,
                         resolution |-> z]
    BY RecordHasFields
  <2>. QED
    BY <2>1, FieldsOfRecord
<1>. QED
  BY <1>1

LEMMA NullifiedTwice ==
    ASSUME NEW p
    PROVE  WithNullifiedIndex(WithNullifiedIndex(RecordOf(p))) = WithNullifiedIndex(RecordOf(p))
<1>1. PICK g, n, i, h, f, z :
        RecordOf(p) = [group |-> g, name |-> n, index |-> i, behavior |-> h, format |-> f,
                       resolution |-> z]
  BY RecordHasFields
<1>. QED
  BY <1>1, FieldsOfRecord

\* The frames of a type are those of the records of the type.
LEMMA FramesOfType ==
    ASSUME TypeOK, NEW t \in GetRecordTypes
    PROVE  /\ WithNullifiedIndex(t) = t
           /\ QueryFrames(t) = {r.index : r \in {s \in m_records : WithNullifiedIndex(s) = t}}
<1>1. PICK p \in Path : t = WithNullifiedIndex(RecordOf(p))
  BY DEF TypeOK, GetRecordTypes
<1>2. WithNullifiedIndex(t) = t
  BY <1>1, NullifiedTwice
<1>. QED
  BY <1>2 DEF QueryFrames

\* What a type and one of its frames stand for is a record in the cache.
LEMMA FrameIsRecord ==
    ASSUME TypeOK, NEW t \in GetRecordTypes, NEW f \in QueryFrames(t)
    PROVE  WithIndex(t, f) \in m_records
<1>1. PICK s \in m_records : s.index = f /\ WithNullifiedIndex(s) = t
  BY FramesOfType
<1>2. PICK q \in Path : s = RecordOf(q)
  BY DEF TypeOK
<1>3. WithIndex(WithNullifiedIndex(RecordOf(q)), RecordOf(q).index) = RecordOf(q)
  BY TypeAndIndex
<1>. QED
  BY <1>1, <1>2, <1>3

\* Every record in the cache is found by its type and its frame.
LEMMA RecordIsFrame ==
    ASSUME TypeOK, NEW s \in m_records
    PROVE  \E t \in GetRecordTypes : s.index \in QueryFrames(t) /\ WithIndex(t, s.index) = s
<1>1. PICK q \in Path : s = RecordOf(q)
  BY DEF TypeOK
<1>. DEFINE t == WithNullifiedIndex(s)
<1>2. t \in GetRecordTypes
  BY DEF GetRecordTypes
<1>3. s.index \in QueryFrames(t)
  BY <1>2, FramesOfType
<1>4. WithIndex(t, s.index) = s
  BY <1>1, TypeAndIndex
<1>. QED
  BY <1>2, <1>3, <1>4

\* Queries enumerate the archive: every path that a read finds, and no other.
THEOREM CatalogComplete ==
    ASSUME PlainPaths
    PROVE  Spec => []Cataloged
<1>1. GInv => Cataloged
  <2>. SUFFICES ASSUME GInv, object = "open", ~broken
                PROVE  Enumerated = Present
    BY DEF Cataloged
  <2>1. TypeOK /\ m_records = {RecordOf(p) : p \in Present}
    BY DEF GInv, Catalog
  <2>2. ASSUME NEW x \in Enumerated PROVE x \in Present
    <3>0. PICK t \in GetRecordTypes : \E f \in QueryFrames(t) : x = GetPath(WithIndex(t, f))
      BY DEF Enumerated
    <3>1. PICK f \in QueryFrames(t) : x = GetPath(WithIndex(t, f))
      BY <3>0
    <3>2. PICK p \in Present : WithIndex(t, f) = RecordOf(p)
      BY <2>1, FrameIsRecord
    <3>3. p \in Path
      BY DEF Present
    <3>. QED
      BY <3>1, <3>2, <3>3, PathIsPlain
  <2>3. ASSUME NEW p \in Present PROVE p \in Enumerated
    <3>1. p \in Path /\ RecordOf(p) \in m_records
      BY <2>1 DEF Present
    <3>2. PICK t \in GetRecordTypes :
            RecordOf(p).index \in QueryFrames(t) /\ WithIndex(t, RecordOf(p).index) = RecordOf(p)
      BY <2>1, <3>1, RecordIsFrame
    <3>3. GetPath(WithIndex(t, RecordOf(p).index)) = p
      BY <3>1, <3>2, PathIsPlain
    <3>. QED
      BY <3>2, <3>3 DEF Enumerated
  <2>. QED
    BY <2>2, <2>3
<1>. QED
  BY <1>1, AlwaysGInv, PTL

\* Of a name with one type, the frames of that type are the frames that hold the name.
LEMMA FramesOfName ==
    ASSUME GInv, object = "open", ~broken,
           NEW n, NEW groups, NEW t \in Named(n, groups),
           \A s \in Named(n, groups) : s = t
    PROVE  QueryFrames(t) =
             {RecordOf(p).index : p \in
                {q \in Present : RecordOf(q).name = n /\ RecordOf(q).group \in groups}}
<1>1. TypeOK /\ m_records = {RecordOf(p) : p \in Present}
  BY DEF GInv, Catalog
<1>2. t \in GetRecordTypes /\ t.name = n /\ t.group \in groups
  BY DEF Named
<1>3. QueryFrames(t) = {r.index : r \in {s \in m_records : WithNullifiedIndex(s) = t}}
  BY <1>1, <1>2, FramesOfType
<1>4. ASSUME NEW q \in Present
      PROVE  WithNullifiedIndex(RecordOf(q)) = t
               <=> RecordOf(q).name = n /\ RecordOf(q).group \in groups
  <2>. DEFINE u == WithNullifiedIndex(RecordOf(q))
  <2>1. u \in GetRecordTypes
    BY <1>1 DEF GetRecordTypes
  <2>2. u.name = RecordOf(q).name /\ u.group = RecordOf(q).group
    BY DEF WithNullifiedIndex, WithIndex, RecordOf
  <2>. HIDE DEF u
  <2>3. ASSUME u.name = n, u.group \in groups PROVE u = t
    BY <2>1, <2>3 DEF Named
  <2>4. u = t <=> u.name = n /\ u.group \in groups
    BY <1>2, <2>3
  <2>. QED
    BY <2>2, <2>4 DEF u
<1>. QED
  BY <1>1, <1>3, <1>4

\* Whatever the names and the groups, the frames of the types that were taken for the
\* names are the frames that hold them all (_gtar.pyx:644-731).
THEOREM FramesAreFound == Spec => []FramesFound
<1>1. GInv => FramesFound
  <2>. SUFFICES ASSUME GInv, object = "open", ~broken,
                       NEW names \in SUBSET Names \ {{}}, NEW groups \in SUBSET Groups,
                       \A n \in names : \A s, t \in Named(n, groups) : s = t,
                       NEW choice \in [names -> GetRecordTypes],
                       \A n \in names : choice[n] \in Named(n, groups)
                PROVE  FramesOfAll({choice[n] : n \in names}) = FramesHolding(names, groups)
    BY DEF FramesFound, FindsFrames
  <2>. DEFINE in(n) == {RecordOf(p).index : p \in
                {q \in Present : RecordOf(q).name = n /\ RecordOf(q).group \in groups}}
              recs == {choice[n] : n \in names}
  <2>1. ASSUME NEW n \in names PROVE QueryFrames(choice[n]) = in(n)
    BY FramesOfName
  <2>. HIDE DEF in
  <2>2. FramesOfAll(recs) = {f \in UNION {in(n) : n \in names} : \A n \in names : f \in in(n)}
    BY <2>1 DEF FramesOfAll, FramesOfAny
  <2>. QED
    BY <2>2 DEF FramesHolding, in
<1>. QED
  BY <1>1, AlwaysGInv, PTL

\* Each value of a generator is what the archive holds for its record when it is asked
\* for, whatever was written since (_gtar.pyx:726-731).
THEOREM GeneratorYieldsStored ==
    ASSUME PlainPaths
    PROVE  Spec => YieldsStored
<1>. DEFINE Yield ==
        iter # None /\ iter' # None /\ ~broken' =>
         \A f \in iter.frames \ iter'.frames :
            \E p \in Present :
                /\ RecordOf(p) = WithIndex(iter.rec, f)
                /\ A!Visible[p] \in {reply', Damaged}
<1>1. GInv /\ [Next]_vars => [Yield]_vars
  <2>. SUFFICES ASSUME GInv, Next, iter # None, iter' # None, ~broken',
                       NEW f \in iter.frames \ iter'.frames
                PROVE  \E p \in Present :
                         /\ RecordOf(p) = WithIndex(iter.rec, f)
                         /\ A!Visible[p] \in {reply', Damaged}
    OBVIOUS
  <2>1. iter' # iter
    OBVIOUS
  <2>2. \E g \in iter.frames : NextRecord(g)
    BY <2>1 DEF Next, Stat, Construct, ConstructThrows, OtherProcess, Write, Put, WriteThrows,
                BeginBulkWrites, EndBulkWrites, EndBulkWritesLate, Read, StaticRecordNamed,
                RecordsNamed, ReadTypedClosed, DropIterator, Close, Destroy, Die
  <2>3. PICK g \in iter.frames : NextRecord(g)
    BY <2>2
  <2>4. f = g
    BY <2>3 DEF NextRecord
  <2>5. object = "open" /\ ReadAt(GetPath(WithIndex(iter.rec, f)))
    BY <2>3, <2>4 DEF NextRecord, InFrame
  <2>6. ~broken
    BY <2>5, ReadIsCalm DEF GInv
  <2>7. WithIndex(iter.rec, f) \in m_records
    BY FrameIsRecord DEF GInv, TypeOK
  <2>8. PICK p \in Present : WithIndex(iter.rec, f) = RecordOf(p)
    BY <2>5, <2>6, <2>7 DEF GInv, Catalog
  <2>9. p \in Path
    BY DEF Present
  <2>10. A!Read(p)
    BY <2>5, <2>8, <2>9, PathIsPlain DEF ReadAt
  <2>11. A!Visible[p] \in {reply', Damaged}
    BY <2>6, <2>10 DEF A!Read
  <2>. QED
    BY <2>8, <2>11
<1>. QED
  BY <1>1, AlwaysGInv, PTL DEF Spec, YieldsStored

\* When no other process writes while the constructor runs, the file that it saw is
\* the file that it opens.
Unraced ==
    object = "opening" /\ asked = "Append" /\ realMode # "Append" => stored = A!Empty

\* Opening for append keeps every record, with contents of any size and a history of
\* any length, when no other process interferes (_gtar.pyx:399).
THEOREM AppendKeepsAll ==
    ASSUME ~OthersRace
    PROVE  Spec => AppendKeeps
<1>1. Init => Unraced
  BY DEF Init, Unraced
<1>2. GInv /\ Unraced /\ [Next]_vars => Unraced'
  <2>. SUFFICES ASSUME GInv, Unraced, [Next]_vars,
                       object' = "opening", asked' = "Append", realMode' # "Append"
                PROVE  stored' = A!Empty
    BY DEF Unraced
  <2>1. ASSUME NEW m \in A!Mode, Stat(m) PROVE stored' = A!Empty
    BY <2>1 DEF Stat, RealMode, GInv, Absent, archive
  <2>2. CASE UNCHANGED vars
    BY <2>2 DEF vars, archive, Unraced
  <2>3. ASSUME object = "opening", object' = object PROVE FALSE \/ UNCHANGED vars
    BY <2>3 DEF Next, Stat, Construct, ConstructThrows, OtherProcess, Write, Put, WriteThrows,
                BeginBulkWrites, EndBulkWrites, EndBulkWritesLate, Read, StaticRecordNamed,
                RecordsNamed, ReadTypedClosed, NextRecord, DropIterator, Close, Destroy, Die,
                GInv, NoIterator
  <2>4. ASSUME object # "opening" PROVE \E m \in A!Mode : Stat(m)
    BY <2>4 DEF Next, Stat, Construct, ConstructThrows, OtherProcess, Write, Put, WriteThrows,
                BeginBulkWrites, EndBulkWrites, EndBulkWritesLate, Read, StaticRecordNamed,
                RecordsNamed, ReadTypedClosed, NextRecord, DropIterator, Close, Destroy, Die,
                vars
  <2>. QED
    BY <2>1, <2>2, <2>3, <2>4
<1>. DEFINE Kept ==
        object = "opening" /\ object' = "open" /\ asked = "Append" =>
            \A p \in Path : stored[p] # Missing => stored'[p] = stored[p]
<1>3. GInv /\ Unraced /\ [Next]_vars => [Kept]_vars
  <2>. SUFFICES ASSUME GInv, Unraced, Next,
                       object = "opening", object' = "open", asked = "Append",
                       NEW p \in Path, stored[p] # Missing
                PROVE  stored'[p] = stored[p]
    OBVIOUS
  <2>1. Construct
    BY DEF Next, Stat, Construct, ConstructThrows, OtherProcess, Write, Put, WriteThrows,
           BeginBulkWrites, EndBulkWrites, EndBulkWritesLate, Read, StaticRecordNamed,
           RecordsNamed, ReadTypedClosed, NextRecord, DropIterator, Close, Destroy, Die
  <2>2. stored # A!Empty
    BY DEF A!Empty
  <2>3. realMode = "Append"
    BY <2>2 DEF Unraced
  <2>. QED
    BY <2>1, <2>3 DEF Construct, A!Open
<1>. QED
  BY <1>1, <1>2, <1>3, AlwaysGInv, PTL DEF Spec, AppendKeeps
=============================================================================
