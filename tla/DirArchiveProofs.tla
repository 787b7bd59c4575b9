-------------------------- MODULE DirArchiveProofs --------------------------
(***************************************************************************)
(* What holds of the directory backend for any processes, paths, contents  *)
(* and initial files: the types, that a search finds every file, and that  *)
(* every path is a safe register.                                          *)
(***************************************************************************)
EXTENDS DirArchiveRefinement, RecordLemmas

-----------------------------------------------------------------------------
(* Paths *)

LEMMA ShortPrefix ==
    ASSUME NEW x \in Seq(Name), NEW k \in 0..Len(x)
    PROVE  /\ SubSeq(x, 1, k) \in Seq(Name) /\ Len(SubSeq(x, 1, k)) = k
           /\ \A j \in 0..k : SubSeq(SubSeq(x, 1, k), 1, j) = SubSeq(x, 1, j)
           /\ \A i \in 1..k : SubSeq(x, 1, k)[i] = x[i]
<1>1. SubSeq(x, 1, k) \in Seq(Name) /\ Len(SubSeq(x, 1, k)) = k /\ \A i \in 1..k : SubSeq(x, 1, k)[i] = x[i]
  OBVIOUS
<1>2. ASSUME NEW j \in 0..k
      PROVE  SubSeq(SubSeq(x, 1, k), 1, j) = SubSeq(x, 1, j)
  <2>1. j \in 0..Len(x) /\ j \in 0..Len(SubSeq(x, 1, k)) /\ 1..j \subseteq 1..k
    BY <1>1
  <2>2. LET y == SubSeq(SubSeq(x, 1, k), 1, j)
        IN  y \in Seq(Name) /\ Len(y) = j /\ \A i \in 1..j : y[i] = SubSeq(x, 1, k)[i]
    BY <1>1, <2>1, Prefix
  <2>3. LET z == SubSeq(x, 1, j)
        IN  z \in Seq(Name) /\ Len(z) = j /\ \A i \in 1..j : z[i] = x[i]
    BY <2>1, Prefix
  <2>. QED
    BY <1>1, <2>1, <2>2, <2>3, SeqEqual
<1>. QED
  BY <1>1, <1>2

LEMMA FrontIsPrefix ==
    ASSUME NEW x \in Seq(Name), x # <<>>
    PROVE  Front(x) = SubSeq(x, 1, Len(x) - 1) /\ Len(x) - 1 \in 0..Len(x) /\ Len(Front(x)) = Len(x) - 1
<1>1. Len(x) \in Nat /\ Len(x) # 0
  OBVIOUS
<1>2. Len(x) - 1 \in 0..Len(x)
  BY <1>1
<1>. QED
  BY <1>2, ShortPrefix DEF Front

\* Two files of one archive have two paths.
LEMMA FilesDiffer ==
    ASSUME NEW x \in Seq(Name), NEW y \in Seq(Name)
    PROVE  /\ File(x) \in Seq(Name) /\ Len(File(x)) = Len(Root) + Len(x)
           /\ File(x) = File(y) => x = y
           /\ x # <<>> => File(x) # Root
<1>1. Root \in Seq(Name)
  BY DirAssumption
<1>2. File(x) \in Seq(Name) /\ Len(File(x)) = Len(Root) + Len(x) /\ \A i \in 1..Len(x) : File(x)[Len(Root) + i] = x[i]
  BY <1>1 DEF File
<1>3. Len(File(y)) = Len(Root) + Len(y) /\ \A i \in 1..Len(y) : File(y)[Len(Root) + i] = y[i]
  BY <1>1 DEF File
<1>4. ASSUME File(x) = File(y)
      PROVE  x = y
  <2>1. Len(Root) \in Nat /\ Len(x) = Len(y)
    BY <1>1, <1>2, <1>3, <1>4
  <2>2. \A i \in 1..Len(x) : x[i] = y[i]
    BY <1>2, <1>3, <1>4, <2>1
  <2>. QED
    BY <2>1, <2>2
<1>5. x # <<>> => Len(File(x)) # Len(Root)
  BY <1>1, <1>2
<1>. QED
  BY <1>2, <1>4, <1>5

LEMMA PathIsFile ==
    ASSUME NEW p \in Path
    PROVE  /\ p \in Seq(Name) /\ p # <<>> /\ File(p) \in Seq(Name) /\ File(p) # <<>> /\ File(p) # Root
           /\ \A q \in Path : File(p) = File(q) => p = q
<1>1. p \in Seq(Name) /\ p # <<>> /\ \A q \in Path : q \in Seq(Name)
  BY DirAssumption
<1>2. File(p) \in Seq(Name) /\ Len(File(p)) = Len(Root) + Len(p) /\ File(p) # Root
  BY <1>1, FilesDiffer
<1>3. Root \in Seq(Name)
  BY DirAssumption
<1>4. File(p) # <<>>
  BY <1>1, <1>2, <1>3
<1>. QED
  BY <1>1, <1>2, <1>4, FilesDiffer

-----------------------------------------------------------------------------
(* Trees *)

\* What can happen to a tree without a write: directories are made.
Grows(f, g) ==
    /\ IsTree(g) /\ DOMAIN f \subseteq DOMAIN g
    /\ \A x \in DOMAIN f : g[x] = f[x]
    /\ \A x \in DOMAIN g \ DOMAIN f : g[x] = Dir

LEMMA AboveIsDir ==
    ASSUME NEW f, IsTree(f), NEW x \in DOMAIN f, NEW k \in 0..(Len(x) - 1)
    PROVE  SubSeq(x, 1, k) \in DOMAIN f /\ f[SubSeq(x, 1, k)] = Dir
BY DEF IsTree

LEMMA GrowsItself ==
    ASSUME NEW f, IsTree(f)
    PROVE  Grows(f, f)
BY DEF Grows

LEMMA GrowsOn ==
    ASSUME NEW f, NEW g, NEW h, Grows(f, g), Grows(g, h)
    PROVE  Grows(f, h)
<1>1. \A x \in DOMAIN h \ DOMAIN f : h[x] = Dir
  BY DEF Grows
<1>. QED
  BY <1>1 DEF Grows

\* x can come into being, or be written.
HasRoom(f, x) ==
    /\ x = <<>> \/ (Front(x) \in DOMAIN f /\ f[Front(x)] = Dir)
    /\ x \in DOMAIN f => f[x] # Dir

\* A new file or directory below a directory, or another content for a file.
LEMMA PutKeepsTree ==
    ASSUME NEW f, IsTree(f), NEW x \in Seq(Name), NEW c \in {Dir} \cup Seq(Byte), HasRoom(f, x)
    PROVE  /\ IsTree(Put(f, x, c)) /\ DOMAIN Put(f, x, c) = DOMAIN f \cup {x}
           /\ Put(f, x, c)[x] = c /\ \A y \in DOMAIN f : y # x => Put(f, x, c)[y] = f[y]
<1>. DEFINE g == Put(f, x, c)
<1>1. DOMAIN g = DOMAIN f \cup {x} /\ g[x] = c /\ \A y \in DOMAIN f : y # x => g[y] = f[y]
  BY DEF Put
<1>2. ASSUME NEW y \in DOMAIN f, f[y] = Dir
      PROVE  y \in DOMAIN g /\ g[y] = Dir
  <2>1. y # x
    BY <1>2 DEF HasRoom
  <2>. QED
    BY <1>1, <1>2, <2>1
<1>. HIDE DEF g
<1>3. ASSUME NEW k \in 0..(Len(x) - 1)
      PROVE  SubSeq(x, 1, k) \in DOMAIN f /\ f[SubSeq(x, 1, k)] = Dir
  <2>1. x # <<>> /\ Len(x) \in Nat
    BY <1>3
  <2>2. Front(x) = SubSeq(x, 1, Len(x) - 1) /\ Len(Front(x)) = Len(x) - 1 /\ Len(x) - 1 \in 0..Len(x)
    BY <2>1, FrontIsPrefix
  <2>3. Front(x) \in DOMAIN f /\ f[Front(x)] = Dir
    BY <2>1 DEF HasRoom
  <2>4. CASE k = Len(x) - 1
    BY <2>2, <2>3, <2>4
  <2>5. CASE k < Len(x) - 1
    <3>1. k \in 0..(Len(Front(x)) - 1)
      BY <1>3, <2>1, <2>2, <2>5
    <3>2. SubSeq(Front(x), 1, k) = SubSeq(x, 1, k)
      <4>1. k \in 0..(Len(x) - 1)
        BY <1>3
      <4>. QED
        BY <2>2, <4>1, ShortPrefix
    <3>3. SubSeq(Front(x), 1, k) \in DOMAIN f /\ f[SubSeq(Front(x), 1, k)] = Dir
      <4>. DEFINE above == Front(x)
      <4>1. above \in DOMAIN f /\ k \in 0..(Len(above) - 1)
        BY <2>3, <3>1
      <4>. HIDE DEF above
      <4>2. SubSeq(above, 1, k) \in DOMAIN f /\ f[SubSeq(above, 1, k)] = Dir
        BY <4>1, AboveIsDir
      <4>. QED
        BY <4>2 DEF above
    <3>. QED
      BY <3>2, <3>3
  <2>. QED
    BY <1>3, <2>1, <2>4, <2>5
<1>4. IsTree(g)
  <2>. SUFFICES ASSUME NEW y \in DOMAIN g
                PROVE  /\ y \in Seq(Name) /\ (g[y] = Dir \/ g[y] \in Seq(Byte))
                       /\ \A k \in 0..(Len(y) - 1) : SubSeq(y, 1, k) \in DOMAIN g /\ g[SubSeq(y, 1, k)] = Dir
    BY DEF IsTree
  <2>1. CASE y = x
    BY <1>1, <1>2, <1>3, <2>1
  <2>2. CASE y # x
    <3>1. y \in DOMAIN f /\ g[y] = f[y]
      BY <1>1, <2>2
    <3>. QED
      BY <1>2, <3>1 DEF IsTree
  <2>. QED
    BY <2>1, <2>2
<1>. QED
  BY <1>1, <1>4 DEF g

LEMMA MkdirGrows ==
    ASSUME NEW f, IsTree(f), NEW x \in Seq(Name)
    PROVE  Grows(f, Mkdir(f, x))
<1>1. CASE x \notin DOMAIN f /\ (x = <<>> \/ (Front(x) \in DOMAIN f /\ f[Front(x)] = Dir))
  <2>1. Mkdir(f, x) = Put(f, x, Dir)
    BY <1>1 DEF Mkdir
  <2>2. /\ IsTree(Put(f, x, Dir)) /\ DOMAIN Put(f, x, Dir) = DOMAIN f \cup {x}
        /\ Put(f, x, Dir)[x] = Dir /\ \A y \in DOMAIN f : y # x => Put(f, x, Dir)[y] = f[y]
    <3>1. HasRoom(f, x) /\ Dir \in {Dir} \cup Seq(Byte)
      BY <1>1 DEF HasRoom
    <3>. QED
      BY <3>1, PutKeepsTree
  <2>. QED
    BY <1>1, <2>1, <2>2 DEF Grows
<1>2. CASE ~(x \notin DOMAIN f /\ (x = <<>> \/ (Front(x) \in DOMAIN f /\ f[Front(x)] = Dir)))
  <2>1. Mkdir(f, x) = f
    BY <1>2 DEF Mkdir
  <2>. QED
    BY <2>1, GrowsItself
<1>. QED
  BY <1>1, <1>2

\* Making the directories above a path takes nothing away.
LEMMA PreparedGrows ==
    ASSUME IsTree(node), NEW q, NEW p \in Path
    PROVE  Grows(node, Prepared(q, p))
<1>. DEFINE n == Len(p) - 1
            Turn(g, i) == IF i = 0 THEN node
                          ELSE IF SubSeq(p, 1, i) \in m_createdDirectories[q] THEN g[i - 1]
                          ELSE Mkdir(g[i - 1], File(SubSeq(p, 1, i)))
            Upto(k, g) == g = [i \in 0..k |-> Turn(g, i)]
            made == CHOOSE g : Upto(n, g)
<1>1. n \in Nat /\ Len(p) \in Nat /\ p \in Seq(Name)
  <2>1. p \in Seq(Name) /\ p # <<>>
    BY PathIsFile
  <2>. QED
    BY <2>1
<1>2. Prepared(q, p) = made[n]
  BY DEF Prepared
<1>3. ASSUME NEW i \in 0..n, NEW g, NEW h, i > 0 => g[i - 1] = h[i - 1]
      PROVE  Turn(g, i) = Turn(h, i)
  BY <1>3
<1>4. ASSUME NEW i \in 0..n, NEW g, i > 0, Grows(node, g[i - 1])
      PROVE  Grows(node, Turn(g, i))
  <2>1. File(SubSeq(p, 1, i)) \in Seq(Name)
    <3>1. i \in 0..Len(p)
      BY <1>1
    <3>. QED
      BY <1>1, <3>1, ShortPrefix, FilesDiffer
  <2>2. Grows(g[i - 1], Mkdir(g[i - 1], File(SubSeq(p, 1, i))))
    BY <1>4, <2>1, MkdirGrows DEF Grows
  <2>. QED
    BY <1>4, <2>2, GrowsOn
<1>5. \A g : Turn(g, 0) = node
  OBVIOUS
<1>. HIDE DEF Turn, n
<1>6. \A k \in 0..n : \E g : Upto(k, g)
  <2>. DEFINE bad == {k \in 0..n : ~ \E g : Upto(k, g)}
  <2>. SUFFICES ASSUME bad # {} PROVE FALSE
    OBVIOUS
  <2>1. PICK k \in bad : \A j \in bad : k <= j
    <3>1. bad \in SUBSET Nat
      BY <1>1
    <3>. HIDE DEF bad
    <3>. QED
      BY <3>1, LeastElement
  <2>2. k \in 0..n /\ k \in Nat
    BY <1>1
  <2>3. CASE k = 0
    <3>. DEFINE g == [i \in 0..0 |-> node]
    <3>1. g = [i \in 0..0 |-> Turn(g, i)]
      BY <1>5
    <3>. QED
      BY <2>3, <3>1
  <2>4. CASE k # 0
    <3>1. k - 1 \in 0..n /\ ~(k <= k - 1)
      BY <1>1, <2>2, <2>4
    <3>2. k - 1 \notin bad
      BY <2>1, <3>1
    <3>3. PICK g : Upto(k - 1, g)
      BY <3>1, <3>2
    <3>. DEFINE h == [i \in 0..k |-> IF i < k THEN g[i] ELSE Turn(g, k)]
    <3>4. ASSUME NEW i \in 0..k
          PROVE  h[i] = Turn(h, i)
      <4>1. i \in 0..n /\ i \in Nat
        BY <1>1, <2>2, <3>4
      <4>2. i > 0 => g[i - 1] = h[i - 1]
        BY <4>1, <3>4, <2>2
      <4>3. Turn(g, i) = Turn(h, i)
        <5>. HIDE DEF h
        <5>. QED
          BY <1>3, <4>1, <4>2
      <4>4. CASE i < k
        <5>1. i \in 0..(k - 1)
          BY <4>1, <4>4, <2>2
        <5>2. g[i] = Turn(g, i)
          BY <3>3, <5>1
        <5>3. h[i] = g[i]
          BY <4>4
        <5>. QED
          BY <4>3, <5>2, <5>3
      <4>5. CASE i = k
        <5>1. h[i] = Turn(g, k)
          BY <4>5, <4>1
        <5>. QED
          BY <4>3, <4>5, <5>1
      <4>. QED
        BY <4>1, <4>4, <4>5, <2>2
    <3>5. h = [i \in 0..k |-> h[i]]
      OBVIOUS
    <3>6. Upto(k, h)
      <4>. HIDE DEF h
      <4>1. [i \in 0..k |-> h[i]] = [i \in 0..k |-> Turn(h, i)]
        BY <3>4
      <4>. QED
        BY <3>5, <4>1
    <3>7. \E f : Upto(k, f)
      <4>. HIDE DEF h, Upto
      <4>. QED
        BY <3>6
    <3>. QED
      BY <3>7
  <2>. QED
    BY <2>3, <2>4
<1>7. made = [i \in 0..n |-> Turn(made, i)]
  <2>1. \E g : Upto(n, g)
    <3>1. n \in 0..n
      BY <1>1
    <3>. HIDE DEF Upto
    <3>. QED
      BY <1>6, <3>1
  <2>2. Upto(n, made)
    <3>. HIDE DEF Upto
    <3>. QED
      BY <2>1
  <2>. QED
    BY <2>2
<1>. HIDE DEF made
<1>8. \A k \in 0..n : Grows(node, made[k])
  <2>. DEFINE bad == {k \in 0..n : ~Grows(node, made[k])}
  <2>. SUFFICES ASSUME bad # {} PROVE FALSE
    OBVIOUS
  <2>1. PICK k \in bad : \A j \in bad : k <= j
    <3>1. bad \in SUBSET Nat
      BY <1>1
    <3>. HIDE DEF bad
    <3>. QED
      BY <3>1, LeastElement
  <2>2. k \in 0..n /\ k \in Nat /\ made[k] = Turn(made, k)
    BY <1>1, <1>7
  <2>3. k # 0
    <3>1. made[0] = node
      BY <1>1, <1>5, <1>7
    <3>. QED
      BY <3>1, GrowsItself
  <2>4. k - 1 \in 0..n /\ ~(k <= k - 1) /\ k > 0
    BY <1>1, <2>2, <2>3
  <2>5. k - 1 \notin bad
    BY <2>1, <2>4
  <2>6. Grows(node, made[k - 1])
    BY <2>4, <2>5
  <2>. QED
    BY <1>4, <2>2, <2>4, <2>6
<1>. QED
  BY <1>1, <1>2, <1>8

-----------------------------------------------------------------------------
(* Types *)

Modes == {"closed", "Read", "Write", "Append"}
AnyCall == Writing \cup Reading \cup {Idle}

\* A step keeps what is there, files as files.
Keeps(f, g) ==
    /\ IsTree(g) /\ DOMAIN f \subseteq DOMAIN g
    /\ \A x \in DOMAIN f : g[x] = Dir <=> f[x] = Dir

\* A closed archive has nothing of a session left; a call has its file, and room for its name.
Calls(q) ==
    /\ m_mode[q] = "closed" => search[q] = <<>> /\ call[q] = Idle /\ m_fileNames[q] = <<>>
    /\ call[q] # Idle => search[q] = <<>> /\ File(call[q].path) \in DOMAIN node /\ node[File(call[q].path)] # Dir
    /\ call[q] # Idle /\ call[q].op = "write" => Len(m_fileNames[q]) < MaxNames

IInv == TypeOK /\ \A q \in Proc : Calls(q)

\* What the invariant says of one process.
Local(q) ==
    /\ m_mode[q] \in Modes
    /\ m_fileNames[q] \in Seq(Seq(Name)) /\ Len(m_fileNames[q]) <= MaxNames
    /\ m_createdDirectories[q] \in SUBSET UNION {Segments(p) : p \in Path}
    /\ search[q] \in Seq(SUBSET DOMAIN node)
    /\ call[q] \in AnyCall
    /\ Calls(q)

\* Only q's part of the state changes.
Only(q) ==
    /\ m_mode' = [m_mode EXCEPT ![q] = m_mode'[q]]
    /\ m_fileNames' = [m_fileNames EXCEPT ![q] = m_fileNames'[q]]
    /\ m_createdDirectories' = [m_createdDirectories EXCEPT ![q] = m_createdDirectories'[q]]
    /\ search' = [search EXCEPT ![q] = search'[q]]
    /\ call' = [call EXCEPT ![q] = call'[q]]

LEMMA LocalHolds ==
    ASSUME IInv, NEW q \in Proc
    PROVE  Local(q)
BY DEF IInv, TypeOK, Local, Modes, AnyCall

LEMMA ActsAreKnown ==
    ASSUME NEW q \in Proc, NEW c \in AnyCall
    PROVE  /\ c # Idle /\ c.op = "write" => c \in Writing
           /\ c # Idle /\ c.op = "read" => c \in Reading
           /\ c # Idle => c.path \in Path
           /\ c # Idle => c.op = "write" \/ c.op = "read"
BY DEF AnyCall, Writing, Reading

LEMMA GrowsKeeps ==
    ASSUME NEW f, NEW g, Grows(f, g)
    PROVE  Keeps(f, g)
BY DEF Grows, Keeps

LEMMA KeepsItself ==
    ASSUME IInv
    PROVE  Keeps(node, node)
BY DEF Keeps, IInv, TypeOK

\* One process acts, and the others find what they had.
LEMMA OneActs ==
    ASSUME IInv, NEW q \in Proc, Only(q), Keeps(node, node'), Local(q)'
    PROVE  IInv'
<1>1. /\ m_mode \in [Proc -> Modes]
      /\ m_fileNames \in [Proc -> Seq(Seq(Name))]
      /\ m_createdDirectories \in [Proc -> SUBSET UNION {Segments(p) : p \in Path}]
      /\ search \in [Proc -> Seq(SUBSET DOMAIN node)]
      /\ call \in [Proc -> AnyCall]
  BY DEF IInv, TypeOK, Modes, AnyCall
<1>2. ASSUME NEW r \in Proc, r # q
      PROVE  /\ m_mode'[r] = m_mode[r] /\ m_fileNames'[r] = m_fileNames[r]
             /\ m_createdDirectories'[r] = m_createdDirectories[r]
             /\ search'[r] = search[r] /\ call'[r] = call[r]
  BY <1>1, <1>2 DEF Only
<1>3. ASSUME NEW r \in Proc
      PROVE  Local(r)'
  <2>1. CASE r = q
    BY <2>1
  <2>2. CASE r # q
    <3>1. Local(r)
      BY LocalHolds
    <3>2. search[r] \in Seq(SUBSET DOMAIN node')
      <4>1. SUBSET DOMAIN node \subseteq SUBSET DOMAIN node'
        BY DEF Keeps
      <4>2. \A S, T : S \subseteq T => Seq(S) \subseteq Seq(T)
        BY SeqMonotonic
      <4>. QED
        BY <3>1, <4>1, <4>2 DEF Local
    <3>3. Calls(r)'
      BY <1>2, <2>2, <3>1 DEF Local, Calls, Keeps
    <3>. QED
      BY <1>2, <2>2, <3>1, <3>2, <3>3 DEF Local
  <2>. QED
    BY <2>1, <2>2
<1>4. /\ m_mode' \in [Proc -> Modes]
      /\ m_fileNames' \in [Proc -> Seq(Seq(Name))]
      /\ m_createdDirectories' \in [Proc -> SUBSET UNION {Segments(p) : p \in Path}]
      /\ search' \in [Proc -> Seq(SUBSET DOMAIN node')]
      /\ call' \in [Proc -> AnyCall]
  <2>1. /\ m_mode' = [r \in Proc |-> m_mode'[r]]
        /\ m_fileNames' = [r \in Proc |-> m_fileNames'[r]]
        /\ m_createdDirectories' = [r \in Proc |-> m_createdDirectories'[r]]
        /\ search' = [r \in Proc |-> search'[r]]
        /\ call' = [r \in Proc |-> call'[r]]
    BY <1>1 DEF Only
  <2>. QED
    BY <1>3, <2>1 DEF Local
<1>5. TypeOK'
  <2>1. \A r \in Proc : Len(m_fileNames'[r]) <= MaxNames
    BY <1>3 DEF Local
  <2>. QED
    BY <1>4, <2>1 DEF TypeOK, Keeps, Modes, AnyCall
<1>6. \A r \in Proc : Calls(r)'
  BY <1>3 DEF Local
<1>. QED
  BY <1>5, <1>6 DEF IInv

LEMMA Unchanged ==
    ASSUME IInv, UNCHANGED vars
    PROVE  IInv'
<1>1. TypeOK'
  BY DEF vars, IInv, TypeOK
<1>2. \A q \in Proc : Calls(q)'
  BY DEF vars, IInv, Calls
<1>. QED
  BY <1>1, <1>2 DEF IInv

\* A file can be written.
LEMMA FileHasRoom ==
    ASSUME NEW f, IsTree(f), NEW x \in DOMAIN f, f[x] # Dir
    PROVE  HasRoom(f, x) /\ x \in Seq(Name)
<1>1. x \in Seq(Name)
  BY DEF IsTree
<1>2. ASSUME x # <<>>
      PROVE  Front(x) \in DOMAIN f /\ f[Front(x)] = Dir
  <2>1. Len(x) - 1 \in 0..(Len(x) - 1)
    BY <1>1, <1>2
  <2>2. Front(x) = SubSeq(x, 1, Len(x) - 1)
    BY <1>1, <1>2, FrontIsPrefix
  <2>. QED
    BY <2>1, <2>2, AboveIsDir
<1>. QED
  BY <1>1, <1>2 DEF HasRoom

LEMMA OverlayIsFile ==
    ASSUME NEW f \in Seq(Byte), NEW o \in Nat, NEW s \in Seq(Byte)
    PROVE  Overlay(f, o, s) \in Seq(Byte)
<1>1. CASE s = <<>>
  BY <1>1 DEF Overlay
<1>2. CASE s # <<>> /\ Len(f) < o
  <2>1. Zeros(o - Len(f)) \in Seq(Byte)
    BY <1>2, DirAssumption DEF Zeros
  <2>2. f \o Zeros(o - Len(f)) \o s \in Seq(Byte)
    <3>. HIDE DEF Zeros
    <3>. QED
      BY <2>1, Joined
  <2>. QED
    BY <1>2, <2>2 DEF Overlay
<1>3. CASE s # <<>> /\ ~(Len(f) < o)
  <2>1. o \in 0..Len(f)
    BY <1>3
  <2>2. Overlay(f, o, s) = SubSeq(f, 1, o) \o s \o SubSeq(f, o + Len(s) + 1, Len(f))
    BY <1>3 DEF Overlay
  <2>. QED
    BY <2>1, <2>2, Replaced
<1>. QED
  BY <1>1, <1>2, <1>3

\* Changing what a file has in it changes nothing else.
LEMMA RewriteKeeps ==
    ASSUME NEW f, IsTree(f), NEW x \in DOMAIN f, f[x] # Dir, NEW c \in Seq(Byte), NEW g, g = Put(f, x, c)
    PROVE  /\ Keeps(f, g) /\ DOMAIN g = DOMAIN f /\ g[x] = c /\ \A y \in DOMAIN f : y # x => g[y] = f[y]
<1>1. HasRoom(f, x) /\ x \in Seq(Name)
  BY FileHasRoom
<1>2. /\ IsTree(g) /\ DOMAIN g = DOMAIN f \cup {x}
      /\ g[x] = c /\ \A y \in DOMAIN f : y # x => g[y] = f[y]
  <2>1. c \in {Dir} \cup Seq(Byte)
    OBVIOUS
  <2>. QED
    BY <1>1, <2>1, PutKeepsTree
<1>3. c # Dir
  BY DirAssumption
<1>. QED
  BY <1>2, <1>3 DEF Keeps

-----------------------------------------------------------------------------
(* The steps *)

Holds(q) == Only(q) /\ Keeps(node, node') /\ Local(q)'

\* Locals that a step leaves alone.
LEMMA Same ==
    ASSUME IInv, NEW q \in Proc
    PROVE  /\ UNCHANGED m_mode => m_mode' = [m_mode EXCEPT ![q] = m_mode'[q]]
           /\ UNCHANGED m_fileNames => m_fileNames' = [m_fileNames EXCEPT ![q] = m_fileNames'[q]]
           /\ UNCHANGED m_createdDirectories =>
                m_createdDirectories' = [m_createdDirectories EXCEPT ![q] = m_createdDirectories'[q]]
           /\ UNCHANGED search => search' = [search EXCEPT ![q] = search'[q]]
           /\ UNCHANGED call => call' = [call EXCEPT ![q] = call'[q]]
BY DEF IInv, TypeOK

LEMMA Domains ==
    ASSUME IInv
    PROVE  /\ DOMAIN m_mode = Proc /\ DOMAIN m_fileNames = Proc /\ DOMAIN m_createdDirectories = Proc
           /\ DOMAIN search = Proc /\ DOMAIN call = Proc
           /\ \A f, q, v : DOMAIN f = Proc /\ q \in Proc => [f EXCEPT ![q] = v][q] = v
BY DEF IInv, TypeOK

LEMMA LongerFrames ==
    ASSUME NEW f, NEW g, DOMAIN f \subseteq DOMAIN g, NEW s \in Seq(SUBSET DOMAIN f)
    PROVE  s \in Seq(SUBSET DOMAIN g)
<1>1. SUBSET DOMAIN f \subseteq SUBSET DOMAIN g
  OBVIOUS
<1>. QED
  BY <1>1, SeqMonotonic

LEMMA OpenHolds ==
    ASSUME IInv, NEW q \in Proc, NEW mode \in {"Read", "Write", "Append"}, Open(q, mode)
    PROVE  Holds(q) /\ Grows(node, node') /\ search'[q] = <<{y \in DOMAIN node' : y # <<>> /\ Front(y) = Root}>>
<1>1. Local(q) /\ m_mode[q] = "closed"
  BY LocalHolds DEF Open
<1>2. Grows(node, node')
  <2>1. IsTree(node) /\ Root \in Seq(Name)
    BY DirAssumption DEF IInv, TypeOK
  <2>. QED
    BY <2>1, GrowsItself, MkdirGrows DEF Open
<1>3. search'[q] = <<{y \in DOMAIN node' : y # <<>> /\ Front(y) = Root}>> /\ m_mode'[q] = mode
  BY Domains DEF Open
<1>4. search'[q] \in Seq(SUBSET DOMAIN node')
  BY <1>3, Lists
<1>5. UNCHANGED <<m_fileNames, m_createdDirectories, call>>
  BY DEF Open
<1>6. Only(q)
  BY <1>3, <1>5, Same, Domains DEF Open, Only
<1>7. Calls(q)'
  BY <1>1, <1>3, <1>5 DEF Local, Calls
<1>8. Local(q)'
  BY <1>1, <1>3, <1>4, <1>5, <1>7 DEF Local, Modes
<1>. QED
  BY <1>2, <1>3, <1>6, <1>8, GrowsKeeps DEF Holds

LEMMA SearchEntryHolds ==
    ASSUME IInv, NEW q \in Proc, NEW x \in DOMAIN node, SearchEntry(q, x)
    PROVE  Holds(q)
<1>1. Local(q) /\ search[q] # <<>> /\ x \in Head(search[q]) /\ Len(m_fileNames[q]) < MaxNames
  BY LocalHolds DEF SearchEntry
<1>2. UNCHANGED <<node, m_mode, m_createdDirectories, call>>
  BY DEF SearchEntry
<1>3. x \in Seq(Name)
  BY DEF IInv, TypeOK, IsTree
<1>4. Tail(search[q]) \in Seq(SUBSET DOMAIN node) /\ Head(search[q]) \in SUBSET DOMAIN node
  BY <1>1 DEF Local
<1>5. /\ search' = [search EXCEPT ![q] = search'[q]]
      /\ m_fileNames' = [m_fileNames EXCEPT ![q] = m_fileNames'[q]]
      /\ search'[q] \in Seq(SUBSET DOMAIN node)
      /\ m_fileNames'[q] \in Seq(Seq(Name)) /\ Len(m_fileNames'[q]) <= MaxNames
  <2>1. CASE Is(x, "dir")
    <3>1. search' = [search EXCEPT ![q] = Descends(search[q], x, Entries(x))] /\ UNCHANGED m_fileNames
      BY <2>1 DEF SearchEntry
    <3>2. Entries(x) \in SUBSET DOMAIN node
      BY DEF Entries
    <3>3. Descends(search[q], x, Entries(x)) \in Seq(SUBSET DOMAIN node)
      <4>1. <<Entries(x), Head(search[q]) \ {x}>> \in Seq(SUBSET DOMAIN node)
        BY <1>4, <3>2
      <4>. HIDE DEF Entries
      <4>. QED
        BY <1>4, <4>1, Joined DEF Descends
    <3>. QED
      BY <1>1, <3>1, <3>3, Same, Domains DEF Local
  <2>2. CASE ~Is(x, "dir")
    <3>1. /\ search' = [search EXCEPT ![q] = <<Head(search[q]) \ {x}>> \o Tail(search[q])]
          /\ m_fileNames' = [m_fileNames EXCEPT ![q] = Append(m_fileNames[q], x)]
      BY <2>2 DEF SearchEntry
    <3>2. <<Head(search[q]) \ {x}>> \o Tail(search[q]) \in Seq(SUBSET DOMAIN node)
      <4>1. <<Head(search[q]) \ {x}>> \in Seq(SUBSET DOMAIN node)
        BY <1>4
      <4>. QED
        BY <1>4, <4>1, Joined
    <3>3. Append(m_fileNames[q], x) \in Seq(Seq(Name)) /\ Len(Append(m_fileNames[q], x)) <= MaxNames
      BY <1>1, <1>3, DirAssumption DEF Local
    <3>. QED
      BY <1>1, <3>1, <3>2, <3>3, Domains
  <2>. QED
    BY <2>1, <2>2
<1>6. Calls(q)'
  BY <1>1, <1>2 DEF Local, Calls
<1>7. Only(q)
  BY <1>2, <1>5, Same DEF Only
<1>. QED
  BY <1>1, <1>2, <1>5, <1>6, <1>7, KeepsItself DEF Holds, Local

LEMMA SearchReturnsHolds ==
    ASSUME IInv, NEW q \in Proc, SearchReturns(q)
    PROVE  Holds(q) /\ search'[q] = Tail(search[q])
<1>1. Local(q) /\ search[q] # <<>>
  BY LocalHolds DEF SearchReturns
<1>2. UNCHANGED <<node, m_mode, m_fileNames, m_createdDirectories, call>>
  BY DEF SearchReturns
<1>3. search' = [search EXCEPT ![q] = Tail(search[q])] /\ search'[q] = Tail(search[q])
  BY Domains DEF SearchReturns
<1>4. Tail(search[q]) \in Seq(SUBSET DOMAIN node)
  BY <1>1 DEF Local
<1>5. Calls(q)'
  BY <1>1, <1>2 DEF Local, Calls
<1>6. Only(q)
  BY <1>2, <1>3, Same DEF Only
<1>. QED
  BY <1>1, <1>2, <1>3, <1>4, <1>5, <1>6, KeepsItself DEF Holds, Local

\* The only file that is not as it was is x, which holds c.
Writes(x, c) ==
    /\ x \in DOMAIN node' /\ node'[x] = c
    /\ \A y \in DOMAIN node : y # x => node'[y] = node[y]
    /\ \A y \in DOMAIN node' \ DOMAIN node : y # x => node'[y] = Dir

LEMMA StartWriteHolds ==
    ASSUME IInv, NEW q \in Proc, NEW p \in Path, NEW c \in Content, StartWrite(q, p, c)
    PROVE  Holds(q) /\ Writes(File(p), <<>>) /\ call'[q] = [op |-> "write", path |-> p, content |-> c, at |-> 0]
<1>. DEFINE made == Prepared(q, p)
            x == File(p)
<1>1. Local(q) /\ Free(q) /\ Len(m_fileNames[q]) < MaxNames
  BY LocalHolds DEF StartWrite
<1>2. Grows(node, made) /\ IsTree(made)
  BY PreparedGrows DEF IInv, TypeOK, Grows
<1>3. x \in Seq(Name) /\ CanOpen(made, p) /\ node' = Put(made, x, <<>>)
  BY PathIsFile DEF StartWrite, Emptied
<1>. HIDE DEF made, x
<1>4. HasRoom(made, x)
  BY <1>3 DEF CanOpen, HasRoom, x
<1>5. /\ IsTree(node') /\ DOMAIN node' = DOMAIN made \cup {x}
      /\ node'[x] = <<>> /\ \A y \in DOMAIN made : y # x => node'[y] = made[y]
  <2>. DEFINE empty == <<>>
  <2>1. empty \in {Dir} \cup Seq(Byte) /\ node' = Put(made, x, empty)
    BY <1>3, Lists
  <2>. HIDE DEF empty
  <2>2. x \in Seq(Name)
    BY <1>3
  <2>3. /\ IsTree(Put(made, x, empty)) /\ DOMAIN Put(made, x, empty) = DOMAIN made \cup {x}
        /\ Put(made, x, empty)[x] = empty
        /\ \A y \in DOMAIN made : y # x => Put(made, x, empty)[y] = made[y]
    BY <1>2, <1>4, <2>1, <2>2, PutKeepsTree
  <2>. QED
    BY <2>1, <2>3 DEF empty
<1>6. Writes(x, <<>>)
  BY <1>2, <1>5 DEF Writes, Grows
<1>7. Keeps(node, node')
  <2>1. <<>> # Dir
    BY Lists, DirAssumption
  <2>2. x \in DOMAIN node => node[x] # Dir
    BY <1>2, <1>4 DEF HasRoom, Grows
  <2>. QED
    BY <1>2, <1>5, <2>1, <2>2 DEF Keeps, Grows
<1>8. UNCHANGED <<m_mode, m_fileNames, search>>
  BY DEF StartWrite
<1>9. /\ call'[q] = [op |-> "write", path |-> p, content |-> c, at |-> 0]
      /\ m_createdDirectories'[q] = m_createdDirectories[q] \cup Segments(p)
  BY Domains DEF StartWrite
<1>10. Only(q)
  BY <1>8, <1>9, Same, Domains DEF StartWrite, Only
<1>11. call'[q] \in Writing /\ call'[q].path = p
  BY <1>9 DEF Writing
<1>12. Calls(q)'
  <2>1. search'[q] = <<>> /\ m_mode'[q] # "closed" /\ Len(m_fileNames'[q]) < MaxNames
    BY <1>1, <1>8 DEF Free
  <2>2. File(call'[q].path) \in DOMAIN node' /\ node'[File(call'[q].path)] # Dir
    BY <1>5, <1>11, Lists, DirAssumption DEF x
  <2>. QED
    BY <2>1, <2>2 DEF Calls
<1>13. Local(q)'
  <2>1. search'[q] \in Seq(SUBSET DOMAIN node')
    BY <1>1, <1>8, Lists DEF Free
  <2>. QED
    BY <1>1, <1>8, <1>9, <1>11, <1>12, <2>1 DEF Local, AnyCall
<1>. QED
  BY <1>6, <1>7, <1>9, <1>10, <1>13 DEF Holds, x

LEMMA WriteThrowsHolds ==
    ASSUME IInv, NEW q \in Proc, NEW p \in Path, WriteThrows(q, p)
    PROVE  Holds(q) /\ Grows(node, node')
<1>1. Local(q) /\ Free(q)
  BY LocalHolds DEF WriteThrows
<1>2. UNCHANGED <<m_mode, m_fileNames, search, call>>
  BY DEF WriteThrows
<1>3. IsTree(node)
  BY DEF IInv, TypeOK
<1>4. /\ Grows(node, node')
      /\ m_createdDirectories' = [m_createdDirectories EXCEPT ![q] = m_createdDirectories'[q]]
      /\ m_createdDirectories'[q] \in SUBSET UNION {Segments(r) : r \in Path}
  <2>1. CASE m_mode[q] = "Read"
    <3>1. UNCHANGED <<node, m_createdDirectories>>
      BY <2>1 DEF WriteThrows
    <3>. QED
      BY <1>1, <1>3, <3>1, GrowsItself, Same DEF Local
  <2>2. CASE m_mode[q] # "Read"
    <3>1. /\ node' = Prepared(q, p)
          /\ m_createdDirectories' = [m_createdDirectories EXCEPT ![q] = m_createdDirectories[q] \cup Segments(p)]
      BY <2>2 DEF WriteThrows
    <3>. QED
      BY <1>1, <1>3, <3>1, PreparedGrows, Domains DEF Local
  <2>. QED
    BY <2>1, <2>2
<1>5. Only(q)
  BY <1>2, <1>4, Same DEF Only
<1>6. Keeps(node, node')
  BY <1>4, GrowsKeeps
<1>7. Calls(q)'
  BY <1>1, <1>2 DEF Free, Local, Calls
<1>8. search'[q] \in Seq(SUBSET DOMAIN node')
  BY <1>1, <1>2, Lists DEF Free
<1>. QED
  BY <1>1, <1>2, <1>4, <1>5, <1>6, <1>7, <1>8 DEF Holds, Local

LEMMA WriteSomeHolds ==
    ASSUME IInv, NEW q \in Proc, NEW n, WriteSome(q, n)
    PROVE  LET w == call[q]
               x == File(w.path)
           IN  /\ Holds(q) /\ w \in Writing /\ n \in 1..(Len(w.content) - w.at)
               /\ x \in DOMAIN node /\ DOMAIN node' = DOMAIN node
               /\ Writes(x, Overlay(node[x], w.at, SubSeq(w.content, w.at + 1, w.at + n)))
               /\ call'[q] = [w EXCEPT !.at = w.at + n]
<1>. DEFINE w == call[q]
            x == File(w.path)
            bytes == SubSeq(w.content, w.at + 1, w.at + n)
            after == Overlay(node[x], w.at, bytes)
<1>1. Local(q) /\ w # Idle /\ w.op = "write" /\ n \in 1..(Len(w.content) - w.at)
  BY LocalHolds DEF WriteSome
<1>2. w \in Writing
  BY <1>1, ActsAreKnown DEF Local
<1>3. x \in DOMAIN node /\ node[x] # Dir
  BY <1>1 DEF Local, Calls
<1>4. IsTree(node)
  BY DEF IInv, TypeOK
<1>5. w.content \in Seq(Byte) /\ w.at \in Nat /\ w.path \in Path /\ w.content \in Content
  BY <1>2, DirAssumption DEF Writing
<1>6. bytes \in Seq(Byte)
  <2>1. \A i \in (w.at + 1)..(w.at + n) : w.content[i] \in Byte
    <3>. HIDE DEF w
    <3>. QED
      BY <1>1, <1>5
  <2>2. w.at + 1 \in Int /\ w.at + n \in Int
    BY <1>1, <1>5
  <2>. HIDE DEF w
  <2>. QED
    BY <1>5, <2>1, <2>2, SubSeqProperties
<1>7. after \in Seq(Byte)
  <2>1. node[x] \in Seq(Byte)
    BY <1>3, <1>4 DEF IsTree
  <2>. HIDE DEF w, x, bytes
  <2>. QED
    BY <1>5, <1>6, <2>1, OverlayIsFile
<1>8. node' = [node EXCEPT ![x] = after] /\ call' = [call EXCEPT ![q] = [w EXCEPT !.at = w.at + n]]
  BY DEF WriteSome
<1>9. UNCHANGED <<m_mode, m_fileNames, m_createdDirectories, search>>
  BY DEF WriteSome
<1>. HIDE DEF after, x, w
<1>10. node' = Put(node, x, after)
  BY <1>3, <1>8 DEF Put
<1>11. /\ Keeps(node, node') /\ DOMAIN node' = DOMAIN node /\ node'[x] = after
       /\ \A y \in DOMAIN node : y # x => node'[y] = node[y]
  BY <1>3, <1>4, <1>7, <1>10, RewriteKeeps
<1>12. Writes(x, after)
  BY <1>3, <1>11 DEF Writes
<1>13. call'[q] = [w EXCEPT !.at = w.at + n] /\ Only(q)
  BY <1>8, <1>9, Same, Domains DEF Only
<1>14. call'[q] \in Writing /\ call'[q].path = w.path /\ call'[q] # Idle
  <2>1. w.at + n \in Nat
    BY <1>1, <1>5
  <2>2. call'[q] \in Writing /\ call'[q].path = w.path
    BY <1>2, <1>13, <2>1 DEF Writing
  <2>. QED
    BY <2>2, DirAssumption
<1>15. Calls(q)'
  <2>1. /\ m_mode[q] # "closed" /\ search[q] = <<>> /\ Len(m_fileNames[q]) < MaxNames
    BY <1>1 DEF Local, Calls, w
  <2>2. File(call'[q].path) \in DOMAIN node' /\ node'[File(call'[q].path)] # Dir
    BY <1>3, <1>11, <1>14 DEF Keeps, x
  <2>. QED
    BY <1>9, <2>1, <2>2 DEF Calls
<1>16. Local(q)'
  <2>1. search'[q] \in Seq(SUBSET DOMAIN node')
    BY <1>1, <1>9, <1>11 DEF Local
  <2>. QED
    BY <1>1, <1>9, <1>14, <1>15, <2>1 DEF Local, AnyCall
<1>. QED
  BY <1>1, <1>2, <1>3, <1>11, <1>12, <1>13, <1>16 DEF Holds, w, x, after

LEMMA FinishWriteHolds ==
    ASSUME IInv, NEW q \in Proc, FinishWrite(q)
    PROVE  Holds(q) /\ call[q] \in Writing /\ call'[q] = Idle
<1>1. Local(q) /\ call[q] # Idle /\ call[q].op = "write"
  BY LocalHolds DEF FinishWrite
<1>2. call[q] \in Writing
  BY <1>1, ActsAreKnown DEF Local
<1>3. UNCHANGED <<node, m_mode, m_createdDirectories, search>>
  BY DEF FinishWrite
<1>4. m_fileNames'[q] = Append(m_fileNames[q], call[q].path) /\ call'[q] = Idle
  BY Domains DEF FinishWrite
<1>5. Only(q)
  BY <1>3, <1>4, Same DEF FinishWrite, Only
<1>6. m_fileNames'[q] \in Seq(Seq(Name)) /\ Len(m_fileNames'[q]) <= MaxNames
  <2>1. call[q].path \in Seq(Name) /\ Len(m_fileNames[q]) < MaxNames /\ MaxNames \in Nat
    BY <1>1, <1>2, PathIsFile, DirAssumption DEF Local, Calls, Writing
  <2>. QED
    BY <1>1, <1>4, <2>1 DEF Local
<1>7. Calls(q)'
  BY <1>1, <1>3, <1>4 DEF Local, Calls
<1>. QED
  BY <1>1, <1>2, <1>3, <1>4, <1>5, <1>6, <1>7, KeepsItself DEF Holds, Local, AnyCall

LEMMA StartReadHolds ==
    ASSUME IInv, NEW q \in Proc, NEW p \in Path, StartRead(q, p)
    PROVE  Holds(q) /\ call'[q] = [op |-> "read", path |-> p, size |-> Len(node[File(p)])]
<1>1. Local(q) /\ Free(q) /\ File(p) \in DOMAIN node /\ node[File(p)] # Dir
  BY LocalHolds DEF StartRead, Is
<1>2. UNCHANGED <<node, m_mode, m_fileNames, m_createdDirectories, search>>
  BY DEF StartRead
<1>3. call'[q] = [op |-> "read", path |-> p, size |-> Len(node[File(p)])]
  BY Domains DEF StartRead
<1>4. call'[q] \in Reading /\ call'[q].path = p /\ call'[q].op = "read"
  <2>1. node[File(p)] \in Seq(Byte)
    BY <1>1 DEF IInv, TypeOK, IsTree
  <2>2. Len(node[File(p)]) \in Nat
    BY <2>1
  <2>. QED
    BY <1>3, <2>2 DEF Reading
<1>5. Only(q)
  BY <1>2, <1>3, Same DEF StartRead, Only
<1>6. Calls(q)'
  BY <1>1, <1>2, <1>4 DEF Free, Calls
<1>. QED
  BY <1>1, <1>2, <1>3, <1>4, <1>5, <1>6, KeepsItself DEF Holds, Local, AnyCall

LEMMA RefusalHolds ==
    ASSUME IInv, NEW q \in Proc, UNCHANGED <<node, m_mode, m_fileNames, m_createdDirectories, search, call>>
    PROVE  Holds(q)
<1>1. Local(q)
  BY LocalHolds
<1>2. Only(q)
  BY Same DEF Only
<1>3. Local(q)'
  BY <1>1 DEF Local, Calls
<1>. QED
  BY <1>2, <1>3, KeepsItself DEF Holds

LEMMA FinishReadHolds ==
    ASSUME IInv, NEW q \in Proc, FinishRead(q)
    PROVE  Holds(q) /\ call[q] \in Reading /\ call'[q] = Idle
<1>1. Local(q) /\ call[q] # Idle /\ call[q].op = "read"
  BY LocalHolds DEF FinishRead
<1>2. call[q] \in Reading
  BY <1>1, ActsAreKnown DEF Local
<1>3. UNCHANGED <<node, m_mode, m_fileNames, m_createdDirectories, search>>
  BY DEF FinishRead
<1>4. call'[q] = Idle
  BY Domains DEF FinishRead
<1>5. Only(q)
  BY <1>3, <1>4, Same DEF FinishRead, Only
<1>6. Calls(q)'
  BY <1>1, <1>3, <1>4 DEF Local, Calls
<1>. QED
  BY <1>1, <1>2, <1>3, <1>4, <1>5, <1>6, KeepsItself DEF Holds, Local, AnyCall

LEMMA ForgetHolds ==
    ASSUME IInv, NEW q \in Proc, Forget(q)
    PROVE  Holds(q) /\ call'[q] = Idle /\ m_mode'[q] = "closed" /\ search'[q] = <<>> /\ UNCHANGED node
<1>1. /\ m_mode'[q] = "closed" /\ m_fileNames'[q] = <<>> /\ m_createdDirectories'[q] = {}
      /\ search'[q] = <<>> /\ call'[q] = Idle /\ UNCHANGED node
  BY Domains DEF Forget
<1>2. Only(q)
  BY <1>1 DEF Forget, Only
<1>3. Calls(q)'
  BY <1>1 DEF Calls
<1>4. <<>> \in Seq(Seq(Name)) /\ Len(<<>>) <= MaxNames /\ <<>> \in Seq(SUBSET DOMAIN node')
  BY DirAssumption
<1>. QED
  BY <1>1, <1>2, <1>3, <1>4, KeepsItself DEF Holds, Local, AnyCall, Modes

LEMMA NextHolds ==
    ASSUME IInv, Next
    PROVE  \E q \in Proc : Holds(q)
<1>1. PICK q \in Proc :
        \/ \E mode \in {"Read", "Write", "Append"} : Open(q, mode) \/ OpenThrows(q, mode)
        \/ \E x \in DOMAIN node : SearchEntry(q, x)
        \/ SearchReturns(q)
        \/ \E p \in Path, c \in Content : StartWrite(q, p, c)
        \/ \E p \in Path : WriteThrows(q, p) \/ StartRead(q, p) \/ ReadMissing(q, p)
        \/ \E n : WriteSome(q, n)
        \/ FinishWrite(q) \/ FinishRead(q)
        \/ Forget(q)
  BY DEF Next, Close, Die
<1>2. ASSUME NEW mode \in {"Read", "Write", "Append"}, Open(q, mode) \/ OpenThrows(q, mode)
      PROVE  Holds(q)
  BY <1>2, OpenHolds, RefusalHolds DEF OpenThrows
<1>3. ASSUME NEW p \in Path, WriteThrows(q, p) \/ StartRead(q, p) \/ ReadMissing(q, p)
      PROVE  Holds(q)
  BY <1>3, WriteThrowsHolds, StartReadHolds, RefusalHolds DEF ReadMissing
<1>. QED
  BY <1>1, <1>2, <1>3, SearchEntryHolds, SearchReturnsHolds, StartWriteHolds, WriteSomeHolds,
     FinishWriteHolds, FinishReadHolds, ForgetHolds

LEMMA InitHolds == Init => IInv
<1>. SUFFICES ASSUME Init PROVE IInv
  OBVIOUS
<1>1. /\ m_mode = [q \in Proc |-> "closed"] /\ m_fileNames = [q \in Proc |-> <<>>]
      /\ m_createdDirectories = [q \in Proc |-> {}]
      /\ search = [q \in Proc |-> <<>>] /\ call = [q \in Proc |-> Idle]
  BY DEF Init
<1>2. <<>> \in Seq(Seq(Name)) /\ Len(<<>>) <= MaxNames /\ <<>> \in Seq(SUBSET DOMAIN node)
  BY DirAssumption
<1>3. IsTree(node)
  BY DirAssumption DEF Init
<1>4. TypeOK
  BY <1>1, <1>2, <1>3 DEF TypeOK
<1>5. \A q \in Proc : Calls(q)
  BY <1>1 DEF Calls
<1>. QED
  BY <1>4, <1>5 DEF IInv

LEMMA NextKeeps == IInv /\ [Next]_vars => IInv'
BY NextHolds, OneActs, Unchanged DEF Holds

\* Above every file is a directory, names fit, and a process in the middle of a call has
\* what the call needs, whatever other processes do (DirArchive.hpp:58-66).
THEOREM Typed == Spec => []TypeOK
<1>1. IInv => TypeOK
  BY DEF IInv
<1>. QED
  BY <1>1, InitHolds, NextKeeps, PTL DEF Spec

-----------------------------------------------------------------------------
(* Every path is a safe register: the invariant *)

HasFile(p) == File(p) \in DOMAIN node /\ node[File(p)] # Dir
InWrite(q) == call[q] # Idle /\ call[q].op = "write"
InRead(q) == call[q] # Idle /\ call[q].op = "read"

\* A path whose last write ended well holds one content.
Mended(p) == IF p \in torn THEN HasFile(p) ELSE HasFile(p) => node[File(p)] \in Content

\* A file that is being written holds what has been written.
WrittenSoFar(q) == InWrite(q) =>
    /\ call[q].path \in torn
    /\ call[q].at \in 0..Len(call[q].content)
    /\ node[File(call[q].path)] = SubSeq(call[q].content, 1, call[q].at)

\* A file that no write overlaps is as long as it was found to be.
SizeTaken(q) == InRead(q) /\ ~overlapped[q] =>
    call[q].path \notin torn /\ call[q].size = Len(node[File(call[q].path)])

WritersDiffer == \A q, r \in Proc : q # r /\ InWrite(q) /\ InWrite(r) => call[q].path # call[r].path

RInv == /\ IInv /\ torn \subseteq Path /\ overlapped \in [Proc -> BOOLEAN]
        /\ WritersDiffer
        /\ \A p \in Path : Mended(p)
        /\ \A q \in Proc : WrittenSoFar(q) /\ SizeTaken(q)

Stays(p) == (HasFile(p)' <=> HasFile(p)) /\ (HasFile(p) => node'[File(p)] = node[File(p)])

\* A step of q that touches no other paths than those of S, which nobody else is writing.
Touches(q, S) ==
    /\ Holds(q) /\ torn' \subseteq Path
    /\ \A p \in Path \ S : Stays(p) /\ (p \in torn' <=> p \in torn)
    /\ \A p \in S : (p \in torn' \/ Stays(p)) /\ Mended(p)'
    /\ \A r \in Proc \ {q} : InWrite(r) => call[r].path \notin S
    /\ InWrite(q)' => call'[q].path \in S
    /\ WrittenSoFar(q)' /\ SizeTaken(q)'

\* How the history variable follows.
Overlaps == overlapped' = [q \in Proc |-> /\ call'[q] # Idle /\ call'[q].op = "read"
                                          /\ \/ call'[q].path \in torn'
                                             \/ StillReading(q) /\ overlapped[q]]

LEMMA FileIs ==
    ASSUME NEW p
    PROVE  (Is(File(p), "file") <=> HasFile(p)) /\ (Is(File(p), "dir") <=> File(p) \in DOMAIN node /\ node[File(p)] = Dir)
BY DEF Is, HasFile

LEMMA OtherCall ==
    ASSUME IInv, NEW q \in Proc, Only(q), NEW r \in Proc, r # q
    PROVE  call'[r] = call[r] /\ search'[r] = search[r] /\ m_fileNames'[r] = m_fileNames[r] /\ m_mode'[r] = m_mode[r]
BY DEF IInv, TypeOK, Only

LEMMA CallHasFile ==
    ASSUME IInv, NEW q \in Proc, call[q] # Idle
    PROVE  /\ call[q].path \in Path /\ HasFile(call[q].path)
           /\ InWrite(q) => call[q] \in Writing
           /\ InRead(q) => call[q] \in Reading
           /\ InWrite(q) \/ InRead(q)
BY LocalHolds, ActsAreKnown DEF Local, Calls, HasFile, InWrite, InRead

\* What others write and read is as they expect.
LEMMA OthersRegisters ==
    ASSUME RInv, NEW q \in Proc, NEW S \in SUBSET Path, Touches(q, S), Overlaps, NEW r \in Proc, r # q
    PROVE  /\ call'[r] = call[r] /\ WrittenSoFar(r)' /\ SizeTaken(r)'
           /\ InRead(r) => overlapped'[r] = (call[r].path \in torn' \/ overlapped[r])
<1>1. call'[r] = call[r]
  BY OtherCall DEF RInv, Touches, Holds
<1>2. call[r] # Idle => call[r].path \in Path /\ HasFile(call[r].path)
  BY CallHasFile DEF RInv
<1>3. WrittenSoFar(r)'
  <2>. SUFFICES ASSUME InWrite(r)
                PROVE  /\ call[r].path \in torn'
                       /\ call[r].at \in 0..Len(call[r].content)
                       /\ node'[File(call[r].path)] = SubSeq(call[r].content, 1, call[r].at)
    BY <1>1 DEF WrittenSoFar, InWrite
  <2>1. call[r].path \in Path \ S /\ HasFile(call[r].path) /\ WrittenSoFar(r)
    BY <1>2 DEF Touches, InWrite, RInv
  <2>2. Stays(call[r].path) /\ (call[r].path \in torn' <=> call[r].path \in torn)
    BY <2>1 DEF Touches
  <2>. QED
    BY <2>1, <2>2 DEF Stays, WrittenSoFar
<1>4. InRead(r) => overlapped'[r] = (call[r].path \in torn' \/ overlapped[r])
  BY <1>1 DEF Overlaps, InRead, StillReading, RInv
<1>5. SizeTaken(r)'
  <2>. SUFFICES ASSUME InRead(r), ~overlapped'[r]
                PROVE  call[r].path \notin torn' /\ call[r].size = Len(node'[File(call[r].path)])
    BY <1>1 DEF SizeTaken, InRead
  <2>1. call[r].path \notin torn' /\ ~overlapped[r]
    BY <1>4
  <2>2. call[r].path \in Path /\ HasFile(call[r].path) /\ SizeTaken(r)
    BY <1>2 DEF InRead, RInv
  <2>3. Stays(call[r].path)
    BY <2>1, <2>2 DEF Touches
  <2>. QED
    BY <2>1, <2>2, <2>3 DEF Stays, SizeTaken
<1>. QED
  BY <1>1, <1>3, <1>4, <1>5

LEMMA TouchesHolds ==
    ASSUME RInv, NEW q \in Proc, NEW S \in SUBSET Path, Touches(q, S), Overlaps
    PROVE  RInv'
<1>1. IInv'
  BY OneActs DEF RInv, Touches, Holds
<1>2. overlapped' \in [Proc -> BOOLEAN]
  BY DEF Overlaps
<1>3. \A r \in Proc : WrittenSoFar(r)' /\ SizeTaken(r)' /\ (r # q => call'[r] = call[r])
  BY OthersRegisters DEF Touches
<1>4. WritersDiffer'
  <2>. SUFFICES ASSUME NEW r \in Proc, NEW s \in Proc, r # s, InWrite(r)', InWrite(s)'
                PROVE  call'[r].path # call'[s].path
    BY DEF WritersDiffer
  <2>1. \A u \in Proc \ {q} : call'[u] = call[u] /\ (InWrite(u)' => InWrite(u))
    BY <1>3 DEF InWrite
  <2>2. CASE r # q /\ s # q
    BY <2>1, <2>2 DEF RInv, WritersDiffer
  <2>3. CASE r = q
    BY <2>1, <2>3 DEF Touches
  <2>4. CASE s = q
    BY <2>1, <2>4 DEF Touches
  <2>. QED
    BY <2>2, <2>3, <2>4
<1>5. \A p \in Path : Mended(p)'
  <2>. SUFFICES ASSUME NEW p \in Path PROVE Mended(p)'
    OBVIOUS
  <2>1. CASE p \in S
    BY <2>1 DEF Touches
  <2>2. CASE p \notin S
    BY <2>2 DEF Touches, Stays, Mended, RInv
  <2>. QED
    BY <2>1, <2>2
<1>. QED
  BY <1>1, <1>2, <1>3, <1>4, <1>5 DEF RInv, Touches

-----------------------------------------------------------------------------
(* The history variable torn *)

Tears == torn' = {p \in Path : StartsWrite(p) \/ (p \in torn /\ ~EndsWell(p))}

\* A step of q that neither starts nor ends a write.
LEMMA NotTorn ==
    ASSUME RInv, NEW q \in Proc, Only(q), Tears,
           InWrite(q)' => InWrite(q), call'[q] = Idle => reply'.op # <<"write">> \/ ~InWrite(q)
    PROVE  torn' = torn
<1>1. \A r \in Proc : r # q => call'[r] = call[r]
  BY OtherCall DEF RInv
<1>2. \A p : ~StartsWrite(p)
  BY <1>1 DEF StartsWrite, InWrite
<1>3. \A p : ~EndsWell(p)
  BY <1>1 DEF EndsWell, InWrite
<1>. QED
  BY <1>2, <1>3 DEF Tears, RInv

LEMMA TornByStart ==
    ASSUME RInv, NEW q \in Proc, Only(q), Tears, call[q] = Idle, InWrite(q)', call'[q].path \in Path
    PROVE  torn' = torn \cup {call'[q].path}
<1>1. \A r \in Proc : r # q => call'[r] = call[r]
  BY OtherCall DEF RInv
<1>2. \A p : StartsWrite(p) <=> p = call'[q].path
  BY <1>1 DEF StartsWrite, InWrite
<1>3. \A p : ~EndsWell(p)
  BY <1>1 DEF EndsWell
<1>. QED
  BY <1>2, <1>3 DEF Tears, RInv

LEMMA TornByEnd ==
    ASSUME RInv, NEW q \in Proc, Only(q), Tears, InWrite(q), call'[q] = Idle, reply'.op = <<"write">>
    PROVE  torn' = IF call[q].at = Len(call[q].content) THEN torn \ {call[q].path} ELSE torn
<1>1. \A r \in Proc : r # q => call'[r] = call[r]
  BY OtherCall DEF RInv
<1>2. \A p : ~StartsWrite(p)
  BY <1>1 DEF StartsWrite, InWrite
<1>3. \A p : EndsWell(p) <=> p = call[q].path /\ call[q].at = Len(call[q].content)
  BY <1>1 DEF EndsWell, InWrite
<1>. QED
  BY <1>2, <1>3 DEF Tears, RInv

-----------------------------------------------------------------------------
(* What the steps are to the registers *)

LEMMA RegistersKept ==
    ASSUME NEW S, \A p \in Path \ S : Stays(p) /\ (p \in torn' <=> p \in torn)
    PROVE  \A p \in Path \ S : registers'[p] = registers[p]
BY FileIs DEF registers, Register, Stays, Is, HasFile

LEMMA CallsKept ==
    ASSUME RInv, NEW q \in Proc, NEW S \in SUBSET Path, Touches(q, S), Overlaps, NEW r \in Proc, r # q,
           torn' \subseteq torn
    PROVE  calls'[r] = calls[r]
<1>1. call'[r] = call[r] /\ (InRead(r) => overlapped'[r] = (call[r].path \in torn' \/ overlapped[r]))
  BY OthersRegisters
<1>2. call[r] # Idle => InWrite(r) \/ InRead(r)
  BY CallHasFile DEF RInv
<1>3. InRead(r) => overlapped'[r] = overlapped[r]
  BY <1>1 DEF RInv, SizeTaken
<1>4. InWrite(r) => call[r].op = "write"
  BY DEF InWrite
<1>. QED
  BY <1>1, <1>2, <1>3, <1>4 DEF calls, CallOf, InRead

\* A step that is no call's: files stay, and the process is not in a call.
LEMMA CalmStep ==
    ASSUME RInv, NEW q \in Proc, Holds(q), Tears, Overlaps, Grows(node, node'),
           call[q] = Idle, call'[q] = Idle
    PROVE  Touches(q, {}) /\ registers' = registers /\ calls' = calls /\ calls[q] = Idle
<1>1. torn' = torn
  BY NotTorn DEF Holds, InWrite
<1>2. \A p \in Path : Stays(p)
  <2>. SUFFICES ASSUME NEW p \in Path PROVE Stays(p)
    OBVIOUS
  <2>1. CASE File(p) \in DOMAIN node
    BY <2>1 DEF Stays, HasFile, Grows
  <2>2. CASE File(p) \notin DOMAIN node
    BY <2>2 DEF Stays, HasFile, Grows
  <2>. QED
    BY <2>1, <2>2
<1>3. Touches(q, {})
  BY <1>1, <1>2 DEF Touches, RInv, InWrite, InRead, WrittenSoFar, SizeTaken
<1>4. \A p \in Path : registers'[p] = registers[p]
  BY <1>1, <1>2, RegistersKept
<1>5. \A r \in Proc : calls'[r] = calls[r]
  <2>1. \A r \in Proc : r # q => calls'[r] = calls[r]
    BY <1>1, <1>3, CallsKept
  <2>2. calls'[q] = Idle /\ calls[q] = Idle
    BY DEF calls, CallOf
  <2>. QED
    BY <2>1, <2>2
<1>6. registers' = registers
  BY <1>4 DEF registers
<1>7. calls' = calls /\ calls[q] = Idle
  BY <1>5 DEF calls, CallOf
<1>. QED
  BY <1>3, <1>6, <1>7

LEMMA NowOverlapped ==
    ASSUME NEW x, NEW path, NEW old, NEW now, x = [op |-> "read", path |-> path, overlapped |-> old]
    PROVE  [x EXCEPT !.overlapped = now] = [op |-> "read", path |-> path, overlapped |-> now]
OBVIOUS

LEMMA StartWriteMaps ==
    ASSUME RInv, OneWriter, NEW q \in Proc, NEW p \in Path, NEW c \in Content, StartWrite(q, p, c), Tears, Overlaps
    PROVE  Touches(q, {p}) /\ R!StartWrite(q, p, c)
<1>1. /\ Holds(q) /\ Writes(File(p), <<>>)
      /\ call'[q] = [op |-> "write", path |-> p, content |-> c, at |-> 0]
  BY StartWriteHolds DEF RInv
<1>2. call[q] = Idle /\ MayWrite(p) /\ Returns(q, <<"write">>, NoReply)
  BY DEF StartWrite, Free
<1>3. call'[q] # Idle /\ call'[q].op = "write" /\ call'[q].path = p /\ call'[q].at = 0 /\ call'[q].content = c
  <2>1. call'[q] \in Writing
    BY <1>1 DEF Writing
  <2>. QED
    BY <1>1, <2>1, DirAssumption
<1>4. torn' = torn \cup {p}
  BY <1>1, <1>2, <1>3, TornByStart DEF Holds, InWrite
<1>5. \A x \in Path : x # p => Stays(x)
  <2>. SUFFICES ASSUME NEW x \in Path, x # p PROVE Stays(x)
    OBVIOUS
  <2>1. File(x) # File(p)
    BY PathIsFile
  <2>2. CASE File(x) \in DOMAIN node
    BY <1>1, <2>1, <2>2 DEF Stays, HasFile, Writes, Holds, Keeps
  <2>3. CASE File(x) \notin DOMAIN node
    BY <1>1, <2>1, <2>3 DEF Stays, HasFile, Writes
  <2>. QED
    BY <2>2, <2>3
<1>6. \A r \in Proc \ {q} : InWrite(r) => call[r].path # p
  BY <1>2 DEF MayWrite, InWrite
<1>7. HasFile(p)' /\ node'[File(p)] = <<>>
  <2>1. <<>> # Dir
    BY Lists, DirAssumption
  <2>. QED
    BY <1>1, <2>1 DEF HasFile, Writes
<1>8. WrittenSoFar(q)' /\ SizeTaken(q)' /\ Mended(p)'
  <2>1. c \in Seq(Byte)
    BY DirAssumption
  <2>2. 0 \in 0..Len(c) /\ SubSeq(c, 1, 0) = <<>>
    BY <2>1
  <2>. QED
    BY <1>3, <1>4, <1>7, <2>2 DEF WrittenSoFar, SizeTaken, Mended, InWrite, InRead
<1>9. Touches(q, {p})
  BY <1>1, <1>3, <1>4, <1>5, <1>6, <1>8 DEF Touches, RInv
<1>10. registers' = [registers EXCEPT ![p] = Damaged]
  <2>1. \A x \in Path \ {p} : registers'[x] = registers[x]
    BY <1>4, <1>5, RegistersKept
  <2>2. registers'[p] = Damaged
    BY <1>4 DEF registers, Register
  <2>3. registers = [x \in Path |-> registers[x]] /\ registers' = [x \in Path |-> registers'[x]]
    BY DEF registers
  <2>. QED
    BY <2>1, <2>2, <2>3
<1>11. calls' = [r \in Proc |->
                    IF r = q THEN [op |-> "write", path |-> p, value |-> c]
                    ELSE IF R!InRead(r) /\ calls[r].path = p THEN [calls[r] EXCEPT !.overlapped = TRUE]
                    ELSE calls[r]]
  <2>1. calls'[q] = [op |-> "write", path |-> p, value |-> c]
    BY <1>3 DEF calls, CallOf
  <2>2. ASSUME NEW r \in Proc, r # q
        PROVE  calls'[r] = IF R!InRead(r) /\ calls[r].path = p THEN [calls[r] EXCEPT !.overlapped = TRUE]
                           ELSE calls[r]
    <3>1. call'[r] = call[r] /\ (InRead(r) => overlapped'[r] = (call[r].path \in torn' \/ overlapped[r]))
      BY <1>9, <2>2, OthersRegisters
    <3>2. call[r] # Idle => InWrite(r) \/ InRead(r)
      BY CallHasFile DEF RInv
    <3>3. CASE call[r] = Idle
      BY <3>1, <3>3 DEF calls, CallOf, R!InRead
    <3>4. CASE InWrite(r)
      <4>1. calls[r] = [op |-> "write", path |-> call[r].path, value |-> call[r].content] /\ calls'[r] = calls[r]
        BY <3>1, <3>4 DEF calls, CallOf, InWrite
      <4>2. ~R!InRead(r)
        BY <4>1 DEF R!InRead
      <4>. QED
        BY <4>1, <4>2
    <3>5. CASE InRead(r)
      <4>1. /\ calls[r] = [op |-> "read", path |-> call[r].path, overlapped |-> overlapped[r]]
            /\ calls'[r] = [op |-> "read", path |-> call[r].path, overlapped |-> overlapped'[r]]
        BY <3>1, <3>5 DEF calls, CallOf, InRead
      <4>2. R!InRead(r)
        <5>1. call[r].path \in Path /\ overlapped[r] \in BOOLEAN
          BY <3>5, CallHasFile DEF RInv, InRead
        <5>2. calls[r] \in R!Reading
          BY <4>1, <5>1 DEF R!Reading
        <5>. QED
          BY <4>1, <5>2, ContentsAssumption DEF R!InRead
      <4>3. CASE call[r].path = p
        <5>1. overlapped'[r] = TRUE
          BY <1>4, <3>1, <3>5, <4>3
        <5>. PICK now : now = overlapped'[r]
          OBVIOUS
        <5>2. calls'[r] = [calls[r] EXCEPT !.overlapped = now]
          BY <4>1, NowOverlapped
        <5>4. now = TRUE
          BY <5>1
        <5>3. calls[r].path = p
          BY <4>1, <4>3
        <5>. QED
          BY <4>2, <5>2, <5>3, <5>4
      <4>4. CASE call[r].path # p
        <5>1. overlapped'[r] = overlapped[r]
          BY <1>4, <3>1, <3>5, <4>4 DEF RInv, SizeTaken
        <5>. QED
          BY <4>1, <4>2, <4>4, <5>1
      <4>. QED
        BY <4>3, <4>4
    <3>. QED
      BY <3>2, <3>3, <3>4, <3>5
  <2>3. calls' = [r \in Proc |-> calls'[r]]
    BY DEF calls
  <2>. QED
    BY <2>1, <2>2, <2>3
<1>12. calls[q] = Idle
  BY <1>2 DEF calls, CallOf
<1>. QED
  BY <1>2, <1>9, <1>10, <1>11, <1>12 DEF R!StartWrite, R!Returns, Returns

\* The next part of a sequence, written behind the parts before it.
LEMMA NextPart ==
    ASSUME NEW s \in Seq(Byte), NEW at \in 0..Len(s), NEW n \in 1..(Len(s) - at)
    PROVE  Overlay(SubSeq(s, 1, at), at, SubSeq(s, at + 1, at + n)) = SubSeq(s, 1, at + n)
<1>. DEFINE f == SubSeq(s, 1, at)
            g == SubSeq(s, at + 1, at + n)
<1>1. Len(s) \in Nat /\ at \in Nat /\ n \in Nat /\ at + n \in 0..Len(s)
  OBVIOUS
<1>2. f \in Seq(Byte) /\ Len(f) = at /\ \A i \in 1..at : f[i] = s[i]
  BY Prefix
<1>3. g \in Seq(Byte) /\ Len(g) = n /\ \A i \in 1..n : g[i] = s[at + i]
  BY <1>1
<1>4. LET h == SubSeq(s, 1, at + n)
      IN  h \in Seq(Byte) /\ Len(h) = at + n /\ \A i \in 1..(at + n) : h[i] = s[i]
  BY <1>1, Prefix
<1>. HIDE DEF f, g
<1>5. g # <<>> /\ ~(Len(f) < at)
  BY <1>1, <1>2, <1>3
<1>6. SubSeq(f, 1, at) = f /\ SubSeq(f, at + Len(g) + 1, Len(f)) = <<>>
  BY <1>1, <1>2, <1>3
<1>7. Overlay(f, at, g) = f \o g \o <<>>
  BY <1>5, <1>6 DEF Overlay
<1>8. f \o g \o <<>> = f \o g
  BY <1>2, <1>3
<1>9. f \o g \in Seq(Byte) /\ Len(f \o g) = at + n /\ \A i \in 1..(at + n) : (f \o g)[i] = s[i]
  <2>1. f \o g \in Seq(Byte) /\ Len(f \o g) = at + n
    BY <1>2, <1>3, Joined
  <2>2. \A i \in 1..(at + n) : (f \o g)[i] = IF i <= at THEN f[i] ELSE g[i - at]
    BY <1>1, <1>2, <1>3
  <2>3. ASSUME NEW i \in 1..(at + n)
        PROVE  (f \o g)[i] = s[i]
    <3>1. CASE i <= at
      BY <1>2, <2>2, <3>1
    <3>2. CASE ~(i <= at)
      <4>1. i - at \in 1..n /\ at + (i - at) = i
        BY <1>1, <3>2
      <4>. QED
        BY <1>3, <2>2, <3>2, <4>1
    <3>. QED
      BY <3>1, <3>2
  <2>. QED
    BY <2>1, <2>3
<1>10. f \o g = SubSeq(s, 1, at + n)
  BY <1>4, <1>9, SeqEqual
<1>. QED
  BY <1>7, <1>8, <1>10 DEF f, g

\* More bytes reach the file: the registers do not know.
LEMMA WriteSomeMaps ==
    ASSUME RInv, NEW q \in Proc, NEW n, WriteSome(q, n), Tears, Overlaps
    PROVE  Touches(q, {call[q].path}) /\ UNCHANGED <<registers, calls, reply>>
<1>. PICK w, p, x : w = call[q] /\ p = w.path /\ x = File(p)
  OBVIOUS
<1>1. /\ Holds(q) /\ w \in Writing /\ n \in 1..(Len(w.content) - w.at)
      /\ x \in DOMAIN node /\ DOMAIN node' = DOMAIN node
      /\ Writes(x, Overlay(node[x], w.at, SubSeq(w.content, w.at + 1, w.at + n)))
      /\ call'[q] = [w EXCEPT !.at = w.at + n]
  BY WriteSomeHolds DEF RInv
<1>2. InWrite(q) /\ UNCHANGED reply
  BY DEF WriteSome, InWrite
<1>3. /\ p \in Path /\ w.content \in Seq(Byte) /\ w.at \in Nat
      /\ p \in torn /\ w.at \in 0..Len(w.content) /\ node[x] = SubSeq(w.content, 1, w.at)
  BY <1>1, <1>2, DirAssumption DEF Writing, RInv, WrittenSoFar
<1>4. /\ call'[q] \in Writing /\ call'[q] # Idle /\ call'[q].op = "write" /\ call'[q].path = p
      /\ call'[q].content = w.content /\ call'[q].at = w.at + n /\ w.at + n \in 0..Len(w.content)
  <2>1. w.at + n \in 0..Len(w.content)
    BY <1>1, <1>3
  <2>2. /\ call'[q] \in Writing /\ call'[q].op = "write" /\ call'[q].path = p
        /\ call'[q].content = w.content /\ call'[q].at = w.at + n
    BY <1>1, <2>1 DEF Writing
  <2>. QED
    BY <2>1, <2>2, DirAssumption
<1>5. node'[x] = SubSeq(w.content, 1, w.at + n)
  <2>1. node'[x] = Overlay(SubSeq(w.content, 1, w.at), w.at, SubSeq(w.content, w.at + 1, w.at + n))
    BY <1>1, <1>3 DEF Writes
  <2>. QED
    BY <1>1, <1>3, <2>1, NextPart
<1>6. torn' = torn
  BY <1>1, <1>2, <1>4, NotTorn DEF Holds, InWrite
<1>7. \A y \in Path : y # p => Stays(y)
  <2>. SUFFICES ASSUME NEW y \in Path, y # p PROVE Stays(y)
    OBVIOUS
  <2>1. File(y) # x
    BY <1>3, PathIsFile
  <2>. QED
    BY <1>1, <2>1 DEF Stays, HasFile, Writes
<1>8. \A r \in Proc \ {q} : InWrite(r) => call[r].path # p
  BY <1>2 DEF RInv, WritersDiffer
<1>9. HasFile(p)'
  <2>1. HasFile(p)
    BY <1>2, CallHasFile DEF RInv, InWrite
  <2>. QED
    BY <1>1, <2>1 DEF Holds, Keeps, HasFile
<1>10. Touches(q, {p})
  <2>1. WrittenSoFar(q)' /\ SizeTaken(q)' /\ Mended(p)'
    BY <1>3, <1>4, <1>5, <1>6, <1>9 DEF WrittenSoFar, SizeTaken, Mended, InWrite, InRead
  <2>2. \A y \in {p} : (y \in torn' \/ Stays(y)) /\ Mended(y)'
    BY <1>3, <1>6, <2>1
  <2>. QED
    BY <1>1, <1>3, <1>4, <1>6, <1>7, <1>8, <2>1, <2>2 DEF Touches, RInv
<1>11. registers' = registers
  <2>1. \A y \in Path \ {p} : registers'[y] = registers[y]
    BY <1>6, <1>7, RegistersKept
  <2>2. registers'[p] = registers[p]
    BY <1>3, <1>6 DEF registers, Register
  <2>. QED
    BY <2>1, <2>2 DEF registers
<1>12. calls' = calls
  <2>1. \A r \in Proc : r # q => calls'[r] = calls[r]
    BY <1>3, <1>6, <1>10, CallsKept
  <2>2. calls'[q] = calls[q]
    BY <1>2, <1>4 DEF calls, CallOf, InWrite
  <2>3. calls' = [r \in Proc |-> calls'[r]] /\ calls = [r \in Proc |-> calls[r]]
    BY DEF calls
  <2>. QED
    BY <2>1, <2>2, <2>3
<1>. QED
  BY <1>2, <1>10, <1>11, <1>12

LEMMA FinishWriteMaps ==
    ASSUME RInv, NEW q \in Proc, FinishWrite(q), Tears, Overlaps
    PROVE  Touches(q, {call[q].path}) /\ R!FinishWrite(q)
<1>. PICK w, p : w = call[q] /\ p = w.path
  OBVIOUS
<1>1. Holds(q) /\ w \in Writing /\ call'[q] = Idle
  BY FinishWriteHolds DEF RInv
<1>2. InWrite(q) /\ UNCHANGED node /\ Returns(q, <<"write">>, Done)
  BY DEF FinishWrite, InWrite
<1>3. reply'.op = <<"write">>
  BY <1>2 DEF Returns
<1>4. /\ p \in Path /\ w.content \in Seq(Byte) /\ w.content \in Content
      /\ p \in torn /\ w.at \in 0..Len(w.content) /\ node[File(p)] = SubSeq(w.content, 1, w.at)
  BY <1>1, <1>2, DirAssumption DEF Writing, RInv, WrittenSoFar
<1>5. torn' = IF w.at = Len(w.content) THEN torn \ {p} ELSE torn
  BY <1>1, <1>2, <1>3, TornByEnd DEF Holds
<1>6. \A y \in Path : Stays(y)
  BY <1>2 DEF Stays, HasFile
<1>7. HasFile(p)
  BY <1>2, CallHasFile DEF RInv, InWrite
<1>8. w.at = Len(w.content) => node'[File(p)] = w.content
  BY <1>2, <1>4
<1>9. Mended(p)'
  BY <1>2, <1>4, <1>5, <1>7, <1>8 DEF Mended, HasFile
<1>10. \A r \in Proc \ {q} : InWrite(r) => call[r].path # p
  BY <1>2 DEF RInv, WritersDiffer
<1>11. Touches(q, {p})
  <2>1. WrittenSoFar(q)' /\ SizeTaken(q)' /\ ~InWrite(q)'
    BY <1>1 DEF WrittenSoFar, SizeTaken, InWrite, InRead
  <2>2. \A y \in {p} : (y \in torn' \/ Stays(y)) /\ Mended(y)'
    BY <1>4, <1>6, <1>9
  <2>. QED
    BY <1>1, <1>4, <1>5, <1>6, <1>10, <2>1, <2>2 DEF Touches, RInv
<1>12. calls' = [calls EXCEPT ![q] = Idle]
  <2>1. \A r \in Proc : r # q => calls'[r] = calls[r]
    BY <1>4, <1>5, <1>11, CallsKept
  <2>2. calls'[q] = Idle
    BY <1>1 DEF calls, CallOf
  <2>3. calls' = [r \in Proc |-> calls'[r]] /\ calls = [r \in Proc |-> calls[r]]
    BY DEF calls
  <2>. QED
    BY <2>1, <2>2, <2>3
<1>13. calls[q] = [op |-> "write", path |-> p, value |-> w.content] /\ R!InWrite(q)
  <2>1. calls[q] = [op |-> "write", path |-> p, value |-> w.content]
    BY <1>2 DEF calls, CallOf, InWrite
  <2>2. calls[q] \in R!Writing
    BY <1>4, <2>1 DEF R!Writing
  <2>. QED
    BY <2>1, <2>2, ContentsAssumption DEF R!InWrite
<1>14. registers' = [registers EXCEPT ![p] = w.content] \/ UNCHANGED registers
  <2>1. \A y \in Path \ {p} : registers'[y] = registers[y]
    BY <1>5, <1>6, RegistersKept
  <2>2. registers = [y \in Path |-> registers[y]] /\ registers' = [y \in Path |-> registers'[y]]
    BY DEF registers
  <2>3. CASE w.at = Len(w.content)
    <3>1. p \notin torn' /\ HasFile(p)' /\ registers'[p] = Register(p)'
      BY <1>2, <1>4, <1>5, <1>7, <2>3 DEF HasFile, registers
    <3>2. Register(p)' = node'[File(p)]
      BY <3>1 DEF Register, Is, HasFile
    <3>3. registers'[p] = w.content
      BY <1>8, <2>3, <3>1, <3>2
    <3>. QED
      BY <2>1, <2>2, <3>3
  <2>4. CASE w.at # Len(w.content)
    <3>1. registers'[p] = registers[p]
      BY <1>4, <1>5, <2>4 DEF registers, Register
    <3>. QED
      BY <2>1, <2>2, <3>1
  <2>. QED
    BY <2>3, <2>4
<1>15. calls[q].path = p /\ calls[q].value = w.content
  BY <1>13
<1>. QED
  BY <1>2, <1>11, <1>12, <1>13, <1>14, <1>15 DEF R!FinishWrite, R!Becomes, R!Returns, Returns

LEMMA StartReadMaps ==
    ASSUME RInv, NEW q \in Proc, NEW p \in Path, StartRead(q, p), Tears, Overlaps
    PROVE  Touches(q, {}) /\ R!StartRead(q, p)
<1>1. Holds(q) /\ call'[q] = [op |-> "read", path |-> p, size |-> Len(node[File(p)])]
  BY StartReadHolds DEF RInv
<1>2. call[q] = Idle /\ HasFile(p) /\ UNCHANGED node /\ Returns(q, <<"read", p>>, NoReply)
  BY DEF StartRead, Free, HasFile, Is
<1>3. call'[q] # Idle /\ call'[q].op = "read" /\ call'[q].path = p /\ call'[q].size = Len(node[File(p)])
  <2>1. call'[q] \in AnyCall /\ call'[q].op = "read" /\ call'[q].path = p /\ call'[q].size = Len(node[File(p)])
    BY <1>1 DEF Holds, Local
  <2>2. call'[q] \in Reading
    <3>1. node[File(p)] \in Seq(Byte)
      BY <1>2 DEF RInv, IInv, TypeOK, IsTree, HasFile
    <3>2. Len(node[File(p)]) \in Nat
      BY <3>1
    <3>. QED
      BY <1>1, <3>2 DEF Reading
  <2>. QED
    BY <2>1, <2>2, DirAssumption
<1>4. torn' = torn
  BY <1>1, <1>3, NotTorn DEF Holds, InWrite
<1>5. \A y \in Path : Stays(y)
  BY <1>2 DEF Stays, HasFile
<1>6. IF p \in torn THEN overlapped'[q] = TRUE ELSE overlapped'[q] = FALSE
  <2>1. overlapped'[q] = /\ call'[q] # Idle /\ call'[q].op = "read"
                         /\ call'[q].path \in torn' \/ (StillReading(q) /\ overlapped[q])
    BY DEF Overlaps
  <2>2. ~StillReading(q)
    BY <1>2 DEF StillReading
  <2>3. CASE p \in torn
    BY <1>3, <1>4, <2>1, <2>3
  <2>4. CASE p \notin torn
    BY <1>3, <1>4, <2>1, <2>2, <2>4
  <2>. QED
    BY <2>3, <2>4
<1>7. Touches(q, {})
  <2>1. WrittenSoFar(q)' /\ SizeTaken(q)' /\ ~InWrite(q)'
    BY <1>2, <1>3, <1>4, <1>6 DEF WrittenSoFar, SizeTaken, InWrite, InRead
  <2>. QED
    BY <1>1, <1>4, <1>5, <2>1 DEF Touches, RInv
<1>8. registers' = registers
  <2>1. \A y \in Path : registers'[y] = registers[y]
    BY <1>4, <1>5, RegistersKept
  <2>. QED
    BY <2>1 DEF registers
<1>9. registers[p] # Missing /\ (registers[p] = Damaged <=> p \in torn)
  <2>1. registers[p] = IF p \in torn THEN Damaged ELSE node[File(p)]
    BY <1>2, FileIs DEF registers, Register
  <2>2. p \notin torn => node[File(p)] \in Content
    BY <1>2 DEF RInv, Mended
  <2>. QED
    BY <2>1, <2>2, ContentsAssumption
<1>10. calls' = [calls EXCEPT ![q] = [op |-> "read", path |-> p, overlapped |-> registers[p] = Damaged]]
  <2>1. \A r \in Proc : r # q => calls'[r] = calls[r]
    BY <1>4, <1>7, CallsKept
  <2>2. calls'[q] = [op |-> "read", path |-> p, overlapped |-> overlapped'[q]]
    BY <1>3 DEF calls, CallOf
  <2>3. overlapped'[q] = (registers[p] = Damaged)
    <3>1. CASE p \in torn
      BY <1>6, <1>9, <3>1
    <3>2. CASE p \notin torn
      BY <1>6, <1>9, <3>2
    <3>. QED
      BY <3>1, <3>2
  <2>4. calls' = [r \in Proc |-> calls'[r]] /\ calls = [r \in Proc |-> calls[r]]
    BY DEF calls
  <2>5. calls'[q] = [op |-> "read", path |-> p, overlapped |-> registers[p] = Damaged]
    BY <2>2, <2>3
  <2>. QED
    BY <2>1, <2>4, <2>5
<1>11. calls[q] = Idle
  BY <1>2 DEF calls, CallOf
<1>. QED
  BY <1>2, <1>7, <1>8, <1>9, <1>10, <1>11 DEF R!StartRead, R!Becomes, R!Returns, Returns

LEMMA FinishReadMaps ==
    ASSUME RInv, NEW q \in Proc, FinishRead(q), Tears, Overlaps
    PROVE  Touches(q, {}) /\ R!FinishRead(q)
<1>. PICK p, bytes : p = call[q].path /\ bytes = node[File(p)]
  OBVIOUS
<1>1. Holds(q) /\ call[q] \in Reading /\ call'[q] = Idle
  BY FinishReadHolds DEF RInv
<1>2. /\ InRead(q) /\ UNCHANGED node
      /\ Returns(q, <<"read", p>>, IF Len(bytes) < call[q].size THEN Torn ELSE SubSeq(bytes, 1, call[q].size))
  BY DEF FinishRead, InRead
<1>3. p \in Path /\ HasFile(p)
  BY <1>2, CallHasFile DEF RInv, InRead
<1>4. torn' = torn
  BY <1>1, <1>2, NotTorn DEF Holds, InWrite, InRead
<1>5. \A y \in Path : Stays(y)
  BY <1>2 DEF Stays, HasFile
<1>6. Touches(q, {})
  <2>1. WrittenSoFar(q)' /\ SizeTaken(q)' /\ ~InWrite(q)'
    BY <1>1 DEF WrittenSoFar, SizeTaken, InWrite, InRead
  <2>. QED
    BY <1>1, <1>4, <1>5, <2>1 DEF Touches, RInv
<1>7. registers' = registers
  <2>1. \A y \in Path : registers'[y] = registers[y]
    BY <1>4, <1>5, RegistersKept
  <2>. QED
    BY <2>1 DEF registers
<1>8. calls' = [calls EXCEPT ![q] = Idle]
  <2>1. \A r \in Proc : r # q => calls'[r] = calls[r]
    BY <1>4, <1>6, CallsKept
  <2>2. calls'[q] = Idle
    BY <1>1 DEF calls, CallOf
  <2>3. calls' = [r \in Proc |-> calls'[r]] /\ calls = [r \in Proc |-> calls[r]]
    BY DEF calls
  <2>. QED
    BY <2>1, <2>2, <2>3
<1>9. calls[q] = [op |-> "read", path |-> p, overlapped |-> overlapped[q]] /\ R!InRead(q)
  <2>1. calls[q] = [op |-> "read", path |-> p, overlapped |-> overlapped[q]]
    BY <1>2 DEF calls, CallOf, InRead
  <2>2. overlapped[q] \in BOOLEAN
    BY DEF RInv
  <2>3. calls[q] \in R!Reading
    BY <1>3, <2>1, <2>2 DEF R!Reading
  <2>. QED
    BY <2>1, <2>3, ContentsAssumption DEF R!InRead
<1>10. ~overlapped[q] => reply'.value = registers[p]
  <2>. SUFFICES ASSUME ~overlapped[q] PROVE reply'.value = registers[p]
    OBVIOUS
  <2>1. p \notin torn /\ call[q].size = Len(bytes)
    BY <1>2 DEF RInv, SizeTaken
  <2>2. bytes \in Seq(Byte)
    BY <1>3 DEF RInv, IInv, TypeOK, IsTree, HasFile
  <2>3. registers[p] = bytes
    BY <1>3, <2>1, FileIs DEF registers, Register
  <2>4. reply'.value = IF Len(bytes) < call[q].size THEN Torn ELSE SubSeq(bytes, 1, call[q].size)
    BY <1>2 DEF Returns
  <2>5. SubSeq(bytes, 1, Len(bytes)) = bytes /\ ~(Len(bytes) < Len(bytes))
    BY <2>2
  <2>. QED
    BY <2>1, <2>3, <2>4, <2>5
<1>11. reply'.by = q /\ reply'.op = <<"read", p>>
  BY <1>2 DEF Returns
<1>12. calls[q].path = p /\ calls[q].overlapped = overlapped[q]
  BY <1>9
<1>. QED
  BY <1>6, <1>7, <1>8, <1>9, <1>10, <1>11, <1>12 DEF R!FinishRead, R!Becomes

LEMMA ForgetMaps ==
    ASSUME RInv, NEW q \in Proc, Forget(q), Tears, Overlaps
    PROVE  Touches(q, {}) /\ R!Die(q)
<1>1. Holds(q) /\ call'[q] = Idle /\ UNCHANGED node
  BY ForgetHolds DEF RInv
<1>2. Returns(q, <<"close">>, Done) /\ reply'.op # <<"write">>
  BY DEF Forget, Returns
<1>3. torn' = torn
  BY <1>1, <1>2, NotTorn DEF Holds, InWrite
<1>4. \A y \in Path : Stays(y)
  BY <1>1 DEF Stays, HasFile
<1>5. Touches(q, {})
  <2>1. WrittenSoFar(q)' /\ SizeTaken(q)' /\ ~InWrite(q)'
    BY <1>1 DEF WrittenSoFar, SizeTaken, InWrite, InRead
  <2>. QED
    BY <1>1, <1>3, <1>4, <2>1 DEF Touches, RInv
<1>6. registers' = registers
  <2>1. \A y \in Path : registers'[y] = registers[y]
    BY <1>3, <1>4, RegistersKept
  <2>. QED
    BY <2>1 DEF registers
<1>7. calls' = [calls EXCEPT ![q] = Idle]
  <2>1. \A r \in Proc : r # q => calls'[r] = calls[r]
    BY <1>3, <1>5, CallsKept
  <2>2. calls'[q] = Idle
    BY <1>1 DEF calls, CallOf
  <2>3. calls' = [r \in Proc |-> calls'[r]] /\ calls = [r \in Proc |-> calls[r]]
    BY DEF calls
  <2>. QED
    BY <2>1, <2>2, <2>3
<1>. QED
  BY <1>2, <1>5, <1>6, <1>7 DEF R!Die, R!Becomes, R!Returns, Returns

\* A step is one of the registers, or does not show.
Maps(q) == \/ \E p \in Path, v \in Content : R!StartWrite(q, p, v)
           \/ \E p \in Path : R!StartRead(q, p) \/ R!ReadMissing(q, p)
           \/ R!FinishWrite(q) \/ R!FinishRead(q)
           \/ R!Other(q) \/ R!Refuse(q) \/ R!Die(q)
           \/ UNCHANGED <<registers, calls, reply>>

LEMMA OpenMaps ==
    ASSUME RInv, NEW q \in Proc, NEW mode \in {"Read", "Write", "Append"}, Open(q, mode) \/ OpenThrows(q, mode),
           Tears, Overlaps
    PROVE  Touches(q, {}) /\ Maps(q)
<1>1. Holds(q) /\ Grows(node, node') /\ UNCHANGED call
  <2>1. CASE Open(q, mode)
    BY <2>1, OpenHolds DEF RInv, Open
  <2>2. CASE OpenThrows(q, mode)
    BY <2>2, RefusalHolds, GrowsItself DEF RInv, IInv, TypeOK, OpenThrows
  <2>. QED
    BY <2>1, <2>2
<1>2. call[q] = Idle
  BY LocalHolds DEF Open, OpenThrows, RInv, Local, Calls
<1>3. Touches(q, {}) /\ registers' = registers /\ calls' = calls /\ calls[q] = Idle
  BY <1>1, <1>2, CalmStep
<1>4. Returns(q, <<"open">>, NoReply) \/ Returns(q, <<"open">>, Threw)
  BY DEF Open, OpenThrows
<1>5. R!Other(q)
  BY <1>3, <1>4 DEF R!Other, R!Returns, Returns
<1>. QED
  BY <1>3, <1>5 DEF Maps

LEMMA SearchMaps ==
    ASSUME RInv, NEW q \in Proc, (\E x \in DOMAIN node : SearchEntry(q, x)) \/ SearchReturns(q), Tears, Overlaps
    PROVE  Touches(q, {}) /\ Maps(q)
<1>1. Holds(q) /\ UNCHANGED <<node, call>> /\ search[q] # <<>>
  <2>1. ASSUME NEW x \in DOMAIN node, SearchEntry(q, x)
        PROVE  Holds(q) /\ UNCHANGED <<node, call>> /\ search[q] # <<>>
    BY <2>1, SearchEntryHolds DEF RInv, SearchEntry
  <2>2. ASSUME SearchReturns(q)
        PROVE  Holds(q) /\ UNCHANGED <<node, call>> /\ search[q] # <<>>
    BY <2>2, SearchReturnsHolds DEF RInv, SearchReturns
  <2>. QED
    BY <2>1, <2>2
<1>2. call[q] = Idle
  BY <1>1, LocalHolds DEF RInv, Local, Calls
<1>3. Grows(node, node')
  BY <1>1, GrowsItself DEF RInv, IInv, TypeOK
<1>4. Touches(q, {}) /\ registers' = registers /\ calls' = calls /\ calls[q] = Idle
  BY <1>1, <1>2, <1>3, CalmStep
<1>5. reply' = reply \/ Returns(q, <<"open">>, Done)
  BY DEF SearchEntry, SearchReturns
<1>6. Returns(q, <<"open">>, Done) => R!Other(q)
  BY <1>4 DEF R!Other, R!Returns, Returns
<1>. QED
  BY <1>4, <1>5, <1>6 DEF Maps

LEMMA WriteThrowsMaps ==
    ASSUME RInv, NEW q \in Proc, NEW p \in Path, WriteThrows(q, p), Tears, Overlaps
    PROVE  Touches(q, {}) /\ Maps(q)
<1>1. Holds(q) /\ Grows(node, node')
  BY WriteThrowsHolds DEF RInv
<1>2. call[q] = Idle /\ UNCHANGED call /\ Returns(q, <<"write">>, Threw)
  BY DEF WriteThrows, Free
<1>3. Touches(q, {}) /\ registers' = registers /\ calls' = calls /\ calls[q] = Idle
  BY <1>1, <1>2, CalmStep
<1>4. R!Refuse(q)
  BY <1>2, <1>3 DEF R!Refuse, R!Returns, Returns
<1>. QED
  BY <1>3, <1>4 DEF Maps

LEMMA ReadMissingMaps ==
    ASSUME RInv, NEW q \in Proc, NEW p \in Path, ReadMissing(q, p), Tears, Overlaps
    PROVE  Touches(q, {}) /\ Maps(q)
<1>1. UNCHANGED <<node, m_mode, m_fileNames, m_createdDirectories, search, call>> /\ call[q] = Idle /\ ~HasFile(p)
  BY FileIs DEF ReadMissing, Free
<1>2. Holds(q) /\ Grows(node, node')
  BY <1>1, RefusalHolds, GrowsItself DEF RInv, IInv, TypeOK
<1>3. Touches(q, {}) /\ registers' = registers /\ calls' = calls /\ calls[q] = Idle
  BY <1>1, <1>2, CalmStep
<1>4. registers[p] = Missing
  BY <1>1, FileIs DEF RInv, Mended, registers, Register
<1>5. Returns(q, <<"read", p>>, Missing) \/ Returns(q, <<"read", p>>, Threw)
  BY DEF ReadMissing
<1>6. R!ReadMissing(q, p)
  BY <1>3, <1>4, <1>5 DEF R!ReadMissing, R!Returns, Returns
<1>. QED
  BY <1>3, <1>6 DEF Maps

LEMMA NextMaps ==
    ASSUME RInv, OneWriter, Next, Tears, Overlaps
    PROVE  \E q \in Proc, S \in SUBSET Path : Touches(q, S) /\ Maps(q)
<1>1. PICK q \in Proc :
        \/ \E mode \in {"Read", "Write", "Append"} : Open(q, mode) \/ OpenThrows(q, mode)
        \/ (\E x \in DOMAIN node : SearchEntry(q, x)) \/ SearchReturns(q)
        \/ \E p \in Path, c \in Content : StartWrite(q, p, c)
        \/ \E p \in Path : WriteThrows(q, p) \/ StartRead(q, p) \/ ReadMissing(q, p)
        \/ \E n : WriteSome(q, n)
        \/ FinishWrite(q) \/ FinishRead(q)
        \/ Forget(q)
  BY DEF Next, Close, Die
<1>. DEFINE Goal == \E S \in SUBSET Path : Touches(q, S) /\ Maps(q)
<1>2. {} \in SUBSET Path /\ \A p \in Path : {p} \in SUBSET Path
  OBVIOUS
<1>3. Touches(q, {}) /\ Maps(q) => Goal
  BY <1>2
<1>4. \A p \in Path : Touches(q, {p}) /\ Maps(q) => Goal
  BY <1>2
<1>. HIDE DEF Goal
<1>5. ASSUME NEW mode \in {"Read", "Write", "Append"}, Open(q, mode) \/ OpenThrows(q, mode)
      PROVE  Goal
  BY <1>3, <1>5, OpenMaps
<1>6. (\E x \in DOMAIN node : SearchEntry(q, x)) \/ SearchReturns(q) => Goal
  BY <1>3, SearchMaps
<1>7. ASSUME NEW p \in Path, NEW c \in Content, StartWrite(q, p, c)
      PROVE  Goal
  BY <1>4, <1>7, StartWriteMaps DEF Maps
<1>8. ASSUME NEW p \in Path, WriteThrows(q, p) \/ StartRead(q, p) \/ ReadMissing(q, p)
      PROVE  Goal
  BY <1>3, <1>8, WriteThrowsMaps, StartReadMaps, ReadMissingMaps DEF Maps
<1>9. ASSUME NEW n, WriteSome(q, n)
      PROVE  Goal
  <2>1. call[q].path \in Path
    BY <1>9, CallHasFile DEF WriteSome, RInv
  <2>2. Touches(q, {call[q].path}) /\ UNCHANGED <<registers, calls, reply>>
    BY <1>9, WriteSomeMaps
  <2>. QED
    BY <1>4, <2>1, <2>2 DEF Maps
<1>10. ASSUME FinishWrite(q)
       PROVE  Goal
  <2>1. call[q].path \in Path
    BY <1>10, CallHasFile DEF FinishWrite, RInv
  <2>2. Touches(q, {call[q].path}) /\ R!FinishWrite(q)
    BY <1>10, FinishWriteMaps
  <2>. QED
    BY <1>4, <2>1, <2>2 DEF Maps
<1>11. FinishRead(q) \/ Forget(q) => Goal
  BY <1>3, FinishReadMaps, ForgetMaps DEF Maps
<1>12. Goal
  BY <1>1, <1>5, <1>6, <1>7, <1>8, <1>9, <1>10, <1>11
<1>. QED
  BY <1>12 DEF Goal

observed == <<vars, torn, overlapped, there>>

LEMMA ObservedFollows ==
    ASSUME ObservedNext
    PROVE  Next /\ Tears /\ Overlaps
BY DEF ObservedNext, Tears, Overlaps

LEMMA RegistersUnchanged ==
    ASSUME RInv, UNCHANGED observed
    PROVE  RInv' /\ UNCHANGED <<registers, calls, reply>>
<1>1. UNCHANGED vars /\ UNCHANGED <<node, m_mode, m_fileNames, m_createdDirectories, search, call, reply, torn, overlapped>>
  BY DEF observed, vars
<1>2. IInv'
  BY <1>1, Unchanged DEF RInv
<1>3. /\ WritersDiffer' /\ \A p \in Path : Mended(p)'
      /\ \A q \in Proc : WrittenSoFar(q)' /\ SizeTaken(q)'
  BY <1>1 DEF RInv, WritersDiffer, Mended, WrittenSoFar, SizeTaken, InWrite, InRead, HasFile
<1>4. UNCHANGED <<registers, calls, reply>>
  BY <1>1 DEF registers, calls, Register, CallOf, Is
<1>. QED
  BY <1>1, <1>2, <1>3, <1>4 DEF RInv

LEMMA RegistersInit == ObservedInit => RInv /\ R!Init
<1>. SUFFICES ASSUME ObservedInit PROVE RInv /\ R!Init
  OBVIOUS
<1>1. /\ node \in InitialNodes /\ call = [q \in Proc |-> Idle] /\ torn = {}
      /\ overlapped = [q \in Proc |-> FALSE] /\ reply \in [by : Proc, op : {<<"open">>}, value : {Done}]
  BY DEF ObservedInit, Init
<1>2. IInv
  BY InitHolds DEF ObservedInit
<1>3. \A p \in Path : HasFile(p) => node[File(p)] \in Content
  BY <1>1, ContentsAssumption DEF HasFile
<1>4. RInv
  BY <1>1, <1>2, <1>3 DEF RInv, WritersDiffer, Mended, WrittenSoFar, SizeTaken, InWrite, InRead
<1>5. \A p \in Path : Register(p) \in Content \cup {Missing}
  BY <1>1, <1>3, FileIs DEF Register
<1>6. registers \in [Path -> Content \cup {Missing}] /\ calls = [q \in Proc |-> Idle]
  BY <1>1, <1>5 DEF registers, calls, CallOf
<1>. QED
  BY <1>1, <1>4, <1>6 DEF R!Init

LEMMA RegistersNext ==
    ASSUME OneWriter
    PROVE  RInv /\ [ObservedNext]_observed => RInv' /\ [R!Next]_<<registers, calls, reply>>
<1>. SUFFICES ASSUME RInv, [ObservedNext]_observed PROVE RInv' /\ [R!Next]_<<registers, calls, reply>>
  OBVIOUS
<1>1. CASE UNCHANGED observed
  BY <1>1, RegistersUnchanged
<1>2. CASE ObservedNext
  <2>1. Next /\ Tears /\ Overlaps
    BY <1>2, ObservedFollows
  <2>2. PICK q \in Proc, S \in SUBSET Path : Touches(q, S) /\ Maps(q)
    BY <2>1, NextMaps
  <2>3. RInv'
    BY <2>1, <2>2, TouchesHolds
  <2>4. Maps(q) => R!Next \/ UNCHANGED <<registers, calls, reply>>
    BY DEF Maps, R!Next
  <2>. QED
    BY <2>2, <2>3, <2>4
<1>. QED
  BY <1>1, <1>2

\* Every path is a safe register, if no path is written by two at once: whatever processes
\* do to other paths, die in the middle of, or are refused, a read that no write of its path
\* overlaps returns what the last write that ended well wrote (DirArchive.cpp:86-145).
THEOREM RegistersImplemented ==
    ASSUME OneWriter
    PROVE  ObservedSpec => ImplementsRegisters
BY RegistersInit, RegistersNext, PTL DEF ObservedSpec, observed, ImplementsRegisters, R!Spec, R!vars

-----------------------------------------------------------------------------
(* The search *)

\* u is v, or a directory v is below.
Above(u, v) == Len(u) <= Len(v) /\ SubSeq(v, 1, Len(u)) = u

\* A search that has the entries s left and has found the names n: no entry is left twice,
\* or below another, or above a name; and every file of W is found, or below an entry left.
Apart(s) == \A i, j \in DOMAIN s : \A e \in s[i], g \in s[j] : Above(e, g) => i = j /\ e = g
Fresh(s, n) == \A i \in DOMAIN s, k \in DOMAIN n : \A e \in s[i] : ~Above(e, n[k])
Left(s, x) == \E i \in DOMAIN s : \E e \in s[i] : Above(e, x)
Sought(s, n, W, f) ==
    /\ Apart(s) /\ Fresh(s, n) /\ IsInjective(n)
    /\ \A x \in W : x \in DOMAIN f /\ f[x] # Dir /\ (x \in Range(n) \/ Left(s, x))

LEMMA AboveItself ==
    ASSUME NEW x \in Seq(Name)
    PROVE  Above(x, x)
BY DEF Above

LEMMA AboveTwice ==
    ASSUME NEW x \in Seq(Name), NEW y \in Seq(Name), NEW z \in Seq(Name), Above(x, y), Above(y, z)
    PROVE  Above(x, z)
<1>1. Len(x) \in 0..Len(y) /\ Len(y) \in 0..Len(z) /\ SubSeq(y, 1, Len(x)) = x /\ SubSeq(z, 1, Len(y)) = y
  BY DEF Above
<1>2. SubSeq(SubSeq(z, 1, Len(y)), 1, Len(x)) = SubSeq(z, 1, Len(x))
  BY <1>1, ShortPrefix
<1>. QED
  BY <1>1, <1>2 DEF Above

\* What is above a file is the file or a directory.
LEMMA AboveFile ==
    ASSUME NEW f, IsTree(f), NEW x \in DOMAIN f, NEW z \in DOMAIN f, Above(x, z), f[x] # Dir
    PROVE  z = x
<1>1. x \in Seq(Name) /\ z \in Seq(Name)
  BY DEF IsTree
<1>2. CASE Len(x) = Len(z)
  <2>1. SubSeq(z, 1, Len(z)) = z
    BY <1>1
  <2>. QED
    BY <1>2, <2>1 DEF Above
<1>3. CASE Len(x) # Len(z)
  <2>1. Len(x) \in 0..(Len(z) - 1)
    BY <1>1, <1>3 DEF Above
  <2>2. f[SubSeq(z, 1, Len(x))] = Dir
    BY <2>1, AboveIsDir
  <2>. QED
    BY <2>2 DEF Above
<1>. QED
  BY <1>2, <1>3

\* The entry of a directory that a file below it is below.
LEMMA EntryAbove ==
    ASSUME NEW f, IsTree(f), NEW x \in Seq(Name), NEW z \in DOMAIN f, Above(x, z), z # x
    PROVE  \E e \in {y \in DOMAIN f : y # <<>> /\ Front(y) = x} : Above(e, z)
<1>. DEFINE k == Len(x) + 1
            e == SubSeq(z, 1, k)
<1>1. z \in Seq(Name) /\ Len(x) \in Nat /\ Len(z) \in Nat /\ Len(x) <= Len(z) /\ SubSeq(z, 1, Len(x)) = x
  BY DEF IsTree, Above
<1>2. Len(x) # Len(z)
  <2>1. SubSeq(z, 1, Len(z)) = z
    BY <1>1
  <2>. QED
    BY <1>1, <2>1
<1>3. k \in 0..Len(z) /\ k \in Nat /\ k # 0 /\ Len(x) \in 0..k /\ k - 1 = Len(x)
  BY <1>1, <1>2
<1>. HIDE DEF k
<1>4. e \in Seq(Name) /\ Len(e) = k /\ SubSeq(e, 1, Len(x)) = SubSeq(z, 1, Len(x))
  BY <1>1, <1>3, ShortPrefix
<1>5. e # <<>>
  BY <1>3, <1>4
<1>6. e \in DOMAIN f
  <2>1. CASE k = Len(z)
    <3>1. e = z
      BY <1>1, <2>1
    <3>. QED
      BY <3>1
  <2>2. CASE k # Len(z)
    <3>1. k \in 0..(Len(z) - 1)
      BY <1>1, <1>3, <2>2
    <3>. QED
      BY <3>1, AboveIsDir
  <2>. QED
    BY <2>1, <2>2
<1>. HIDE DEF e
<1>7. Front(e) = x
  BY <1>1, <1>3, <1>4, <1>5, FrontIsPrefix
<1>8. Above(e, z)
  BY <1>1, <1>3, <1>4 DEF Above, e
<1>. QED
  BY <1>5, <1>6, <1>7, <1>8

\* Entries of one directory are not above each other.
LEMMA EntriesApart ==
    ASSUME NEW x, NEW e \in Seq(Name), NEW g \in Seq(Name), e # <<>>, g # <<>>, Front(e) = x, Front(g) = x, Above(e, g)
    PROVE  e = g
<1>1. Len(x) = Len(e) - 1 /\ Len(x) = Len(g) - 1
  BY FrontIsPrefix
<1>2. Len(e) = Len(g)
  BY <1>1
<1>3. SubSeq(g, 1, Len(g)) = g
  OBVIOUS
<1>. QED
  BY <1>2, <1>3 DEF Above

\* A directory is above its entries.
LEMMA DirAbove ==
    ASSUME NEW e \in Seq(Name), e # <<>>
    PROVE  Front(e) \in Seq(Name) /\ Above(Front(e), e)
<1>1. Front(e) = SubSeq(e, 1, Len(e) - 1) /\ Len(e) - 1 \in 0..Len(e) /\ Len(Front(e)) = Len(e) - 1
  BY FrontIsPrefix
<1>2. Front(e) \in Seq(Name)
  BY <1>1, ShortPrefix
<1>. QED
  BY <1>1, <1>2 DEF Above

-----------------------------------------------------------------------------
\* What stands where in two sequences put together.
LEMMA Concat ==
    ASSUME NEW S, NEW r \in Seq(S), NEW t \in Seq(S)
    PROVE  /\ DOMAIN (r \o t) = 1..(Len(r) + Len(t))
           /\ \A i \in 1..Len(r) : (r \o t)[i] = r[i]
           /\ \A i \in (Len(r) + 1)..(Len(r) + Len(t)) : (r \o t)[i] = t[i - Len(r)]
OBVIOUS

\* The frames of the search, after each of its steps.
LEMMA Frames ==
    ASSUME NEW S, NEW s \in Seq(S), s # <<>>, NEW A \in S, NEW B \in S
    PROVE  /\ Len(s) \in Nat /\ Len(s) > 0 /\ DOMAIN s = 1..Len(s) /\ Head(s) = s[1]
           /\ DOMAIN Tail(s) = 1..(Len(s) - 1) /\ \A i \in 1..(Len(s) - 1) : Tail(s)[i] = s[i + 1]
           /\ LET t == <<B>> \o Tail(s)
              IN  DOMAIN t = 1..Len(s) /\ t[1] = B /\ \A i \in 2..Len(s) : t[i] = s[i]
           /\ LET t == <<A, B>> \o Tail(s)
              IN  DOMAIN t = 1..(Len(s) + 1) /\ t[1] = A /\ t[2] = B /\ \A i \in 3..(Len(s) + 1) : t[i] = s[i - 1]
<1>1. Tail(s) \in Seq(S) /\ Len(Tail(s)) = Len(s) - 1 /\ \A i \in 1..(Len(s) - 1) : Tail(s)[i] = s[i + 1]
  OBVIOUS
<1>2. <<B>> \in Seq(S) /\ Len(<<B>>) = 1 /\ <<A, B>> \in Seq(S) /\ Len(<<A, B>>) = 2
  OBVIOUS
<1>3. Len(s) \in Nat /\ Len(s) > 0 /\ DOMAIN s = 1..Len(s) /\ Head(s) = s[1] /\ DOMAIN Tail(s) = 1..(Len(s) - 1)
  BY <1>1
<1>4. LET t == <<B>> \o Tail(s)
      IN  DOMAIN t = 1..Len(s) /\ t[1] = B /\ \A i \in 2..Len(s) : t[i] = s[i]
  <2>. DEFINE r == <<B>>
              u == Tail(s)
  <2>1. r \in Seq(S) /\ Len(r) = 1 /\ r[1] = B /\ u \in Seq(S) /\ Len(u) = Len(s) - 1
    BY <1>1, <1>2
  <2>2. \A i \in 1..(Len(s) - 1) : u[i] = s[i + 1]
    BY <1>1
  <2>. HIDE DEF r, u
  <2>3. /\ DOMAIN (r \o u) = 1..(Len(r) + Len(u))
        /\ \A i \in 1..Len(r) : (r \o u)[i] = r[i]
        /\ \A i \in (Len(r) + 1)..(Len(r) + Len(u)) : (r \o u)[i] = u[i - Len(r)]
    BY <2>1, Concat
  <2>4. Len(r) + Len(u) = Len(s) /\ 1 \in 1..Len(r)
    BY <1>3, <2>1
  <2>5. DOMAIN (r \o u) = 1..Len(s) /\ (r \o u)[1] = B
    BY <2>3, <2>4, <2>1
  <2>6. ASSUME NEW i \in 2..Len(s)
        PROVE  (r \o u)[i] = s[i]
    <3>1. i \in (Len(r) + 1)..(Len(r) + Len(u)) /\ i - Len(r) = i - 1 /\ i - 1 \in 1..(Len(s) - 1) /\ i - 1 + 1 = i
      BY <1>3, <2>1
    <3>. QED
      BY <2>3, <2>1, <2>2, <3>1
  <2>. QED
    BY <2>5, <2>6 DEF r, u
<1>5. LET t == <<A, B>> \o Tail(s)
      IN  DOMAIN t = 1..(Len(s) + 1) /\ t[1] = A /\ t[2] = B /\ \A i \in 3..(Len(s) + 1) : t[i] = s[i - 1]
  <2>. DEFINE r == <<A, B>>
              u == Tail(s)
  <2>1. r \in Seq(S) /\ Len(r) = 2 /\ r[1] = A /\ r[2] = B /\ u \in Seq(S) /\ Len(u) = Len(s) - 1
    BY <1>1, <1>2
  <2>2. \A i \in 1..(Len(s) - 1) : u[i] = s[i + 1]
    BY <1>1
  <2>. HIDE DEF r, u
  <2>3. /\ DOMAIN (r \o u) = 1..(Len(r) + Len(u))
        /\ \A i \in 1..Len(r) : (r \o u)[i] = r[i]
        /\ \A i \in (Len(r) + 1)..(Len(r) + Len(u)) : (r \o u)[i] = u[i - Len(r)]
    BY <2>1, Concat
  <2>4. DOMAIN (r \o u) = 1..(Len(s) + 1) /\ (r \o u)[1] = A /\ (r \o u)[2] = B
    BY <1>3, <2>3, <2>1
  <2>5. ASSUME NEW i \in 3..(Len(s) + 1)
        PROVE  (r \o u)[i] = s[i - 1]
    <3>1. i \in (Len(r) + 1)..(Len(r) + Len(u)) /\ i - Len(r) = i - 2 /\ i - 2 \in 1..(Len(s) - 1) /\ i - 2 + 1 = i - 1
      BY <1>3, <2>1
    <3>. QED
      BY <2>3, <2>1, <2>2, <3>1
  <2>. QED
    BY <2>4, <2>5 DEF r, u
<1>. QED
  BY <1>1, <1>3, <1>4, <1>5

\* What a search is about: entries and names.
Seeking(s, n, f) == IsTree(f) /\ s \in Seq(SUBSET DOMAIN f) /\ s # <<>> /\ n \in Seq(Seq(Name))

LEMMA EntriesArePaths ==
    ASSUME NEW s, NEW n, NEW f, Seeking(s, n, f), NEW i \in DOMAIN s, NEW e \in s[i]
    PROVE  e \in DOMAIN f /\ e \in Seq(Name)
<1>1. s[i] \in SUBSET DOMAIN f
  BY DEF Seeking
<1>. QED
  BY <1>1 DEF Seeking, IsTree

\* The directory's own search returns, and there is another.
LEMMA ReturnsSought ==
    ASSUME NEW s, NEW n, NEW W, NEW f, Seeking(s, n, f), Sought(s, n, W, f), Head(s) = {}
    PROVE  IF Tail(s) = <<>> THEN W \subseteq Range(n) /\ IsInjective(n) ELSE Sought(Tail(s), n, W, f)
<1>1. /\ Len(s) \in Nat /\ Len(s) > 0 /\ DOMAIN s = 1..Len(s) /\ Head(s) = s[1]
      /\ DOMAIN Tail(s) = 1..(Len(s) - 1) /\ \A i \in 1..(Len(s) - 1) : Tail(s)[i] = s[i + 1]
  <2>1. {} \in SUBSET DOMAIN f
    OBVIOUS
  <2>. QED
    BY <2>1, Frames DEF Seeking
<1>. DEFINE t == Tail(s)
<1>2. \A i \in DOMAIN t : i + 1 \in DOMAIN s /\ t[i] = s[i + 1] /\ i \in Int
  BY <1>1
<1>3. ASSUME NEW x \in W, x \notin Range(n)
      PROVE  Left(t, x)
  <2>1. PICK i \in DOMAIN s : \E e \in s[i] : Above(e, x)
    BY <1>3 DEF Sought, Left
  <2>2. i # 1 /\ i \in 1..Len(s)
    BY <1>1, <2>1
  <2>3. i - 1 \in DOMAIN t /\ t[i - 1] = s[i]
    <3>1. i - 1 \in 1..(Len(s) - 1) /\ i - 1 + 1 = i
      BY <1>1, <2>2
    <3>. QED
      BY <1>1, <3>1
  <2>. HIDE DEF t
  <2>. QED
    BY <2>1, <2>3 DEF Left
<1>4. CASE t = <<>>
  <2>1. \A x : ~Left(<<>>, x)
    BY DEF Left
  <2>2. W \subseteq Range(n)
    BY <1>3, <1>4, <2>1
  <2>. QED
    BY <1>4, <2>2 DEF Sought
<1>5. CASE t # <<>>
  <2>. HIDE DEF t
  <2>1. Apart(t)
    <3>. SUFFICES ASSUME NEW i \in DOMAIN t, NEW j \in DOMAIN t, NEW e \in t[i], NEW g \in t[j], Above(e, g)
                  PROVE  i = j /\ e = g
      BY DEF Apart
    <3>1. i + 1 = j + 1 /\ e = g
      BY <1>2 DEF Sought, Apart
    <3>. QED
      BY <1>2, <3>1
  <2>2. Fresh(t, n)
    BY <1>2 DEF Sought, Fresh
  <2>3. Sought(t, n, W, f)
    BY <1>3, <2>1, <2>2 DEF Sought
  <2>. QED
    BY <1>5, <2>3 DEF t
<1>. QED
  BY <1>4, <1>5

\* A file is listed.
LEMMA ListedSought ==
    ASSUME NEW s, NEW n, NEW W, NEW f, Seeking(s, n, f), Sought(s, n, W, f), NEW x \in Head(s), f[x] # Dir
    PROVE  Sought(<<Head(s) \ {x}>> \o Tail(s), Append(n, x), W, f)
<1>. DEFINE t == <<Head(s) \ {x}>> \o Tail(s)
            m == Append(n, x)
<1>1. Head(s) \in SUBSET DOMAIN f
  BY DEF Seeking
<1>2. /\ Len(s) \in Nat /\ Len(s) > 0 /\ DOMAIN s = 1..Len(s) /\ Head(s) = s[1]
      /\ DOMAIN t = 1..Len(s) /\ t[1] = Head(s) \ {x} /\ \A i \in 2..Len(s) : t[i] = s[i]
  <2>1. Head(s) \ {x} \in SUBSET DOMAIN f
    BY <1>1
  <2>. QED
    BY <2>1, Frames DEF Seeking
<1>3. x \in DOMAIN f /\ x \in Seq(Name) /\ 1 \in DOMAIN s /\ x \in s[1]
  BY <1>1, <1>2 DEF Seeking, IsTree
<1>4. /\ m \in Seq(Seq(Name)) /\ DOMAIN m = DOMAIN n \cup {Len(n) + 1} /\ m[Len(n) + 1] = x
      /\ \A k \in DOMAIN n : m[k] = n[k] /\ k # Len(n) + 1
  BY <1>3 DEF Seeking
<1>5. DOMAIN t = DOMAIN s /\ \A i \in DOMAIN t : t[i] \subseteq s[i] /\ (i = 1 => x \notin t[i])
  BY <1>2
<1>. HIDE DEF t, m
<1>6. Apart(t)
  BY <1>5 DEF Sought, Apart
<1>7. Fresh(t, m)
  <2>. SUFFICES ASSUME NEW i \in DOMAIN t, NEW k \in DOMAIN m, NEW e \in t[i], Above(e, m[k])
                PROVE  FALSE
    BY DEF Fresh
  <2>1. i \in DOMAIN s /\ e \in s[i]
    BY <1>5
  <2>2. CASE k \in DOMAIN n
    BY <1>4, <2>1, <2>2 DEF Sought, Fresh
  <2>3. CASE k = Len(n) + 1
    <3>1. i = 1 /\ e = x
      BY <1>3, <1>4, <2>1, <2>3 DEF Sought, Apart
    <3>. QED
      BY <1>5, <3>1
  <2>. QED
    BY <1>4, <2>2, <2>3
<1>8. \A k \in DOMAIN n : n[k] # x
  BY <1>3, AboveItself DEF Sought, Fresh
<1>9. IsInjective(m)
  BY <1>4, <1>8 DEF Sought, IsInjective
<1>10. ASSUME NEW z \in W
       PROVE  z \in Range(m) \/ Left(t, z)
  <2>1. CASE z \in Range(n)
    BY <1>4, <2>1 DEF Range
  <2>2. CASE z \notin Range(n)
    <3>1. PICK i \in DOMAIN s : \E e \in s[i] : Above(e, z)
      BY <2>2 DEF Sought, Left
    <3>2. PICK e \in s[i] : Above(e, z)
      BY <3>1
    <3>3. CASE e = x
      <4>1. z = x
        BY <1>3, <3>2, <3>3, AboveFile DEF Sought, Seeking
      <4>. QED
        BY <1>4, <4>1 DEF Range
    <3>4. CASE e # x
      <4>1. i \in DOMAIN t /\ e \in t[i]
        BY <1>2, <3>4
      <4>. QED
        BY <3>2, <4>1 DEF Left
    <3>. QED
      BY <3>3, <3>4
  <2>. QED
    BY <2>1, <2>2
<1>11. Sought(t, m, W, f)
  BY <1>6, <1>7, <1>9, <1>10 DEF Sought
<1>. QED
  BY <1>11 DEF t, m

\* The search of a directory begins.
LEMMA DescendedSought ==
    ASSUME NEW s, NEW n, NEW W, NEW f, Seeking(s, n, f), Sought(s, n, W, f), NEW x \in Head(s), f[x] = Dir,
           NEW E, E = {y \in DOMAIN f : y # <<>> /\ Front(y) = x}
    PROVE  Sought(Descends(s, x, E), n, W, f)
<1>. DEFINE t == Descends(s, x, E)
<1>1. Head(s) \in SUBSET DOMAIN f
  BY DEF Seeking
<1>2. /\ Len(s) \in Nat /\ Len(s) > 0 /\ DOMAIN s = 1..Len(s) /\ Head(s) = s[1]
      /\ DOMAIN t = 1..(Len(s) + 1) /\ t[1] = E /\ t[2] = Head(s) \ {x} /\ \A i \in 3..(Len(s) + 1) : t[i] = s[i - 1]
  <2>1. Head(s) \ {x} \in SUBSET DOMAIN f /\ E \in SUBSET DOMAIN f
    BY <1>1
  <2>. QED
    BY <2>1, Frames DEF Seeking, Descends
<1>3. x \in DOMAIN f /\ x \in Seq(Name) /\ 1 \in DOMAIN s /\ x \in s[1]
  BY <1>1, <1>2 DEF Seeking, IsTree
<1>4. ASSUME NEW i \in DOMAIN t, i # 1
      PROVE  i - 1 \in DOMAIN s /\ t[i] \subseteq s[i - 1] /\ (i = 2 => x \notin t[i]) /\ i \in Int
  <2>. HIDE DEF t
  <2>1. i \in 2..(Len(s) + 1) /\ i \in Int /\ i - 1 \in DOMAIN s
    BY <1>2, <1>4
  <2>2. CASE i = 2
    BY <1>2, <2>1, <2>2
  <2>3. CASE i # 2
    BY <1>2, <2>1, <2>3
  <2>. QED
    BY <2>1, <2>2, <2>3
<1>. HIDE DEF t
<1>5. ASSUME NEW e \in E
      PROVE  e \in Seq(Name) /\ e # <<>> /\ Front(e) = x /\ Above(x, e)
  <2>1. e \in Seq(Name) /\ e # <<>> /\ Front(e) = x
    BY DEF Seeking, IsTree
  <2>. QED
    BY <2>1, DirAbove
\* An entry of an outer frame is neither above an entry of the new one nor below it.
<1>6. ASSUME NEW i \in DOMAIN s, NEW g \in s[i], NEW e \in E, Above(e, g) \/ Above(g, e)
      PROVE  i = 1 /\ g = x
  <2>1. g \in Seq(Name) /\ e \in Seq(Name) /\ Above(x, e) /\ Front(e) = x /\ e # <<>>
    BY <1>5, EntriesArePaths
  <2>2. CASE Above(e, g)
    <3>1. Above(x, g)
      BY <1>3, <2>1, <2>2, AboveTwice
    <3>. QED
      BY <1>3, <3>1 DEF Sought, Apart
  <2>3. CASE Above(g, e)
    <3>1. CASE Len(g) = Len(e)
      <4>1. g = e
        <5>1. SubSeq(e, 1, Len(e)) = e
          BY <2>1
        <5>. QED
          BY <2>3, <3>1, <5>1 DEF Above
      <4>2. Above(x, g)
        BY <2>1, <4>1
      <4>. QED
        BY <1>3, <4>2 DEF Sought, Apart
    <3>2. CASE Len(g) # Len(e)
      <4>1. Front(e) = SubSeq(e, 1, Len(e) - 1) /\ Len(Front(e)) = Len(e) - 1 /\ Len(e) - 1 \in 0..Len(e)
        BY <2>1, FrontIsPrefix
      <4>2. Len(g) \in 0..(Len(e) - 1) /\ SubSeq(e, 1, Len(g)) = g
        BY <2>1, <2>3, <3>2 DEF Above
      <4>3. SubSeq(SubSeq(e, 1, Len(e) - 1), 1, Len(g)) = SubSeq(e, 1, Len(g))
        BY <2>1, <4>1, <4>2, ShortPrefix
      <4>4. Above(g, x)
        BY <2>1, <4>1, <4>2, <4>3 DEF Above
      <4>. QED
        BY <1>3, <4>4 DEF Sought, Apart
    <3>. QED
      BY <3>1, <3>2
  <2>. QED
    BY <1>6, <2>2, <2>3
<1>7. ASSUME NEW i \in DOMAIN t, i # 1, NEW g \in t[i], NEW e \in E
      PROVE  ~Above(e, g) /\ ~Above(g, e)
  <2>1. i - 1 \in DOMAIN s /\ g \in s[i - 1] /\ (i = 2 => g # x) /\ i \in Int
    BY <1>4, <1>7
  <2>2. ASSUME Above(e, g) \/ Above(g, e)
        PROVE  FALSE
    <3>1. i - 1 = 1 /\ g = x
      BY <1>6, <2>1, <2>2
    <3>. QED
      BY <2>1, <3>1
  <2>. QED
    BY <2>2
<1>8. Apart(t)
  <2>. SUFFICES ASSUME NEW i \in DOMAIN t, NEW j \in DOMAIN t, NEW e \in t[i], NEW g \in t[j], Above(e, g)
                PROVE  i = j /\ e = g
    BY DEF Apart
  <2>1. CASE i = 1 /\ j = 1
    BY <1>2, <1>5, <2>1, EntriesApart
  <2>2. CASE i = 1 /\ j # 1
    BY <1>2, <1>7, <2>2
  <2>3. CASE i # 1 /\ j = 1
    BY <1>2, <1>7, <2>3
  <2>4. CASE i # 1 /\ j # 1
    <3>1. i - 1 \in DOMAIN s /\ e \in s[i - 1] /\ j - 1 \in DOMAIN s /\ g \in s[j - 1] /\ i \in Int /\ j \in Int
      BY <1>4, <2>4
    <3>2. i - 1 = j - 1 /\ e = g
      BY <3>1 DEF Sought, Apart
    <3>. QED
      BY <3>1, <3>2
  <2>. QED
    BY <2>1, <2>2, <2>3, <2>4
<1>9. Fresh(t, n)
  <2>. SUFFICES ASSUME NEW i \in DOMAIN t, NEW k \in DOMAIN n, NEW e \in t[i], Above(e, n[k])
                PROVE  FALSE
    BY DEF Fresh
  <2>1. n[k] \in Seq(Name)
    BY DEF Seeking
  <2>2. CASE i = 1
    <3>1. Above(x, n[k])
      BY <1>2, <1>3, <1>5, <2>1, <2>2, AboveTwice
    <3>. QED
      BY <1>3, <3>1 DEF Sought, Fresh
  <2>3. CASE i # 1
    <3>1. i - 1 \in DOMAIN s /\ e \in s[i - 1]
      BY <1>4, <2>3
    <3>. QED
      BY <3>1 DEF Sought, Fresh
  <2>. QED
    BY <2>2, <2>3
<1>10. ASSUME NEW z \in W, z \notin Range(n)
       PROVE  Left(t, z)
  <2>1. PICK i \in DOMAIN s : \E e \in s[i] : Above(e, z)
    BY <1>10 DEF Sought, Left
  <2>2. PICK e \in s[i] : Above(e, z)
    BY <2>1
  <2>3. CASE e = x
    <3>1. z \in DOMAIN f /\ z # x
      BY DEF Sought
    <3>2. PICK c \in E : Above(c, z)
      BY <1>3, <2>2, <2>3, <3>1, EntryAbove DEF Seeking
    <3>3. 1 \in DOMAIN t /\ c \in t[1]
      BY <1>2
    <3>. QED
      BY <3>2, <3>3 DEF Left
  <2>4. CASE e # x
    <3>1. i + 1 \in DOMAIN t /\ e \in t[i + 1]
      <4>1. CASE i = 1
        BY <1>2, <2>4, <4>1
      <4>2. CASE i # 1
        <5>1. i + 1 \in 3..(Len(s) + 1) /\ i + 1 - 1 = i
          BY <1>2, <4>2
        <5>. QED
          BY <1>2, <5>1
      <4>. QED
        BY <4>1, <4>2
    <3>. QED
      BY <2>2, <3>1 DEF Left
  <2>. QED
    BY <2>3, <2>4
<1>11. Sought(t, n, W, f)
  BY <1>8, <1>9, <1>10 DEF Sought
<1>. QED
  BY <1>11 DEF t

\* The constructor begins the search of the archive's directory.
LEMMA OpenedSought ==
    ASSUME NEW f, IsTree(f), NEW E, E = {y \in DOMAIN f : y # <<>> /\ Front(y) = Root}
    PROVE  Sought(<<E>>, <<>>, FilesIn(f), f)
<1>. DEFINE t == <<E>>
<1>1. DOMAIN t = {1} /\ t[1] = E
  OBVIOUS
<1>. HIDE DEF t
<1>2. Root \in Seq(Name)
  BY DirAssumption
<1>3. Apart(t)
  <2>. SUFFICES ASSUME NEW i \in DOMAIN t, NEW j \in DOMAIN t, NEW e \in t[i], NEW g \in t[j], Above(e, g)
                PROVE  i = j /\ e = g
    BY DEF Apart
  <2>1. e \in Seq(Name) /\ g \in Seq(Name) /\ e # <<>> /\ g # <<>> /\ Front(e) = Root /\ Front(g) = Root
    BY <1>1 DEF IsTree
  <2>. QED
    BY <1>1, <2>1, EntriesApart
<1>4. Fresh(t, <<>>) /\ IsInjective(<<>>)
  BY DEF Fresh, IsInjective
<1>5. ASSUME NEW z \in FilesIn(f)
      PROVE  z \in DOMAIN f /\ f[z] # Dir /\ Left(t, z)
  <2>1. z \in DOMAIN f /\ f[z] # Dir /\ Len(z) > Len(Root) /\ SubSeq(z, 1, Len(Root)) = Root
    BY DEF FilesIn
  <2>2. Above(Root, z) /\ z # Root
    <3>1. z \in Seq(Name)
      BY <2>1 DEF IsTree
    <3>. QED
      BY <1>2, <2>1, <3>1 DEF Above
  <2>3. PICK e \in E : Above(e, z)
    BY <1>2, <2>1, <2>2, EntryAbove
  <2>. QED
    BY <1>1, <2>1, <2>3 DEF Left
<1>6. Sought(t, <<>>, FilesIn(f), f)
  BY <1>3, <1>4, <1>5 DEF Sought
<1>. QED
  BY <1>6 DEF t

\* The search of q, and what is found when it ends.
Searching(q) == search[q] # <<>> => Sought(search[q], m_fileNames[q], there[q], node)
Ends(q) == search[q] # <<>> /\ search'[q] = <<>> /\ m_mode'[q] # "closed"
Found(q) == there[q] \subseteq Range(m_fileNames[q]) /\ IsInjective(m_fileNames[q])

SInv == IInv /\ \A q \in Proc : Searching(q)

\* How the history variable follows.
Remembers == there' = [q \in Proc |-> IF search'[q] = <<>> THEN {}
                                      ELSE IF search[q] = <<>> THEN FilesIn(node')
                                      ELSE there[q]]

Seeks(q) == Holds(q) /\ Searching(q)' /\ (Ends(q) => Found(q))

\* Most calls find no search under way, and begin none.
LEMMA NoSearch ==
    ASSUME SInv, NEW q \in Proc, Holds(q), search'[q] = <<>>, search[q] = <<>> \/ m_mode'[q] = "closed"
    PROVE  Seeks(q)
BY DEF Seeks, Searching, Ends

LEMMA IdleSearch ==
    ASSUME IInv, NEW q \in Proc
    PROVE  /\ m_mode[q] = "closed" => search[q] = <<>> /\ m_fileNames[q] = <<>>
           /\ call[q] # Idle => search[q] = <<>>
           /\ search[q] # <<>> => Seeking(search[q], m_fileNames[q], node)
BY LocalHolds DEF Local, Calls, Seeking, IInv, TypeOK

LEMMA OpenSeeks ==
    ASSUME SInv, NEW q \in Proc, NEW mode \in {"Read", "Write", "Append"}, Open(q, mode), Remembers
    PROVE  Seeks(q)
<1>. DEFINE E == {y \in DOMAIN node' : y # <<>> /\ Front(y) = Root}
<1>1. Holds(q) /\ Grows(node, node') /\ search'[q] = <<E>>
  BY OpenHolds DEF SInv
<1>2. search[q] = <<>> /\ m_fileNames'[q] = <<>>
  BY IdleSearch DEF SInv, Open
<1>3. IsTree(node')
  BY <1>1 DEF Grows
<1>. HIDE DEF E
<1>4. there'[q] = FilesIn(node') /\ search'[q] # <<>>
  BY <1>1, <1>2 DEF Remembers
<1>5. PICK f : f = node'
  OBVIOUS
<1>6. Sought(<<E>>, <<>>, FilesIn(f), f)
  BY <1>3, <1>5, OpenedSought DEF E
<1>7. Sought(search'[q], m_fileNames'[q], there'[q], node')
  BY <1>1, <1>2, <1>4, <1>5, <1>6
<1>. QED
  BY <1>1, <1>2, <1>7 DEF Seeks, Searching, Ends

LEMMA SearchEntrySeeks ==
    ASSUME SInv, NEW q \in Proc, NEW x \in DOMAIN node, SearchEntry(q, x), Remembers
    PROVE  Seeks(q)
<1>1. Holds(q) /\ UNCHANGED node /\ search[q] # <<>> /\ x \in Head(search[q])
  BY SearchEntryHolds DEF SInv, SearchEntry
<1>2. Seeking(search[q], m_fileNames[q], node) /\ Sought(search[q], m_fileNames[q], there[q], node)
  BY <1>1, IdleSearch DEF SInv, Searching
<1>3. search'[q] # <<>> /\ Sought(search'[q], m_fileNames'[q], there[q], node)
  <2>1. CASE Is(x, "dir")
    <3>1. search'[q] = Descends(search[q], x, Entries(x)) /\ m_fileNames'[q] = m_fileNames[q] /\ node[x] = Dir
      BY <2>1, Domains DEF SearchEntry, SInv, Is
    <3>2. Sought(Descends(search[q], x, Entries(x)), m_fileNames[q], there[q], node)
      BY <1>1, <1>2, <3>1, DescendedSought DEF Entries
    <3>3. Descends(search[q], x, Entries(x)) # <<>>
      <4>1. /\ search[q] \in Seq(SUBSET DOMAIN node)
            /\ Head(search[q]) \in SUBSET DOMAIN node /\ Entries(x) \in SUBSET DOMAIN node
        BY <1>1, <1>2 DEF Seeking, Entries
      <4>. HIDE DEF Entries
      <4>. QED
        BY <1>1, <4>1, Frames DEF Descends
    <3>. QED
      BY <3>1, <3>2, <3>3
  <2>2. CASE ~Is(x, "dir")
    <3>1. /\ search'[q] = <<Head(search[q]) \ {x}>> \o Tail(search[q])
          /\ m_fileNames'[q] = Append(m_fileNames[q], x) /\ node[x] # Dir
      BY <2>2, Domains DEF SearchEntry, SInv, Is
    <3>2. Sought(<<Head(search[q]) \ {x}>> \o Tail(search[q]), Append(m_fileNames[q], x), there[q], node)
      BY <1>1, <1>2, <3>1, ListedSought
    <3>3. <<Head(search[q]) \ {x}>> \o Tail(search[q]) # <<>>
      <4>1. search[q] \in Seq(SUBSET DOMAIN node) /\ Head(search[q]) \ {x} \in SUBSET DOMAIN node
        BY <1>1, <1>2 DEF Seeking
      <4>. QED
        BY <1>1, <4>1, Frames
    <3>. QED
      BY <3>1, <3>2, <3>3
  <2>. QED
    BY <2>1, <2>2
<1>4. there'[q] = there[q]
  BY <1>1, <1>3 DEF Remembers
<1>. QED
  BY <1>1, <1>3, <1>4 DEF Seeks, Searching, Ends

LEMMA SearchReturnsSeeks ==
    ASSUME SInv, NEW q \in Proc, SearchReturns(q), Remembers
    PROVE  Seeks(q)
<1>1. Holds(q) /\ UNCHANGED <<node, m_fileNames>> /\ search[q] # <<>> /\ Head(search[q]) = {} /\ search'[q] = Tail(search[q])
  BY SearchReturnsHolds DEF SInv, SearchReturns
<1>2. Seeking(search[q], m_fileNames[q], node) /\ Sought(search[q], m_fileNames[q], there[q], node)
  BY <1>1, IdleSearch DEF SInv, Searching
<1>3. IF Tail(search[q]) = <<>> THEN Found(q) ELSE Sought(Tail(search[q]), m_fileNames[q], there[q], node)
  BY <1>1, <1>2, ReturnsSought DEF Found
<1>4. search'[q] # <<>> => there'[q] = there[q]
  BY <1>1 DEF Remembers
<1>. QED
  BY <1>1, <1>3, <1>4 DEF Seeks, Searching, Ends

LEMMA OtherSeeks ==
    ASSUME SInv, NEW q \in Proc,
           \/ \E mode \in {"Read", "Write", "Append"} : OpenThrows(q, mode)
           \/ \E p \in Path, c \in Content : StartWrite(q, p, c)
           \/ \E p \in Path : WriteThrows(q, p) \/ StartRead(q, p) \/ ReadMissing(q, p)
           \/ \E n : WriteSome(q, n)
           \/ FinishWrite(q) \/ FinishRead(q)
           \/ Forget(q)
    PROVE  Seeks(q)
<1>1. ASSUME NEW mode \in {"Read", "Write", "Append"}, OpenThrows(q, mode)
      PROVE  Holds(q) /\ search'[q] = <<>> /\ search[q] = <<>>
  BY <1>1, RefusalHolds, IdleSearch DEF SInv, OpenThrows
<1>2. ASSUME NEW p \in Path, NEW c \in Content, StartWrite(q, p, c)
      PROVE  Holds(q) /\ search'[q] = <<>> /\ search[q] = <<>>
  BY <1>2, StartWriteHolds DEF SInv, StartWrite, Free
<1>3. ASSUME NEW p \in Path, WriteThrows(q, p) \/ StartRead(q, p) \/ ReadMissing(q, p)
      PROVE  Holds(q) /\ search'[q] = <<>> /\ search[q] = <<>>
  BY <1>3, WriteThrowsHolds, StartReadHolds, RefusalHolds DEF SInv, WriteThrows, StartRead, ReadMissing, Free
<1>4. ASSUME NEW n, WriteSome(q, n)
      PROVE  Holds(q) /\ search'[q] = <<>> /\ search[q] = <<>>
  BY <1>4, WriteSomeHolds, IdleSearch DEF SInv, WriteSome
<1>5. ASSUME FinishWrite(q) \/ FinishRead(q)
      PROVE  Holds(q) /\ search'[q] = <<>> /\ search[q] = <<>>
  BY <1>5, FinishWriteHolds, FinishReadHolds, IdleSearch DEF SInv, FinishWrite, FinishRead
<1>6. ASSUME Forget(q)
      PROVE  Holds(q) /\ search'[q] = <<>> /\ m_mode'[q] = "closed"
  BY <1>6, ForgetHolds DEF SInv
<1>. QED
  BY <1>1, <1>2, <1>3, <1>4, <1>5, <1>6, NoSearch

LEMMA NextSeeks ==
    ASSUME SInv, Next, Remembers
    PROVE  \E q \in Proc : Seeks(q)
<1>1. PICK q \in Proc :
        \/ \E mode \in {"Read", "Write", "Append"} : Open(q, mode) \/ OpenThrows(q, mode)
        \/ \E x \in DOMAIN node : SearchEntry(q, x)
        \/ SearchReturns(q)
        \/ \E p \in Path, c \in Content : StartWrite(q, p, c)
        \/ \E p \in Path : WriteThrows(q, p) \/ StartRead(q, p) \/ ReadMissing(q, p)
        \/ \E n : WriteSome(q, n)
        \/ FinishWrite(q) \/ FinishRead(q)
        \/ Forget(q)
  BY DEF Next, Close, Die
<1>. QED
  BY <1>1, OpenSeeks, SearchEntrySeeks, SearchReturnsSeeks, OtherSeeks

\* What others do leaves a search as it was: nothing is removed.
LEMMA SeeksHolds ==
    ASSUME SInv, Remembers, NEW q \in Proc, Seeks(q)
    PROVE  SInv' /\ \A r \in Proc : Ends(r) => Found(r)
<1>1. IInv'
  BY OneActs DEF Seeks, Holds, SInv
<1>2. ASSUME NEW r \in Proc, r # q
      PROVE  Searching(r)' /\ (Ends(r) => Found(r))
  <2>1. search'[r] = search[r] /\ m_fileNames'[r] = m_fileNames[r]
    BY <1>2, OtherCall DEF Seeks, Holds, SInv
  <2>2. search[r] # <<>> => there'[r] = there[r] /\ Sought(search[r], m_fileNames[r], there[r], node)
    BY <2>1 DEF Remembers, SInv, Searching
  <2>3. search[r] # <<>> => Sought(search[r], m_fileNames[r], there[r], node')
    BY <2>2 DEF Sought, Seeks, Holds, Keeps
  <2>. QED
    BY <2>1, <2>2, <2>3 DEF Searching, Ends
<1>. QED
  BY <1>1, <1>2 DEF SInv, Seeks

\* A search that ends lists every file that was there when it began, once, whatever
\* other processes make meanwhile (DirArchive.cpp:157-190).
THEOREM SearchFindsAll == ObservedSpec => SearchFinds
<1>1. ObservedInit => SInv
  BY InitHolds DEF ObservedInit, SInv, Searching, Init
<1>2. SInv /\ [ObservedNext]_observed =>
        SInv' /\ ((\A q \in Proc : Ends(q) => Found(q)) \/ UNCHANGED observed)
  <2>. SUFFICES ASSUME SInv, [ObservedNext]_observed
                PROVE  SInv' /\ ((\A q \in Proc : Ends(q) => Found(q)) \/ UNCHANGED observed)
    OBVIOUS
  <2>1. CASE ObservedNext
    <3>1. Next /\ Remembers
      BY <2>1 DEF ObservedNext, Remembers
    <3>. QED
      BY <3>1, NextSeeks, SeeksHolds
  <2>2. CASE UNCHANGED observed
    <3>1. UNCHANGED vars /\ UNCHANGED <<node, m_fileNames, search, there>>
      BY <2>2 DEF observed, vars
    <3>2. IInv' /\ \A q \in Proc : Searching(q)'
      BY <3>1, Unchanged DEF SInv, Searching
    <3>. QED
      BY <2>2, <3>2 DEF SInv
  <2>. QED
    BY <2>1, <2>2
<1>3. (\A q \in Proc : Ends(q) => Found(q)) \/ UNCHANGED observed =>
        [\A q \in Proc :
            search[q] # <<>> /\ search'[q] = <<>> /\ m_mode'[q] # "closed" =>
                /\ there[q] \subseteq Range(m_fileNames[q])
                /\ IsInjective(m_fileNames[q])]_<<vars, torn, overlapped, there>>
  BY DEF Ends, Found, observed
<1>. QED
  BY <1>1, <1>2, <1>3, PTL DEF ObservedSpec, observed, SearchFinds
=============================================================================
