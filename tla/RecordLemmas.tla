---------------------------- MODULE RecordLemmas ----------------------------
(***************************************************************************)
(* Facts about positions and sequences that the proofs of several parts of *)
(* the system rest on, and about Record's operators: what parsing a path   *)
(* of any length gives, and when a path and a record are found again from  *)
(* each other.                                                             *)
(***************************************************************************)
EXTENDS Record, Integers, SequenceTheorems, FiniteSetTheorems, TLAPS

-----------------------------------------------------------------------------
(* Positions *)

\* A set of natural numbers that is not empty has a least element.
LEMMA LeastElement ==
    ASSUME NEW T \in SUBSET Nat, T # {}
    PROVE  \E least \in T : \A k \in T : least <= k
<1>. DEFINE Upto(k) == 0..k
            family == {Upto(k) : k \in T}
<1>1. family \subseteq FiniteSubsetsOf(Nat) /\ family # {}
  <2>1. ASSUME NEW k \in T
        PROVE  IsFiniteSet(Upto(k)) /\ Upto(k) \subseteq Nat
    <3>1. k \in Int /\ 0 \in Int
      OBVIOUS
    <3>. QED
      BY <3>1, FS_Interval
  <2>. QED
    BY <2>1 DEF FiniteSubsetsOf
<1>2. \E X \in family : \A Y \in family : <<Y, X>> \notin StrictSubsetOrdering(Nat)
  <2>. HIDE DEF family
  <2>. QED
    BY <1>1, FS_StrictSubsetOrderingWellFounded, WFMin
<1>3. PICK least \in T : \A k \in T : <<Upto(k), Upto(least)>> \notin StrictSubsetOrdering(Nat)
  BY <1>2
<1>4. ASSUME NEW k \in T, k < least
      PROVE  <<Upto(k), Upto(least)>> \in StrictSubsetOrdering(Nat)
  BY <1>4 DEF StrictSubsetOrdering
<1>5. \A k \in T : ~(k < least)
  <2>. HIDE DEF Upto
  <2>. QED
    BY <1>3, <1>4
<1>6. \A k \in T : k \in Nat /\ least \in Nat
  OBVIOUS
<1>. QED
  BY <1>5, <1>6

\* A set of positions that is not empty has a last one.
LEMMA LastPosition ==
    ASSUME NEW n \in Nat, NEW T \in SUBSET (1..n), T # {}
    PROVE  \E i \in T : \A j \in T : j <= i
<1>. DEFINE back == {n - i : i \in T}
<1>1. back \in SUBSET Nat /\ back # {}
  <2>1. \A i \in T : i \in 1..n /\ n - i \in Nat
    OBVIOUS
  <2>. QED
    BY <2>1
<1>2. PICK least \in back : \A k \in back : least <= k
  <2>. HIDE DEF back
  <2>. QED
    BY <1>1, LeastElement
<1>3. PICK i \in T : least = n - i
  OBVIOUS
<1>4. \A j \in T : n - i <= n - j
  BY <1>2, <1>3
<1>5. \A j \in T : j \in Int
  OBVIOUS
<1>. QED
  BY <1>4, <1>5

-----------------------------------------------------------------------------
(* Sequences of elements of a set *)

\* Sequences of one element.
LEMMA OneElement ==
    ASSUME NEW S, NEW e \in S
    PROVE  <<e>> \in Seq(S) /\ <<e>> # <<>>
OBVIOUS

\* What is found at the end of a sequence that one element, or three, were added to.
LEMMA OneAdded ==
    ASSUME NEW S, NEW g \in Seq(S), NEW x \in S
    PROVE  LET path == g \o <<x>>
           IN  /\ path \in Seq(S) /\ path # <<>> /\ Len(path) = Len(g) + 1
               /\ path[Len(path)] = x
               /\ SubSeq(path, 1, Len(path) - 1) = g
               /\ \A k \in 1..Len(g) : path[k] = g[k]
OBVIOUS

LEMMA ThreeAdded ==
    ASSUME NEW S, NEW g \in Seq(S), NEW x \in S, NEW y \in S, NEW z \in S
    PROVE  LET path == g \o <<x, y, z>>
           IN  /\ path \in Seq(S) /\ Len(path) = Len(g) + 3
               /\ path[Len(path) - 2] = x /\ path[Len(path) - 1] = y /\ path[Len(path)] = z
               /\ SubSeq(path, 1, Len(path) - 3) = g
OBVIOUS

\* A sequence is what comes before its last element, or its last three, and those.
LEMMA LastOne ==
    ASSUME NEW S, NEW path \in Seq(S), path # <<>>
    PROVE  SubSeq(path, 1, Len(path) - 1) \o <<path[Len(path)]>> = path
OBVIOUS

LEMMA LastThreeElements ==
    ASSUME NEW S, NEW path \in Seq(S), Len(path) > 2
    PROVE  SubSeq(path, 1, Len(path) - 3)
             \o <<path[Len(path) - 2], path[Len(path) - 1], path[Len(path)]>> = path
OBVIOUS

LEMMA Prefix ==
    ASSUME NEW S, NEW path \in Seq(S), NEW k \in 0..Len(path)
    PROVE  LET d == SubSeq(path, 1, k)
           IN  d \in Seq(S) /\ Len(d) = k /\ \A i \in 1..k : d[i] = path[i]
OBVIOUS

\* A prefix and what follows it.
LEMMA Parts ==
    ASSUME NEW S, NEW s \in Seq(S), NEW k \in 0..Len(s)
    PROVE  SubSeq(s, 1, k) \in Seq(S) /\ SubSeq(s, k + 1, Len(s)) \in Seq(S)
OBVIOUS

\* A sequence written over another, and one written after it.
LEMMA Replaced ==
    ASSUME NEW S, NEW f \in Seq(S), NEW s \in Seq(S), NEW o \in 0..Len(f)
    PROVE  SubSeq(f, 1, o) \o s \o SubSeq(f, o + Len(s) + 1, Len(f)) \in Seq(S)
<1>1. SubSeq(f, 1, o) \in Seq(S)
  BY Parts
<1>2. SubSeq(f, o + Len(s) + 1, Len(f)) \in Seq(S)
  <2>1. /\ o + Len(s) + 1 \in Int /\ Len(f) \in Int
        /\ \A i \in (o + Len(s) + 1)..Len(f) : f[i] \in S
    OBVIOUS
  <2>. QED
    BY <2>1, SubSeqProperties
<1>. QED
  BY <1>1, <1>2, ConcatProperties

LEMMA Joined ==
    ASSUME NEW S, NEW s \in Seq(S), NEW t \in Seq(S)
    PROVE  s \o t \in Seq(S) /\ Len(s \o t) = Len(s) + Len(t)
OBVIOUS

LEMMA Lists ==
    ASSUME NEW S
    PROVE  /\ <<>> \in Seq(S)
           /\ \A x \in S : <<x>> \in Seq(S)
           /\ \A x, y, z \in S : <<x, y, z>> \in Seq(S) /\ Len(<<x, y, z>>) = 3
OBVIOUS

-----------------------------------------------------------------------------
(* Groups *)

\* The strings; the provers do not know that these three are among them.
Word == STRING \cup {"", "frames", "vars"}

\* What stands between two slashes.
Text == Seq(Word)

\* A group as Group makes them: it does not begin with an empty directory.
StartsNamed(dirSeq) == dirSeq = <<>> \/ dirSeq[1] # NoText

Marks == {<<"frames">>, <<"vars">>}

-----------------------------------------------------------------------------
(* The parts of a path *)

\* Group drops a prefix and nothing else.
LEMMA GroupIsSuffix ==
    ASSUME NEW d \in Seq(Text)
    PROVE  \/ Group(d) = <<>>
           \/ \E i \in DOMAIN d : d[i] # NoText /\ Group(d) = SubSeq(d, i, Len(d))
<1>. DEFINE named == {i \in DOMAIN d : d[i] # NoText}
<1>1. CASE named = {}
  BY <1>1 DEF Group
<1>2. CASE named # {}
  <2>1. PICK i \in named : \A j \in named : i <= j
    <3>1. named \in SUBSET Nat
      BY DEF named
    <3>. QED
      BY <1>2, <3>1, LeastElement
  <2>. DEFINE first == CHOOSE k \in named : \A j \in named : k <= j
  <2>2. first \in named
    BY <2>1
  <2>3. Group(d) = SubSeq(d, first, Len(d))
    BY <1>2 DEF Group
  <2>. QED
    BY <2>2, <2>3
<1>. QED
  BY <1>1, <1>2

\* What Group makes does not begin with an empty directory.
LEMMA GroupIsNamed ==
    ASSUME NEW d \in Seq(Text)
    PROVE  Group(d) \in Seq(Text) /\ StartsNamed(Group(d))
<1>1. CASE Group(d) = <<>>
  BY <1>1 DEF StartsNamed
<1>2. ASSUME NEW i \in DOMAIN d, d[i] # NoText, Group(d) = SubSeq(d, i, Len(d))
      PROVE  Group(d) \in Seq(Text) /\ StartsNamed(Group(d))
  BY <1>2 DEF StartsNamed
<1>. QED
  BY <1>1, <1>2, GroupIsSuffix

\* A group is its own group.
LEMMA GroupOfNamed ==
    ASSUME NEW d \in Seq(Text), StartsNamed(d)
    PROVE  Group(d) = d
<1>. DEFINE named == {i \in DOMAIN d : d[i] # NoText}
<1>1. CASE d = <<>>
  <2>1. named = {}
    BY <1>1
  <2>. QED
    BY <1>1, <2>1 DEF Group
<1>2. CASE d # <<>>
  <2>. DEFINE first == CHOOSE k \in named : \A j \in named : k <= j
  <2>1. 1 \in named /\ named \subseteq Nat /\ \A j \in named : 1 <= j
    BY <1>2 DEF StartsNamed
  <2>2. first \in named /\ first <= 1
    <3>. HIDE DEF named
    <3>1. \E k \in named : \A j \in named : k <= j
      BY <2>1
    <3>2. first \in named /\ \A j \in named : first <= j
      BY <3>1
    <3>. QED
      BY <2>1, <3>2
  <2>3. first = 1
    <3>. HIDE DEF first, named
    <3>. QED
      BY <2>1, <2>2
  <2>4. Group(d) = SubSeq(d, 1, Len(d))
    BY <2>1, <2>3 DEF Group
  <2>. QED
    BY <2>4
<1>. QED
  BY <1>1, <1>2

-----------------------------------------------------------------------------
(* The name, the format and the resolution of a directory *)

FormatOf(dir)     == IF IsTyped(dir) THEN dir[Len(dir) - 1] ELSE "u8"
ResolutionOf(dir) == IF IsTyped(dir) THEN dir[Len(dir)] ELSE "text"

\* Put together again, the parts of a directory are the directory.
LEMMA FullNameOfParts ==
    ASSUME NEW dir \in Text, NEW r,
           r.name = NameOf(dir), r.format = FormatOf(dir), r.resolution = ResolutionOf(dir)
    PROVE  FullName(r) = dir
<1>1. CASE ~IsTyped(dir)
  BY <1>1 DEF FullName, NameOf, ResolutionOf
<1>2. CASE IsTyped(dir)
  <2>1. Len(dir) > 2 /\ dir[Len(dir)] # "text"
    BY <1>2 DEF IsTyped
  <2>2. r.name = SubSeq(dir, 1, Len(dir) - 2)
    BY <1>2, <2>1 DEF NameOf
  <2>3. FullName(r) = SubSeq(dir, 1, Len(dir) - 2) \o <<dir[Len(dir) - 1], dir[Len(dir)]>>
    BY <1>2, <2>1, <2>2 DEF FullName, FormatOf, ResolutionOf
  <2>4. SubSeq(dir, 1, Len(dir) - 2) \o <<dir[Len(dir) - 1], dir[Len(dir)]>> = dir
    BY <2>1 DEF Text
  <2>. QED
    BY <2>3, <2>4
<1>. QED
  BY <1>1, <1>2

-----------------------------------------------------------------------------
(* Records of paths *)

\* The record with group g, directory dir, index i and behavior b.
Rec(g, dir, i, b) ==
    [group |-> g, name |-> NameOf(dir), index |-> i, behavior |-> b,
     format |-> FormatOf(dir), resolution |-> ResolutionOf(dir)]

\* The three forms of a path.
LEMMA RecordOfConstant ==
    ASSUME NEW path \in Seq(Text), path # <<>>,
           ~(Len(path) > 2 /\ path[Len(path) - 2] \in Marks)
    PROVE  RecordOf(path) =
             Rec(Group(SubSeq(path, 1, Len(path) - 1)), path[Len(path)], NoText, "constant")
<1>1. BehaviorOf(path) = "constant"
  BY DEF BehaviorOf, Marks
<1>. QED
  BY <1>1 DEF RecordOf, Rec, GroupLength, FormatOf, ResolutionOf

LEMMA RecordOfFrame ==
    ASSUME NEW path \in Seq(Text), Len(path) > 2, path[Len(path) - 2] = <<"frames">>
    PROVE  RecordOf(path) =
             Rec(Group(SubSeq(path, 1, Len(path) - 3)), path[Len(path)],
                 path[Len(path) - 1], "frames")
<1>1. BehaviorOf(path) = "frames"
  BY DEF BehaviorOf
<1>. QED
  BY <1>1 DEF RecordOf, Rec, FormatOf, ResolutionOf

LEMMA RecordOfVar ==
    ASSUME NEW path \in Seq(Text), Len(path) > 2, path[Len(path) - 2] = <<"vars">>
    PROVE  RecordOf(path) =
             Rec(Group(SubSeq(path, 1, Len(path) - 3)), path[Len(path) - 1],
                 path[Len(path)], "vars")
<1>1. BehaviorOf(path) = "vars"
  BY DEF BehaviorOf
<1>. QED
  BY <1>1 DEF RecordOf, Rec, FormatOf, ResolutionOf

\* A record that some path could have: its group does not begin with an empty
\* directory, and a record in no frame has no index, nor a group that would be read
\* as the mark of a frame.
IsNormal(r) ==
    \E g \in Seq(Text), dir \in Text, i \in Text, b \in Behavior :
        /\ r = Rec(g, dir, i, b)
        /\ StartsNamed(g)
        /\ b = "constant" => i = NoText /\ ~(Len(g) > 1 /\ g[Len(g) - 1] \in Marks)

LEMMA WordsAreText == NoText \in Text /\ <<"frames">> \in Text /\ <<"vars">> \in Text
<1>1. "" \in Word /\ "frames" \in Word /\ "vars" \in Word
  BY DEF Word
<1>2. <<"">> \in Seq(Word) /\ <<"frames">> \in Seq(Word) /\ <<"vars">> \in Seq(Word)
  BY <1>1, OneElement
<1>. QED
  BY <1>2 DEF NoText, Text

\* Every path has such a record.
LEMMA ParsedIsNormal ==
    ASSUME NEW path \in Seq(Text), path # <<>>
    PROVE  IsNormal(RecordOf(path))
<1>. DEFINE n == Len(path)
<1>1. n \in Nat \ {0} /\ \A i \in 1..n : path[i] \in Text
  BY DEF Text
<1>2. CASE ~(n > 2 /\ path[n - 2] \in Marks)
  <2>. DEFINE d == SubSeq(path, 1, n - 1)
              g == Group(d)
  <2>1. d \in Seq(Text) /\ Len(d) = n - 1 /\ \A i \in 1..(n - 1) : d[i] = path[i]
    <3>1. n - 1 \in 0..n
      BY <1>1
    <3>. QED
      BY <3>1, Prefix
  <2>2. g \in Seq(Text) /\ StartsNamed(g)
    BY <2>1, GroupIsNamed
  <2>3. ~(Len(g) > 1 /\ g[Len(g) - 1] \in Marks)
    <3>1. CASE g = <<>>
      BY <3>1
    <3>2. ASSUME NEW i \in DOMAIN d, g = SubSeq(d, i, Len(d)), Len(g) > 1
          PROVE  g[Len(g) - 1] \notin Marks
      <4>1. i \in 1..(n - 1) /\ Len(g) = n - i
        BY <1>1, <2>1, <3>2
      <4>2. g[Len(g) - 1] = d[n - 2]
        <5>. HIDE DEF d, g
        <5>. QED
          BY <1>1, <2>1, <3>2, <4>1
      <4>. QED
        BY <1>1, <1>2, <2>1, <3>2, <4>1, <4>2
    <3>. QED
      BY <2>1, <3>1, <3>2, GroupIsSuffix
  <2>4. RecordOf(path) = Rec(g, path[n], NoText, "constant")
    BY <1>2, RecordOfConstant
  <2>. QED
    <3>. HIDE DEF g
    <3>. QED
      BY <1>1, <2>2, <2>3, <2>4, WordsAreText DEF IsNormal, Behavior
<1>3. CASE n > 2 /\ path[n - 2] \in Marks
  <2>. DEFINE g == Group(SubSeq(path, 1, n - 3))
  <2>1. g \in Seq(Text) /\ StartsNamed(g)
    <3>1. SubSeq(path, 1, n - 3) \in Seq(Text)
      BY <1>1
    <3>. QED
      BY <3>1, GroupIsNamed
  <2>2. \/ RecordOf(path) = Rec(g, path[n], path[n - 1], "frames")
        \/ RecordOf(path) = Rec(g, path[n - 1], path[n], "vars")
    BY <1>3, RecordOfFrame, RecordOfVar DEF Marks
  <2>3. path[n] \in Text /\ path[n - 1] \in Text
    BY <1>1, <1>3
  <2>. QED
    <3>. HIDE DEF g
    <3>. QED
      BY <2>1, <2>2, <2>3 DEF IsNormal, Behavior
<1>. QED
  BY <1>2, <1>3

\* Such a record is the record of its path.
LEMMA NormalReadsBack ==
    ASSUME NEW g \in Seq(Text), NEW dir \in Text, NEW i \in Text, NEW b \in Behavior,
           StartsNamed(g),
           b = "constant" => i = NoText /\ ~(Len(g) > 1 /\ g[Len(g) - 1] \in Marks)
    PROVE  RecordOf(GetPath(Rec(g, dir, i, b))) = Rec(g, dir, i, b)
<1>. DEFINE r == Rec(g, dir, i, b)
            path == GetPath(r)
<1>1. FullName(r) = dir /\ r.group = g /\ r.index = i /\ r.behavior = b
  BY FullNameOfParts DEF Rec
<1>2. Group(g) = g
  BY GroupOfNamed
<1>3. <<"frames">> \in Text /\ <<"vars">> \in Text
  BY WordsAreText
<1>4. CASE b = "constant"
  <2>1. path = g \o <<dir>>
    BY <1>1, <1>4 DEF GetPath, Ending
  <2>2. /\ path \in Seq(Text) /\ path # <<>> /\ Len(path) = Len(g) + 1
        /\ path[Len(path)] = dir
        /\ SubSeq(path, 1, Len(path) - 1) = g
        /\ \A k \in 1..Len(g) : path[k] = g[k]
    BY <2>1, OneAdded
  <2>3. ~(Len(path) > 2 /\ path[Len(path) - 2] \in Marks)
    <3>. HIDE DEF path
    <3>. QED
      BY <1>4, <2>2
  <2>4. RecordOf(path) = Rec(Group(g), dir, NoText, "constant")
    <3>. HIDE DEF path
    <3>. QED
      BY <2>2, <2>3, RecordOfConstant
  <2>. QED
    BY <1>2, <1>4, <2>4
<1>5. CASE b = "frames"
  <2>1. path = g \o <<<<"frames">>, i, dir>>
    BY <1>1, <1>5 DEF GetPath, Ending
  <2>2. /\ path \in Seq(Text) /\ Len(path) = Len(g) + 3
        /\ path[Len(path)] = dir /\ path[Len(path) - 1] = i
        /\ path[Len(path) - 2] = <<"frames">>
        /\ SubSeq(path, 1, Len(path) - 3) = g
    BY <1>3, <2>1, ThreeAdded
  <2>3. RecordOf(path) = Rec(Group(g), dir, i, "frames")
    <3>. HIDE DEF path
    <3>1. Len(path) > 2
      BY <2>2
    <3>. QED
      BY <2>2, <3>1, RecordOfFrame
  <2>. QED
    BY <1>2, <1>5, <2>3
<1>6. CASE b = "vars"
  <2>1. path = g \o <<<<"vars">>, dir, i>>
    BY <1>1, <1>6 DEF GetPath, Ending
  <2>2. /\ path \in Seq(Text) /\ Len(path) = Len(g) + 3
        /\ path[Len(path)] = i /\ path[Len(path) - 1] = dir
        /\ path[Len(path) - 2] = <<"vars">>
        /\ SubSeq(path, 1, Len(path) - 3) = g
    BY <1>3, <2>1, ThreeAdded
  <2>3. RecordOf(path) = Rec(Group(g), dir, i, "vars")
    <3>. HIDE DEF path
    <3>1. Len(path) > 2
      BY <2>2
    <3>. QED
      BY <2>2, <3>1, RecordOfVar
  <2>. QED
    BY <1>2, <1>6, <2>3
<1>. QED
  BY <1>4, <1>5, <1>6 DEF Behavior

\* A path that does not begin with an empty directory is the path of its record.
LEMMA PathReadsBack ==
    ASSUME NEW path \in Seq(Text), path # <<>>, path[1] # NoText
    PROVE  GetPath(RecordOf(path)) = path
<1>. DEFINE n == Len(path)
<1>1. n \in Nat \ {0} /\ \A i \in 1..n : path[i] \in Text
  BY DEF Text
<1>2. ASSUME NEW k \in 0..n
      PROVE  Group(SubSeq(path, 1, k)) = SubSeq(path, 1, k)
  <2>1. SubSeq(path, 1, k) \in Seq(Text) /\ StartsNamed(SubSeq(path, 1, k))
    BY <1>1 DEF StartsNamed
  <2>. QED
    BY <2>1, GroupOfNamed
<1>3. CASE ~(n > 2 /\ path[n - 2] \in Marks)
  <2>1. RecordOf(path) = Rec(SubSeq(path, 1, n - 1), path[n], NoText, "constant")
    <3>1. n - 1 \in 0..n
      BY <1>1
    <3>. QED
      BY <1>2, <1>3, <3>1, RecordOfConstant
  <2>2. GetPath(RecordOf(path)) = SubSeq(path, 1, n - 1) \o <<path[n]>>
    <3>. DEFINE r == Rec(SubSeq(path, 1, n - 1), path[n], NoText, "constant")
    <3>1. RecordOf(path) = r
      BY <2>1
    <3>2. FullName(r) = path[n] /\ r.group = SubSeq(path, 1, n - 1) /\ r.behavior = "constant"
      BY <1>1, FullNameOfParts DEF Rec
    <3>. HIDE DEF r
    <3>. QED
      BY <3>1, <3>2 DEF GetPath, Ending
  <2>. QED
    BY <2>2, LastOne
<1>4. CASE n > 2 /\ path[n - 2] \in Marks
  <2>1. n - 3 \in 0..n /\ path[n] \in Text /\ path[n - 1] \in Text
    BY <1>1, <1>4
  <2>. DEFINE g == SubSeq(path, 1, n - 3)
              all == g \o <<path[n - 2], path[n - 1], path[n]>>
  <2>2. all = path
    BY <1>4, LastThreeElements
  <2>3. CASE path[n - 2] = <<"frames">>
    <3>. DEFINE r == Rec(g, path[n], path[n - 1], "frames")
    <3>1. RecordOf(path) = r
      BY <1>2, <1>4, <2>1, <2>3, RecordOfFrame
    <3>2. /\ FullName(r) = path[n] /\ r.group = g
          /\ r.index = path[n - 1] /\ r.behavior = "frames"
      BY <2>1, FullNameOfParts DEF Rec
    <3>3. GetPath(r) = all
      <4>. HIDE DEF r
      <4>. QED
        BY <2>3, <3>2 DEF GetPath, Ending
    <3>. QED
      BY <2>2, <3>1, <3>3
  <2>4. CASE path[n - 2] = <<"vars">>
    <3>. DEFINE r == Rec(g, path[n - 1], path[n], "vars")
    <3>1. RecordOf(path) = r
      BY <1>2, <1>4, <2>1, <2>4, RecordOfVar
    <3>2. /\ FullName(r) = path[n - 1] /\ r.group = g
          /\ r.index = path[n] /\ r.behavior = "vars"
      BY <2>1, FullNameOfParts DEF Rec
    <3>3. GetPath(r) = all
      <4>. HIDE DEF r
      <4>. QED
        BY <2>4, <3>2 DEF GetPath, Ending
    <3>. QED
      BY <2>2, <3>1, <3>3
  <2>. QED
    BY <1>4, <2>3, <2>4 DEF Marks
<1>. QED
  BY <1>3, <1>4
=============================================================================
