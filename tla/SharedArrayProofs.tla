-------------------------- MODULE SharedArrayProofs --------------------------
(***************************************************************************)
(* For any number of handles and addresses, until a handle that wraps a    *)
(* null pointer is copied: counts are right, nothing is used after it is   *)
(* freed, nothing leaks, and only the last handle frees.                   *)
(***************************************************************************)
EXTENDS SharedArray, FiniteSetTheorems, TLAPS

-----------------------------------------------------------------------------
(* Counting the handles of a shim *)

\* The handles of s when each handle g points to m[g].
HoldersIn(m, s) == {g \in Handle : m[g] = s}
CountIn(m, s)   == Cardinality(HoldersIn(m, s))

Pointers == [Handle -> Shim \cup {Null}]

\* What pointing a handle at to adds to the count of s, or away from it takes.
One(s, to) == IF s = to THEN 1 ELSE 0

\* A count is a natural number, and zero exactly when there is no handle.
LEMMA CountType ==
    ASSUME NEW m \in Pointers, NEW s \in Shim
    PROVE  /\ IsFiniteSet(HoldersIn(m, s))
           /\ CountIn(m, s) \in Nat
           /\ CountIn(m, s) = 0 <=> HoldersIn(m, s) = {}
<1>1. HoldersIn(m, s) \in SUBSET Handle
  BY DEF HoldersIn
<1>2. IsFiniteSet(HoldersIn(m, s))
  BY <1>1, FS_Subset, SharedArrayAssumption
<1>. QED
  BY <1>2, FS_CardinalityType, FS_EmptySet DEF CountIn

\* n is m but for what the handle h points to.
OnlyMoves(m, n, h) ==
    m \in Pointers /\ n \in Pointers /\ \A g \in Handle \ {h} : n[g] = m[g]

\* Pointing one handle elsewhere moves one from the count of what it pointed to
\* to that of what it points to.
LEMMA OneMoves ==
    ASSUME NEW m, NEW n, NEW h \in Handle, OnlyMoves(m, n, h), NEW s \in Shim
    PROVE  CountIn(n, s) = CountIn(m, s) + One(s, n[h]) - One(s, m[h])
<1>1. m \in Pointers /\ n \in Pointers /\ \A g \in Handle \ {h} : n[g] = m[g]
  BY DEF OnlyMoves
<1>2. IsFiniteSet(HoldersIn(m, s)) /\ CountIn(m, s) \in Nat
  BY <1>1, CountType
<1>3. h \in HoldersIn(m, s) <=> m[h] = s
  BY DEF HoldersIn
<1>4. CASE s = n[h]
  <2>1. HoldersIn(n, s) = HoldersIn(m, s) \cup {h}
    BY <1>1, <1>4 DEF HoldersIn
  <2>2. CountIn(n, s) = IF m[h] = s THEN CountIn(m, s) ELSE CountIn(m, s) + 1
    BY <1>2, <1>3, <2>1, FS_AddElement DEF CountIn
  <2>. QED
    BY <1>2, <1>4, <2>2 DEF One
<1>5. CASE s # n[h]
  <2>1. HoldersIn(n, s) = HoldersIn(m, s) \ {h}
    BY <1>1, <1>5 DEF HoldersIn
  <2>2. CountIn(n, s) = IF m[h] = s THEN CountIn(m, s) - 1 ELSE CountIn(m, s)
    BY <1>2, <1>3, <2>1, FS_RemoveElement DEF CountIn
  <2>. QED
    BY <1>2, <1>5, <2>2 DEF One
<1>. QED
  BY <1>4, <1>5

\* Exchanging what two handles point to changes no count: it is two moves.
LEMMA SwapKeepsCounts ==
    ASSUME NEW m, NEW k, NEW n, NEW h \in Handle, NEW target \in Handle,
           OnlyMoves(m, k, h), k[h] = m[target], k[target] = m[target],
           OnlyMoves(k, n, target), n[target] = m[h],
           NEW s \in Shim
    PROVE  CountIn(n, s) = CountIn(m, s)
<1>1. CountIn(k, s) = CountIn(m, s) + One(s, m[target]) - One(s, m[h])
  BY OneMoves
<1>2. CountIn(n, s) = CountIn(k, s) + One(s, m[h]) - One(s, m[target])
  BY OneMoves
<1>3. CountIn(m, s) \in Nat /\ One(s, m[h]) \in Int /\ One(s, m[target]) \in Int
  BY CountType DEF OnlyMoves, One
<1>. QED
  BY <1>1, <1>2, <1>3

-----------------------------------------------------------------------------
(* The inductive invariant *)

\* Counts are right, and a shim without a target has one handle, so that release,
\* which takes a missing target for a count of zero, frees it rightly.
Counted ==
    /\ ~misused
    /\ \A s \in Shim : s \in live <=> CountIn(m_shim, s) > 0
    /\ \A s \in live : m_count[s] = CountIn(m_shim, s)
    /\ \A s \in live \ owned : CountIn(m_shim, s) = 1

\* An allocated shim has a count, even after a copy of a null pointer.
Positive == TypeOK /\ \A s \in live : m_count[s] > 0

IInv == Positive /\ (~nullCopied => Counted)

\* What a step that does not change the history of copies must keep.
Keeps == Counted' /\ \A s \in live \ live' : CountIn(m_shim, s) = 1

\* A shim that a handle points to is allocated and has a count.
LEMMA PointedToIsLive ==
    ASSUME Positive, Counted, NEW h \in Handle, m_shim[h] \in Shim
    PROVE  /\ m_shim[h] \in live
           /\ m_count[m_shim[h]] \in Nat /\ m_count[m_shim[h]] > 0
           /\ m_count[m_shim[h]] = CountIn(m_shim, m_shim[h])
<1>. DEFINE s == m_shim[h]
<1>1. m_shim \in Pointers
  BY DEF Positive, TypeOK, Pointers
<1>2. h \in HoldersIn(m_shim, s)
  BY DEF HoldersIn
<1>3. CountIn(m_shim, s) \in Nat /\ CountIn(m_shim, s) # 0
  BY <1>1, <1>2, CountType
<1>. QED
  BY <1>3 DEF Counted

\* Two handles of one shim make its count two at least.
LEMMA TwoHandles ==
    ASSUME NEW m \in Pointers, NEW h \in Handle, NEW g \in Handle, h # g,
           NEW s \in Shim, m[h] = s, m[g] = s
    PROVE  CountIn(m, s) > 1
<1>. DEFINE n == [m EXCEPT ![h] = Null]
<1>1. OnlyMoves(m, n, h) /\ n[h] = Null /\ n[g] = s /\ n \in Pointers
  BY DEF OnlyMoves, Pointers
<1>. HIDE DEF n
<1>2. CountIn(n, s) = CountIn(m, s) - 1 /\ CountIn(m, s) \in Nat
  BY <1>1, OneMoves, CountType, SharedArrayAssumption DEF One
<1>3. CountIn(n, s) \in Nat /\ CountIn(n, s) # 0
  <2>1. g \in HoldersIn(n, s)
    BY <1>1 DEF HoldersIn
  <2>. QED
    BY <1>1, <2>1, CountType
<1>. QED
  BY <1>2, <1>3

LEMMA InitHolds == Init => IInv
<1>. SUFFICES ASSUME Init PROVE IInv
  OBVIOUS
<1>1. TypeOK /\ ~misused /\ live = {}
  BY DEF Init, TypeOK
<1>2. ASSUME NEW s \in Shim
      PROVE  CountIn(m_shim, s) = 0
  <2>1. m_shim \in Pointers
    BY DEF Init, Pointers
  <2>2. HoldersIn(m_shim, s) = {}
    BY SharedArrayAssumption DEF Init, HoldersIn
  <2>. QED
    BY <2>1, <2>2, CountType
<1>. QED
  BY <1>1, <1>2 DEF IInv, Positive, Counted

-----------------------------------------------------------------------------
(* Types, whatever was copied *)

LEMMA ConstructPositive ==
    ASSUME Positive, NEW h \in Handle, NEW null \in BOOLEAN, Construct(h, null)
    PROVE  Positive'
<1>1. PICK a \in Shim \ live :
        /\ m_shim' = [m_shim EXCEPT ![h] = a]
        /\ m_count' = [m_count EXCEPT ![a] = 1]
        /\ live' = live \cup {a}
        /\ owned' = IF null THEN owned \ {a} ELSE owned \cup {a}
  BY DEF Construct
<1>2. UNCHANGED <<misused, nullCopied>>
  BY DEF Construct
<1>. QED
  BY <1>1, <1>2 DEF Positive, TypeOK

LEMMA CopyConstructPositive ==
    ASSUME Positive, NEW h \in Handle, NEW rhs \in Handle, CopyConstruct(h, rhs)
    PROVE  Positive'
<1>1. m_shim' \in [Handle -> Shim \cup {Null}] /\ nullCopied' \in BOOLEAN
  BY DEF Positive, TypeOK, CopyConstruct, Copied
<1>2. CASE m_shim[rhs] \in live
  BY <1>1, <1>2 DEF Positive, TypeOK, CopyConstruct, Incremented
<1>3. CASE m_shim[rhs] \notin live
  BY <1>1, <1>3 DEF Positive, TypeOK, CopyConstruct
<1>. QED
  BY <1>2, <1>3

LEMMA ReleasePositive ==
    ASSUME Positive, NEW h \in Handle, Release(h)
    PROVE  Positive'
<1>. DEFINE a == m_shim[h]
<1>1. m_shim' \in [Handle -> Shim \cup {Null}] /\ nullCopied' = nullCopied
  BY DEF Positive, TypeOK, Release
<1>2. CASE a \in live
  <2>1. m_count[a] \in Nat /\ m_count[a] - 1 \in Nat
    BY <1>2 DEF Positive, TypeOK
  <2>2. /\ m_count' = [m_count EXCEPT ![a] = m_count[a] - 1]
        /\ live' = IF TargetGone(a, m_count[a] - 1) THEN live \ {a} ELSE live
        /\ owned' = IF m_count[a] - 1 = 0 THEN owned \ {a} ELSE owned
        /\ misused' = misused
    BY <1>2 DEF Release, DropHandle
  <2>3. m_count[a] - 1 = 0 \/ a \notin owned => live' = live \ {a}
    BY <2>2 DEF TargetGone
  <2>4. ~(m_count[a] - 1 = 0 \/ a \notin owned) => live' = live /\ owned' = owned
    BY <2>2 DEF TargetGone
  <2>5. owned' \subseteq live'
    BY <2>2, <2>3, <2>4 DEF Positive, TypeOK
  <2>. HIDE DEF a
  <2>6. m_count' \in [Shim -> Nat] /\ live' \subseteq live
    BY <2>1, <2>2 DEF Positive, TypeOK
  <2>7. ASSUME NEW s \in live' PROVE m_count'[s] > 0
    BY <2>1, <2>2, <2>3, <2>4, <2>6, <2>7 DEF Positive, TypeOK
  <2>. QED
    BY <1>1, <2>2, <2>5, <2>6, <2>7 DEF Positive, TypeOK
<1>3. CASE a \notin live
  BY <1>1, <1>3 DEF Positive, TypeOK, Release
<1>. QED
  BY <1>2, <1>3

LEMMA AssignPositive ==
    ASSUME Positive, NEW h \in Handle, NEW rhs \in Handle, Assign(h, rhs)
    PROVE  Positive'
<1>. DEFINE old == m_shim[h]
            new == m_shim[rhs]
            left == CountAfterCopy(old, rhs) - 1
<1>1. m_shim' \in [Handle -> Shim \cup {Null}] /\ nullCopied' \in BOOLEAN
  BY DEF Positive, TypeOK, Assign, Copied
<1>2. CASE {old, new} \ {Null} \subseteq live
  <2>1. old # Null => old \in live /\ m_count[old] \in Nat /\ m_count[old] > 0
    BY <1>2 DEF Positive, TypeOK
  <2>2. old # Null => left \in Nat
    BY <2>1 DEF CountAfterCopy
  <2>3. /\ m_count' = [s \in Shim |-> IF s = old THEN CountAfterCopy(s, rhs) - 1
                                      ELSE IF s = new THEN Incremented(s) ELSE m_count[s]]
        /\ misused' = misused
    BY <1>2 DEF Assign
  <2>4. old = Null => live' = live /\ owned' = owned
    BY <1>2 DEF Assign
  <2>5. old # Null => /\ live' = IF TargetGone(old, left) THEN live \ {old} ELSE live
                      /\ owned' = IF left = 0 THEN owned \ {old} ELSE owned
    BY <1>2 DEF Assign
  <2>6. old # Null /\ (left = 0 \/ old \notin owned) => live' = live \ {old}
    BY <2>5 DEF TargetGone
  <2>7. old # Null /\ ~(left = 0 \/ old \notin owned) => live' = live /\ owned' = owned
    BY <2>5 DEF TargetGone
  <2>8. owned' \subseteq live' /\ live' \subseteq live
    BY <2>4, <2>5, <2>6, <2>7 DEF Positive, TypeOK
  <2>9. ASSUME NEW s \in Shim
        PROVE  m_count'[s] \in Nat /\ (s \in live' => m_count'[s] > 0)
    <3>. HIDE DEF old, new, left
    <3>1. m_count[s] \in Nat /\ (s \in live => m_count[s] > 0)
      BY DEF Positive, TypeOK
    <3>2. CASE s # old
      BY <2>3, <2>8, <3>1, <3>2 DEF Incremented
    <3>3. CASE s = old
      <4>1. old # Null
        BY <3>3, SharedArrayAssumption
      <4>2. m_count'[s] = left
        BY <2>3, <3>3 DEF left
      <4>. QED
        BY <2>2, <2>6, <3>3, <4>1, <4>2
    <3>. QED
      BY <3>2, <3>3
  <2>10. m_count' \in [Shim -> Nat]
    BY <2>3, <2>9
  <2>. QED
    BY <1>1, <2>3, <2>8, <2>9, <2>10 DEF Positive, TypeOK
<1>3. CASE ~({old, new} \ {Null} \subseteq live)
  BY <1>1, <1>3 DEF Positive, TypeOK, Assign
<1>. QED
  BY <1>2, <1>3

LEMMA SwapPositive ==
    ASSUME Positive, NEW h \in Handle, NEW target \in Handle, Swap(h, target)
    PROVE  Positive'
BY DEF Positive, TypeOK, Swap, heap

LEMMA DisownPositive ==
    ASSUME Positive, NEW h \in Handle, Disown(h)
    PROVE  Positive'
<1>1. m_shim' \in [Handle -> Shim \cup {Null}] /\ UNCHANGED <<m_count, nullCopied>>
  BY DEF Positive, TypeOK, Disown
<1>2. CASE m_shim[h] \in live
  BY <1>1, <1>2 DEF Positive, TypeOK, Disown
<1>3. CASE m_shim[h] \notin live
  BY <1>1, <1>3 DEF Positive, TypeOK, Disown
<1>. QED
  BY <1>2, <1>3

-----------------------------------------------------------------------------
(* Counts, until a null pointer is copied *)

\* The pieces of Counted after a step, from how the step changed the counts.
LEMMA CountedAfter ==
    ASSUME ~misused',
           \A s \in Shim : s \in live' <=> CountIn(m_shim', s) > 0,
           \A s \in live' : m_count'[s] = CountIn(m_shim', s),
           \A s \in live' \ owned' : CountIn(m_shim', s) = 1
    PROVE  Counted'
BY DEF Counted

LEMMA ConstructStep ==
    ASSUME Positive, Counted, NEW h \in Handle, NEW null \in BOOLEAN, Construct(h, null)
    PROVE  Keeps
<1>1. PICK a \in Shim \ live :
        /\ m_shim' = [m_shim EXCEPT ![h] = a]
        /\ m_count' = [m_count EXCEPT ![a] = 1]
        /\ live' = live \cup {a}
        /\ owned' = IF null THEN owned \ {a} ELSE owned \cup {a}
  BY DEF Construct
<1>2. m_shim[h] = Null /\ misused' = misused
  BY DEF Construct
<1>3. m_shim \in Pointers
  BY DEF Positive, TypeOK, Pointers
<1>4. ASSUME NEW s \in Shim
      PROVE  /\ CountIn(m_shim', s) = CountIn(m_shim, s) + One(s, a)
             /\ CountIn(m_shim, s) \in Nat
  <2>1. OnlyMoves(m_shim, m_shim', h) /\ m_shim'[h] = a /\ m_shim[h] = Null
    BY <1>1, <1>2, <1>3 DEF OnlyMoves, Pointers
  <2>2. CountIn(m_shim', s) = CountIn(m_shim, s) + One(s, a) - One(s, Null)
    BY <2>1, OneMoves
  <2>. QED
    BY <1>3, <2>2, CountType, SharedArrayAssumption DEF One
<1>5. CountIn(m_shim, a) = 0
  BY <1>3, CountType DEF Counted
<1>6. ASSUME NEW s \in Shim
      PROVE  /\ s \in live' <=> CountIn(m_shim', s) > 0
             /\ s \in live' => m_count'[s] = CountIn(m_shim', s)
             /\ s \in live' \ owned' => CountIn(m_shim', s) = 1
  <2>1. m_count' = [m_count EXCEPT ![a] = 1] /\ live' = live \cup {a}
    BY <1>1
  <2>2. s # a /\ s \in live' \ owned' => s \in live \ owned
    BY <1>1
  <2>. QED
    BY <1>4, <1>5, <2>1, <2>2 DEF Counted, Positive, TypeOK, One
<1>7. live \subseteq live' /\ live' \subseteq Shim
  BY <1>1 DEF Positive, TypeOK
<1>8. Counted'
  BY <1>2, <1>6, <1>7, CountedAfter DEF Counted
<1>. QED
  BY <1>7, <1>8 DEF Keeps

LEMMA CopyConstructStep ==
    ASSUME Positive, Counted, ~nullCopied', NEW h \in Handle, NEW rhs \in Handle,
           CopyConstruct(h, rhs)
    PROVE  Keeps
<1>. DEFINE a == m_shim[rhs]
<1>1. a \in Shim /\ a \in live /\ m_shim[h] = Null
  BY PointedToIsLive DEF CopyConstruct
<1>2. a \in owned
  BY <1>1 DEF CopyConstruct, Copied
<1>3. /\ m_shim' = [m_shim EXCEPT ![h] = a]
      /\ m_count' = [m_count EXCEPT ![a] = m_count[a] + 1]
      /\ UNCHANGED <<live, owned, misused>>
  BY <1>1 DEF CopyConstruct, Incremented
<1>4. m_shim \in Pointers
  BY DEF Positive, TypeOK, Pointers
<1>5. ASSUME NEW s \in Shim
      PROVE  /\ CountIn(m_shim', s) = CountIn(m_shim, s) + One(s, a)
             /\ CountIn(m_shim, s) \in Nat
  <2>1. OnlyMoves(m_shim, m_shim', h) /\ m_shim'[h] = a /\ m_shim[h] = Null
    BY <1>1, <1>3, <1>4 DEF OnlyMoves, Pointers
  <2>2. CountIn(m_shim', s) = CountIn(m_shim, s) + One(s, a) - One(s, Null)
    BY <2>1, OneMoves
  <2>. QED
    BY <1>4, <2>2, CountType, SharedArrayAssumption DEF One
<1>6. ASSUME NEW s \in Shim
      PROVE  /\ s \in live' <=> CountIn(m_shim', s) > 0
             /\ s \in live' => m_count'[s] = CountIn(m_shim', s)
             /\ s \in live' \ owned' => CountIn(m_shim', s) = 1
  <2>1. m_count' = [m_count EXCEPT ![a] = m_count[a] + 1] /\ live' = live /\ owned' = owned
    BY <1>3
  <2>. QED
    BY <1>1, <1>2, <1>5, <2>1 DEF Counted, Positive, TypeOK, One
<1>7. live' = live /\ live \subseteq Shim
  BY <1>3 DEF Positive, TypeOK
<1>8. Counted'
  BY <1>3, <1>6, <1>7, CountedAfter DEF Counted
<1>. QED
  BY <1>7, <1>8 DEF Keeps

\* A handle goes: its shim is freed exactly if no other handle has it.
LEMMA ReleaseStep ==
    ASSUME Positive, Counted, NEW h \in Handle, Release(h)
    PROVE  Keeps
<1>. DEFINE a == m_shim[h]
<1>1. a \in Shim /\ a \in live /\ m_count[a] \in Nat /\ m_count[a] > 0
      /\ m_count[a] = CountIn(m_shim, a)
  BY PointedToIsLive DEF Release
<1>2. a \notin owned => m_count[a] - 1 = 0
  BY <1>1 DEF Counted
<1>3. /\ m_shim' = [m_shim EXCEPT ![h] = Null]
      /\ m_count' = [m_count EXCEPT ![a] = m_count[a] - 1]
      /\ live' = IF m_count[a] - 1 = 0 THEN live \ {a} ELSE live
      /\ owned' = IF m_count[a] - 1 = 0 THEN owned \ {a} ELSE owned
      /\ UNCHANGED misused
  BY <1>1, <1>2 DEF Release, DropHandle, TargetGone
<1>4. m_shim \in Pointers /\ live' \subseteq Shim
  BY <1>3 DEF Positive, TypeOK, Pointers
<1>5. ASSUME NEW s \in Shim
      PROVE  /\ CountIn(m_shim', s) = CountIn(m_shim, s) - One(s, a)
             /\ CountIn(m_shim, s) \in Nat
  <2>1. OnlyMoves(m_shim, m_shim', h) /\ m_shim'[h] = Null
    BY <1>1, <1>3, <1>4 DEF OnlyMoves, Pointers
  <2>2. CountIn(m_shim', s) = CountIn(m_shim, s) + One(s, Null) - One(s, a)
    BY <2>1, OneMoves
  <2>. QED
    BY <1>4, <2>2, CountType, SharedArrayAssumption DEF One
<1>6. ASSUME NEW s \in Shim
      PROVE  /\ s \in live' <=> CountIn(m_shim', s) > 0
             /\ s \in live' => m_count'[s] = CountIn(m_shim', s)
             /\ s \in live' \ owned' => CountIn(m_shim', s) = 1
  <2>1. /\ m_count' = [m_count EXCEPT ![a] = m_count[a] - 1]
        /\ live' = IF m_count[a] - 1 = 0 THEN live \ {a} ELSE live
        /\ owned' = IF m_count[a] - 1 = 0 THEN owned \ {a} ELSE owned
    BY <1>3
  <2>2. CASE s = a
    BY <1>1, <1>2, <1>5, <2>1, <2>2 DEF Counted, Positive, TypeOK, One
  <2>3. CASE s # a
    BY <1>5, <2>1, <2>3 DEF Counted, Positive, TypeOK, One
  <2>. QED
    BY <2>2, <2>3
<1>7. Counted'
  BY <1>3, <1>4, <1>6, CountedAfter DEF Counted
<1>. QED
  BY <1>1, <1>3, <1>7 DEF Keeps

\* What an assignment leaves the left-hand side's shim with.
Left(h, rhs) == IF m_shim[rhs] = m_shim[h] THEN m_count[m_shim[h]] ELSE m_count[m_shim[h]] - 1

\* What an assignment does, self-assignment by another handle of the same shim
\* included: it frees the left-hand side's shim if that was its only handle.
LEMMA AssignMoves ==
    ASSUME Positive, Counted, NEW h \in Handle, NEW rhs \in Handle, Assign(h, rhs),
           NEW old, old = m_shim[h], NEW new, new = m_shim[rhs], NEW left, left = Left(h, rhs)
    PROVE  /\ {old, new} \ {Null} \subseteq live
           /\ old # Null => left \in Nat
           /\ old # Null /\ old \notin owned => left = 0
           /\ m_shim' = [m_shim EXCEPT ![h] = new]
           /\ m_count' = [s \in Shim |-> IF s = old THEN left
                                         ELSE IF s = new THEN m_count[s] + 1 ELSE m_count[s]]
           /\ live' = IF old # Null /\ left = 0 THEN live \ {old} ELSE live
           /\ owned' = IF old # Null /\ left = 0 THEN owned \ {old} ELSE owned
           /\ UNCHANGED misused
           /\ \A s \in live \ live' : CountIn(m_shim, s) = 1
<1>1. old \in Shim \cup {Null} /\ new \in Shim \cup {Null} /\ Null \notin Shim /\ h # rhs
  BY SharedArrayAssumption DEF Positive, TypeOK, Assign
<1>2. {old, new} \ {Null} \subseteq live
  BY <1>1, PointedToIsLive
<1>3. ASSUME NEW s \in live
      PROVE  m_count[s] \in Nat \ {0} /\ m_count[s] = CountIn(m_shim, s)
  BY DEF Counted, Positive, TypeOK
<1>4. old # Null => CountAfterCopy(old, rhs) - 1 = left /\ left \in Nat
  BY <1>1, <1>2, <1>3 DEF CountAfterCopy, Left
<1>5. m_shim \in Pointers
  BY DEF Positive, TypeOK, Pointers
<1>6. old = new /\ old # Null => m_count[old] > 1
  BY <1>1, <1>2, <1>3, <1>5, TwoHandles
<1>7. old # Null /\ old \notin owned => left = 0
  <2>. SUFFICES ASSUME old # Null, old \notin owned PROVE left = 0
    OBVIOUS
  <2>1. old \in live \ owned
    BY <1>2
  <2>2. CountIn(m_shim, old) = 1 /\ m_count[old] = 1
    BY <1>3, <2>1 DEF Counted
  <2>. QED
    BY <1>6, <2>2 DEF Left
<1>8. m_shim' = [m_shim EXCEPT ![h] = new] /\ UNCHANGED misused
  BY <1>2 DEF Assign
<1>9. m_count' = [s \in Shim |-> IF s = old THEN left
                                 ELSE IF s = new THEN m_count[s] + 1 ELSE m_count[s]]
  <2>1. m_count' = [s \in Shim |-> IF s = old THEN CountAfterCopy(s, rhs) - 1
                                   ELSE IF s = new THEN m_count[s] + 1 ELSE m_count[s]]
    BY <1>2 DEF Assign, Incremented
  <2>. QED
    BY <1>1, <1>4, <2>1
<1>10. /\ live' = IF old # Null /\ left = 0 THEN live \ {old} ELSE live
       /\ owned' = IF old # Null /\ left = 0 THEN owned \ {old} ELSE owned
  <2>1. CASE old = Null
    BY <1>2, <2>1 DEF Assign
  <2>2. CASE old # Null
    <3>1. /\ live' = IF TargetGone(old, left) THEN live \ {old} ELSE live
          /\ owned' = IF left = 0 THEN owned \ {old} ELSE owned
      BY <1>2, <1>4, <2>2 DEF Assign
    <3>. QED
      BY <1>7, <2>2, <3>1 DEF TargetGone
  <2>. QED
    BY <2>1, <2>2
<1>11. ASSUME NEW s \in live \ live'
       PROVE  CountIn(m_shim, s) = 1
  <2>1. s = old /\ left = 0 /\ old # Null
    BY <1>10
  <2>2. new # old
    BY <1>6, <2>1 DEF Left
  <2>. QED
    BY <1>3, <2>1, <2>2 DEF Left
<1>. QED
  BY <1>2, <1>4, <1>7, <1>8, <1>9, <1>10, <1>11

LEMMA AssignStep ==
    ASSUME Positive, Counted, ~nullCopied', NEW h \in Handle, NEW rhs \in Handle, Assign(h, rhs)
    PROVE  Counted'
<1>. DEFINE old == m_shim[h]
            new == m_shim[rhs]
            left == Left(h, rhs)
<1>1. old \in Shim \cup {Null} /\ new \in Shim \cup {Null} /\ Null \notin Shim
  BY SharedArrayAssumption DEF Positive, TypeOK
<1>2. /\ {old, new} \ {Null} \subseteq live
      /\ old # Null => left \in Nat
      /\ old # Null /\ old \notin owned => left = 0
      /\ m_shim' = [m_shim EXCEPT ![h] = new]
      /\ m_count' = [s \in Shim |-> IF s = old THEN left
                                    ELSE IF s = new THEN m_count[s] + 1 ELSE m_count[s]]
      /\ live' = IF old # Null /\ left = 0 THEN live \ {old} ELSE live
      /\ owned' = IF old # Null /\ left = 0 THEN owned \ {old} ELSE owned
      /\ UNCHANGED misused
  BY AssignMoves
<1>3. ASSUME NEW s \in live
      PROVE  m_count[s] \in Nat \ {0} /\ m_count[s] = CountIn(m_shim, s)
  BY DEF Counted, Positive, TypeOK
<1>4. m_shim \in Pointers
  BY DEF Positive, TypeOK, Pointers
<1>5. new \notin live \ owned
  BY DEF Assign, Copied
<1>6. left = IF new = old THEN m_count[old] ELSE m_count[old] - 1
  BY DEF Left
<1>. HIDE DEF left
<1>7. ASSUME NEW s \in Shim
      PROVE  /\ CountIn(m_shim', s) = CountIn(m_shim, s) + One(s, new) - One(s, old)
             /\ CountIn(m_shim, s) \in Nat
  <2>1. OnlyMoves(m_shim, m_shim', h) /\ m_shim'[h] = new
    BY <1>1, <1>2, <1>4 DEF OnlyMoves, Pointers
  <2>. QED
    BY <1>4, <2>1, OneMoves, CountType
<1>8. ASSUME NEW s \in Shim
      PROVE  /\ s \in live' <=> CountIn(m_shim', s) > 0
             /\ s \in live' => m_count'[s] = CountIn(m_shim', s)
             /\ s \in live' \ owned' => CountIn(m_shim', s) = 1
  <2>1. /\ s \in live <=> CountIn(m_shim, s) > 0
        /\ s \in live \ owned => CountIn(m_shim, s) = 1
    BY DEF Counted
  <2>2. /\ m_count'[s] = IF s = old THEN left
                         ELSE IF s = new THEN m_count[s] + 1 ELSE m_count[s]
        /\ live' = IF old # Null /\ left = 0 THEN live \ {old} ELSE live
        /\ owned' = IF old # Null /\ left = 0 THEN owned \ {old} ELSE owned
    BY <1>2
  <2>3. CASE s = old
    <3>1. /\ s # Null /\ s \in live
          /\ m_count[s] \in Nat \ {0} /\ m_count[s] = CountIn(m_shim, s)
      BY <1>1, <1>2, <1>3, <2>3
    <3>2. CountIn(m_shim', s) = left /\ left \in Nat
      <4>1. One(s, old) = 1 /\ One(s, new) = IF new = old THEN 1 ELSE 0
        BY <2>3 DEF One
      <4>2. left = IF new = old THEN m_count[s] ELSE m_count[s] - 1
        BY <1>6, <2>3
      <4>. QED
        BY <1>7, <3>1, <4>1, <4>2
    <3>3. s \notin owned => left = 0
      BY <1>2, <2>3, <3>1
    <3>4. /\ s \in live' <=> left # 0
          /\ left # 0 => (s \in owned' <=> s \in owned)
      BY <2>2, <2>3, <3>1
    <3>5. m_count'[s] = left
      BY <2>2, <2>3
    <3>. QED
      BY <3>2, <3>3, <3>4, <3>5
  <2>4. CASE s # old /\ s = new
    <3>1. /\ s \in live /\ s \in owned
          /\ m_count[s] \in Nat \ {0} /\ m_count[s] = CountIn(m_shim, s)
      BY <1>1, <1>2, <1>3, <1>5, <2>4
    <3>2. One(s, old) = 0 /\ One(s, new) = 1
      BY <2>4 DEF One
    <3>3. CountIn(m_shim', s) = m_count[s] + 1
      BY <1>7, <3>1, <3>2
    <3>4. s \in live' /\ s \in owned' /\ m_count'[s] = m_count[s] + 1
      BY <2>2, <2>4, <3>1
    <3>. QED
      BY <3>1, <3>3, <3>4
  <2>5. CASE s # old /\ s # new
    BY <1>3, <1>7, <2>1, <2>2, <2>5 DEF One
  <2>. QED
    BY <2>3, <2>4, <2>5
<1>9. live' \subseteq live /\ live \subseteq Shim
  BY <1>2 DEF Positive, TypeOK
<1>. QED
  BY <1>2, <1>8, <1>9, CountedAfter DEF Counted

LEMMA SwapStep ==
    ASSUME Positive, Counted, NEW h \in Handle, NEW target \in Handle, Swap(h, target)
    PROVE  Keeps
<1>1. /\ m_shim' = [m_shim EXCEPT ![h] = m_shim[target], ![target] = m_shim[h]]
      /\ UNCHANGED <<m_count, live, owned, misused>>
  BY DEF Swap, heap
<1>2. m_shim \in Pointers
  BY DEF Positive, TypeOK, Pointers
<1>3. \A s \in Shim : CountIn(m_shim', s) = CountIn(m_shim, s)
  <2>1. PICK k : k = [m_shim EXCEPT ![h] = m_shim[target]]
    OBVIOUS
  <2>2. OnlyMoves(m_shim, k, h) /\ k[h] = m_shim[target] /\ k[target] = m_shim[target]
    BY <1>2, <2>1 DEF OnlyMoves, Pointers
  <2>3. OnlyMoves(k, m_shim', target) /\ m_shim'[target] = m_shim[h]
    BY <1>1, <1>2, <2>1 DEF OnlyMoves, Pointers
  <2>. QED
    BY <2>2, <2>3, SwapKeepsCounts
<1>4. live \subseteq Shim
  BY DEF Positive, TypeOK
<1>5. Counted'
  BY <1>1, <1>3, <1>4 DEF Counted
<1>. QED
  BY <1>1, <1>5 DEF Keeps

LEMMA DisownStep ==
    ASSUME Positive, Counted, NEW h \in Handle, Disown(h)
    PROVE  Keeps
<1>. DEFINE a == m_shim[h]
<1>1. a \in Shim /\ a \in live
  BY PointedToIsLive DEF Disown
<1>2. /\ m_shim' = [m_shim EXCEPT ![h] = Null]
      /\ live' = live \ {a} /\ owned' = owned \ {a}
      /\ UNCHANGED <<misused, m_count>>
  BY <1>1 DEF Disown
<1>3. CountIn(m_shim, a) = 1
  <2>1. HoldersIn(m_shim, a) = {h}
    BY DEF Disown, Holders, HoldersIn
  <2>. QED
    BY <2>1, FS_Singleton DEF CountIn
<1>4. m_shim \in Pointers /\ live' \subseteq Shim
  BY <1>2 DEF Positive, TypeOK, Pointers
<1>5. ASSUME NEW s \in Shim
      PROVE  /\ CountIn(m_shim', s) = CountIn(m_shim, s) - One(s, a)
             /\ CountIn(m_shim, s) \in Nat
  <2>1. OnlyMoves(m_shim, m_shim', h) /\ m_shim'[h] = Null
    BY <1>1, <1>2, <1>4 DEF OnlyMoves, Pointers
  <2>2. CountIn(m_shim', s) = CountIn(m_shim, s) + One(s, Null) - One(s, a)
    BY <2>1, OneMoves
  <2>. QED
    BY <1>4, <2>2, CountType, SharedArrayAssumption DEF One
<1>6. ASSUME NEW s \in Shim
      PROVE  /\ s \in live' <=> CountIn(m_shim', s) > 0
             /\ s \in live' => m_count'[s] = CountIn(m_shim', s)
             /\ s \in live' \ owned' => CountIn(m_shim', s) = 1
  <2>1. UNCHANGED m_count /\ live' = live \ {a} /\ owned' = owned \ {a}
    BY <1>2
  <2>. QED
    BY <1>1, <1>3, <1>5, <2>1 DEF Counted, Positive, TypeOK, One
<1>7. Counted'
  BY <1>2, <1>4, <1>6, CountedAfter DEF Counted
<1>. QED
  BY <1>2, <1>3, <1>7 DEF Keeps

-----------------------------------------------------------------------------
(* Every step *)

\* The history of copies only grows.
LEMMA HistoryGrows ==
    ASSUME Next, nullCopied
    PROVE  nullCopied'
BY DEF Next, Construct, CopyConstruct, Copied, Release, Assign, Swap, Disown

LEMMA PositiveStep ==
    ASSUME Positive, Next
    PROVE  Positive'
<1>1. CASE \E h \in Handle, null \in BOOLEAN : Construct(h, null)
  BY <1>1, ConstructPositive
<1>2. CASE \E h, rhs \in Handle : CopyConstruct(h, rhs)
  BY <1>2, CopyConstructPositive
<1>3. CASE \E h, rhs \in Handle : Assign(h, rhs)
  BY <1>3, AssignPositive
<1>4. CASE \E h, rhs \in Handle : Swap(h, rhs)
  BY <1>4, SwapPositive
<1>5. CASE \E h \in Handle : Release(h)
  BY <1>5, ReleasePositive
<1>6. CASE \E h \in Handle : Disown(h)
  BY <1>6, DisownPositive
<1>. QED
  BY <1>1, <1>2, <1>3, <1>4, <1>5, <1>6 DEF Next

\* A step that begins before any copy of a null pointer frees only what one handle
\* has, and if none is copied by it, the counts stay right.
LEMMA CountedStep ==
    ASSUME Positive, Counted, Next
    PROVE  /\ ~nullCopied' => Counted'
           /\ \A s \in live \ live' : CountIn(m_shim, s) = 1
<1>1. CASE \E h \in Handle, null \in BOOLEAN : Construct(h, null)
  BY <1>1, ConstructStep DEF Keeps
<1>2. CASE \E h, rhs \in Handle : CopyConstruct(h, rhs)
  <2>1. live' = live
    BY <1>2 DEF CopyConstruct
  <2>. QED
    BY <1>2, <2>1, CopyConstructStep DEF Keeps
<1>3. CASE \E h, rhs \in Handle : Assign(h, rhs)
  BY <1>3, AssignStep, AssignMoves
<1>4. CASE \E h, rhs \in Handle : Swap(h, rhs)
  BY <1>4, SwapStep DEF Keeps
<1>5. CASE \E h \in Handle : Release(h)
  BY <1>5, ReleaseStep DEF Keeps
<1>6. CASE \E h \in Handle : Disown(h)
  BY <1>6, DisownStep DEF Keeps
<1>. QED
  BY <1>1, <1>2, <1>3, <1>4, <1>5, <1>6 DEF Next

LEMMA StutterStep ==
    ASSUME IInv, UNCHANGED vars
    PROVE  IInv'
BY DEF IInv, Positive, Counted, TypeOK, CountIn, HoldersIn, vars, heap

-----------------------------------------------------------------------------
(* The theorems *)

\* The inductive invariant holds in every reachable state.
THEOREM CountedAlways == Spec => []IInv
<1>1. IInv /\ Next => IInv'
  BY PositiveStep, CountedStep, HistoryGrows DEF IInv
<1>2. IInv /\ [Next]_vars => IInv'
  BY <1>1, StutterStep
<1>. QED
  BY <1>2, InitHolds, PTL DEF Spec

\* The types, and that a target is owned by an allocated shim
\* (SharedArray.hpp:51-57, 250).
THEOREM Typed == Spec => []TypeOK
<1>1. IInv => TypeOK
  BY DEF IInv, Positive
<1>. QED
  BY <1>1, CountedAlways, PTL

\* A shim is allocated exactly while a handle points to it, and its count is the number
\* of its handles (SharedArray.hpp:34-49, 82-87, 119-126, 160-169).
THEOREM CountsAreHolders == Spec => []CountIsHolders
<1>1. IInv => CountIsHolders
  <2>. SUFFICES ASSUME TypeOK, Counted
                PROVE  /\ \A s \in Shim : s \in live <=> Holders(s) # {}
                       /\ \A s \in live : m_count[s] = Cardinality(Holders(s))
    BY DEF IInv, Positive, CountIsHolders
  <2>1. m_shim \in Pointers
    BY DEF TypeOK, Pointers
  <2>2. \A s \in Shim : Holders(s) = HoldersIn(m_shim, s)
    BY DEF Holders, HoldersIn
  <2>3. \A s \in Shim : CountIn(m_shim, s) > 0 <=> Holders(s) # {}
    BY <2>1, <2>2, CountType
  <2>4. \A s \in Shim : CountIn(m_shim, s) = Cardinality(Holders(s))
    BY <2>2 DEF CountIn
  <2>. QED
    BY <2>3, <2>4 DEF Counted, TypeOK
<1>. QED
  BY <1>1, CountedAlways, PTL

\* An operation uses a shim that was freed only after a handle that wraps a null
\* pointer was copied (SharedArray.hpp:158-182).
THEOREM NeverUsedAfterFree == Spec => []NoUseAfterFree
<1>1. IInv => NoUseAfterFree
  BY DEF IInv, Positive, TypeOK, Counted, NoUseAfterFree
<1>. QED
  BY <1>1, CountedAlways, PTL

\* "deallocate if we are the last owner of the pointer" (SharedArray.hpp:98-99), null
\* pointers included, until a handle that wraps one is copied.
THEOREM LastOwnerFrees == Spec => FreedByLastOwner
<1>. DEFINE Freed == ~nullCopied => \A s \in live \ live' : Cardinality(Holders(s)) = 1
<1>1. IInv /\ [Next]_vars => [Freed]_vars
  <2>. SUFFICES ASSUME IInv, Next, ~nullCopied PROVE Freed
    OBVIOUS
  <2>1. \A s \in live \ live' : CountIn(m_shim, s) = 1
    BY CountedStep DEF IInv
  <2>. QED
    BY <2>1 DEF CountIn, HoldersIn, Holders
<1>. QED
  BY <1>1, CountedAlways, PTL DEF Spec, FreedByLastOwner
=============================================================================
