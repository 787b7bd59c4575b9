-------------------------- MODULE TarArchiveRecords --------------------------
(***************************************************************************)
(* What an independent reading of a tar file finds in it, and the          *)
(* properties that compare the backend's index and reads with it.          *)
(***************************************************************************)
EXTENDS TarArchive

CONSTANT Damaged    \* contents nobody wrote

ASSUME DamagedAssumption == Damaged \notin Content \cup {NoReply, Synced, Missing}

\* The records of the tar file f, in order, up to the first block without the
\* magic: the format's own definition, with no index, stream or `offset'.  No
\* record ends before it begins.
Records(f) ==
    LET From[o \in 0..Len(f)] ==
          IF CellAt(f, o + 1) # Magic THEN <<>>
          ELSE LET next == o + Block + Padded(SizeOf(f, o))
               IN  <<[path |-> PathOf(f, o), start |-> o + Block, size |-> SizeOf(f, o)]>>
                   \o (IF o < next /\ next <= Len(f) THEN From[next] ELSE <<>>)
    IN  From[0]

\* The contents of record r of file f, if its cells are all there.
ContentOf(f, r) ==
    IF r.size < 0 \/ r.start + r.size > Len(f) THEN Damaged
    ELSE LET c == SubSeq(f, r.start + 1, r.start + r.size)
         IN  IF c \in Content THEN c ELSE Damaged

\* The last of the records rs that has path p.
LastOf(rs, p) ==
    CHOOSE i \in DOMAIN rs : rs[i].path = p /\ \A j \in DOMAIN rs : rs[j].path = p => j <= i

\* What a new process finds in the file f.
FoundIn(f) ==
    LET rs == Records(f)
    IN  [p \in Path |-> IF \E i \in DOMAIN rs : rs[i].path = p
                        THEN ContentOf(f, rs[LastOf(rs, p)]) ELSE Missing]

\* After any history the index is exactly what a fresh reading of the flushed
\* file would build: same names in the same order, and for each path the place
\* and size of its last record (TarArchive.cpp:68-137, 268-274).
IndexMatchesFile ==
    pc = "open" /\ ~fail =>
        LET rs == Records(Flushed)
        IN  /\ m_fileNames = [i \in DOMAIN rs |-> rs[i].path]
            /\ \A p \in DOMAIN m_fileOffsets :
                 LET last == rs[LastOf(rs, p)]
                 IN  m_fileOffsets[p] = last.start /\ m_fileSizes[p] = last.size

\* A later process reads what this one reads, as the test suite expects of every
\* backend (test/test_gtar.py:88-96): the file's record of a path this session
\* indexed has the place and size of the index.  A long path or a size the header
\* cannot hold breaks it (TarArchive.cpp:192-204, 218-222).
ReopenReadsBack ==
    pc = "open" /\ ~fail =>
        \A p \in Path \cap DOMAIN m_fileOffsets :
            FoundIn(Flushed)[p] =
              ContentOf(Flushed, [start |-> m_fileOffsets[p], size |-> m_fileSizes[p]])

\* "Tar files should be robust to process death; in the worst case, only part of
\* the data of a file is written" (doc/source/backends.rst:27-29): the records
\* that are whole in the file still read back.
IntactReadsBack ==
    [][\A p \in Path :
         Read(p) /\ FoundIn(disk')[p] \in Content => reply' = FoundIn(disk')[p]]_vars

-----------------------------------------------------------------------------
(* What the theorems about the file take of paths, contents and the files that  *)
(* were there before; TarArchiveProofs says what each is for.                   *)

\* Where a record ends; where the header of the i-th of the records rs is when
\* the first is at o; where the header after the last one would be.
EndOf(r) == r.start + Padded(r.size)
PlaceFrom(o, rs, i) == IF i = 1 THEN o ELSE EndOf(rs[i - 1])
HeaderPlace(rs, i) == PlaceFrom(0, rs, i)
EndOfAll(rs) == HeaderPlace(rs, Len(rs) + 1)

\* The cells that may lie behind the records of a file: padding, and what the
\* files that were there before libgetar hold behind theirs.
Leftover ==
    {Zero} \cup
    UNION {{f[i] : i \in {j \in 1..Len(f) : j > EndOfAll(Records(f)) + 1}} : f \in InitialFiles}

\* No file that was there before has a size with a minus sign.
NoMinus == Minus = {}

\* No file that was there before has a header behind the end of its records.
NoHeaderBehind == Magic \notin Leftover

\* A write the headers can hold: a short path, a size of at most 11 digits.
Fits ==
    /\ \A p \in Path \ TooLong : p.last = NoStr
    /\ \A c \in Content : Len(c) < SizeLimit

\* A content cut short, with leftover cells behind the cut, is none that a caller
\* writes; a header cut short, with a leftover cell as its prefix, has no path of
\* another record.
TornShows ==
    /\ \A v, d \in Content : \A j \in 0..Len(v) :
         /\ Len(d) = Len(v)
         /\ \A i \in 1..Len(v) : IF i <= j THEN d[i] = v[i] ELSE d[i] \in Leftover
         => d = v
    /\ \A p \in Path \ TooLong, t \in Leftover :
         [p EXCEPT !.prefix = PrefixOf(t)] \in Path => [p EXCEPT !.prefix = PrefixOf(t)] = p
=============================================================================
