------------------------ MODULE ZipArchiveRefinement ------------------------
(***************************************************************************)
(* The zip backend implements Document: the document is what the file's    *)
(* directory leads to, a process's copy is what its directory in memory    *)
(* lists.                                                                  *)
(***************************************************************************)
EXTENDS ZipArchive

CONSTANT Unreadable

\* File f has the record that entry e lists, and it ends before position o.
Recorded(f, e, o) ==
    /\ e.ofs + 1 + Len(e.content) <= o
    /\ e.content # <<>> => f[e.ofs + 1] \in Local /\ BytesOf(f, e) = e.content

\* File f is as close leaves it: records up to o, and then their directory d.  Behind it
\* there may be something of a write that failed.
IsSaved(f, o, d) ==
    /\ Len(f) >= o + Len(d) + 3 /\ Len(f) - (o + Len(d) + 3) < Reach
    /\ \A i \in 1..(Len(d) + 3) : f[o + i] = DirectoryCells(d, o)[i]
    /\ d = <<>> => o = 0
    /\ \A i \in DOMAIN f : f[i] \in End => i = o + Len(d) + 3
    /\ \A i \in DOMAIN d : Recorded(f, d[i], o)

\* A file that opens has its records; if it can be appended to it was saved by close.
Sound(f) ==
    Opens(f) => IF IsZip64(f) THEN IsSaved(f, StartOf(f), DirectoryOf(f))
                ELSE \A i \in DOMAIN DirectoryOf(f) : Recorded(f, DirectoryOf(f)[i], Len(f))

\* What a process finds for path p with directory d and index map.
Contents(d, map, p) == IF p \in DOMAIN map THEN d[map[p] + 1].content ELSE Missing

\* What a process that opens file f finds; Unreadable at a path it cannot extract.
FoundIn(f) ==
    IF ~Opens(f) THEN Unreadable
    ELSE LET d   == DirectoryOf(f)
             map == PathMap(d)
         IN  [p \in Path |-> IF p \in DOMAIN map /\ ~Extracts(f, d[map[p] + 1], Len(f)) THEN Unreadable
                             ELSE Contents(d, map, p)]

\* Two history variables: what the file holds, and whose file was taken away.
VARIABLES found, disturbed

NewWriters == {q \in Proc : m_mode[q] = "closed" /\ m_mode'[q] = "Write"}

ObservedInit == Init /\ found = FoundIn(disk) /\ disturbed = [q \in Proc |-> FALSE]
ObservedNext ==
    /\ Next
    /\ found' = IF disk' = disk THEN found ELSE FoundIn(disk')
    /\ disturbed' = [q \in Proc |-> m_mode'[q] # "closed" /\ m_mode[q] # "closed"
                                    /\ (disturbed[q] \/ NewWriters # {})]
ObservedSpec == ObservedInit /\ [][ObservedNext]_<<vars, found, disturbed>>

\* What each process's copy holds.
working == [q \in Proc |-> [p \in Path |-> Contents(directory[q], m_path_map[q], p)]]

D == INSTANCE Document WITH Value <- Content, file <- found, session <- m_mode

\* What is there at first is not an archive, or is a sound one.
ASSUME FilesAssumption ==
    /\ \A f \in InitialFiles : Sound(f)
    /\ Unreadable \notin D!Map

\* A process that opens the archive finds all of what was last saved or nothing, never
\* a part, never a mixture; what it then reads stays the same whatever a process that
\* appends does, up to its death; what a writer closes is what the next one finds
\* (ZipArchive.cpp:26-112, 148, 167-194).
ImplementsDocument == D!Spec

\* Closing an archive that was opened for appending loses no record the file had
\* (ZipArchive.cpp:91-101).  It fails when two processes append at once.
AppendersKeep ==
    [][\A q \in Proc :
        m_mode[q] = "Append" /\ m_mode'[q] = "closed" /\ reply'.value = Saved /\ found # Unreadable =>
            \A p \in Path : found[p] # Missing => found' # Unreadable /\ found'[p] # Missing]_<<vars, found>>
=============================================================================
