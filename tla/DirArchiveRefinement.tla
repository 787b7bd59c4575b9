------------------------ MODULE DirArchiveRefinement ------------------------
(***************************************************************************)
(* The directory backend implements Registers, and its search finds every  *)
(* file.                                                                   *)
(***************************************************************************)
EXTENDS DirArchive

CONSTANT Damaged

\* Three history variables: the paths whose last write has not ended well, the reads
\* that a write overlapped, and the files that were there when a search began.
VARIABLES torn, overlapped, there

StartsWrite(p) == \E q \in Proc : call[q] = Idle /\ call'[q] # Idle /\ call'[q].op = "write" /\ call'[q].path = p
EndsWell(p) ==
    \E q \in Proc :
        /\ call[q] # Idle /\ call[q].op = "write" /\ call[q].path = p
        /\ call'[q] = Idle /\ reply'.op = <<"write">>
        /\ call[q].at = Len(call[q].content)
StillReading(q) == call[q] # Idle /\ call[q].op = "read" /\ call'[q] = call[q]

FilesIn(f) == {x \in DOMAIN f : f[x] # Dir /\ Len(x) > Len(Root) /\ SubSeq(x, 1, Len(Root)) = Root}

ObservedInit ==
    /\ Init
    /\ torn = {}
    /\ overlapped = [q \in Proc |-> FALSE]
    /\ there = [q \in Proc |-> {}]
ObservedNext ==
    /\ Next
    /\ torn' = {p \in Path : StartsWrite(p) \/ (p \in torn /\ ~EndsWell(p))}
    /\ overlapped' = [q \in Proc |->
                        /\ call'[q] # Idle /\ call'[q].op = "read"
                        /\ \/ call'[q].path \in torn'
                           \/ StillReading(q) /\ overlapped[q]]
    /\ there' = [q \in Proc |-> IF search'[q] = <<>> THEN {}
                                ELSE IF search[q] = <<>> THEN FilesIn(node')
                                ELSE there[q]]
ObservedSpec == ObservedInit /\ [][ObservedNext]_<<vars, torn, overlapped, there>>

-----------------------------------------------------------------------------
Register(p) ==
    IF p \in torn THEN Damaged ELSE IF Is(File(p), "file") THEN node[File(p)] ELSE Missing
CallOf(q) ==
    IF call[q] = Idle THEN Idle
    ELSE IF call[q].op = "write"
    THEN [op |-> "write", path |-> call[q].path, value |-> call[q].content]
    ELSE [op |-> "read", path |-> call[q].path, overlapped |-> overlapped[q]]

registers == [p \in Path |-> Register(p)]
calls == [q \in Proc |-> CallOf(q)]

R == INSTANCE Registers WITH Value <- Content, register <- registers, call <- calls

\* What is there at first was written whole.
ASSUME ContentsAssumption ==
    /\ Missing \notin Content /\ Damaged \notin Content /\ Missing # Damaged
    /\ Idle \notin R!Writing \cup R!Reading
    /\ \A f \in InitialNodes, p \in Path :
         File(p) \in DOMAIN f /\ f[File(p)] # Dir => f[File(p)] \in Content

\* Every path is a safe register: whatever processes do to other paths, die in the
\* middle of, or are refused, a read that no write of its path overlaps returns what
\* the last write that ended well wrote (DirArchive.cpp:86-145).
ImplementsRegisters == R!Spec

\* A search that ends lists every file that was there when it began, once, whatever
\* other processes make meanwhile (DirArchive.cpp:157-190).
SearchFinds ==
    [][\A q \in Proc :
        search[q] # <<>> /\ search'[q] = <<>> /\ m_mode'[q] # "closed" =>
            /\ there[q] \subseteq Range(m_fileNames[q])
            /\ IsInjective(m_fileNames[q])]_<<vars, torn, overlapped, there>>

\* "Read the contents of the given location within the archive" (Archive.hpp): the
\* names an archive lists are names it reads.
NamesRead ==
    \A q \in Proc : \A i \in DOMAIN m_fileNames[q] : Is(File(m_fileNames[q][i]), "file")

\* "Extremely robust to process death" (doc/source/backends.rst:60): only a record that
\* is being written is damaged.  It does not hold: the death of a process that writes over
\* a record leaves neither the old contents nor the new.
DamagedWhileWritten ==
    torn \subseteq {call[q].path : q \in {r \in Proc : call[r] # Idle /\ call[r].op = "write"}}

\* Opening for writing leaves no record of what was there (gtar/_gtar.pyx:398).  It
\* does not hold: the constructor empties nothing.
WriteEmpties == \A q \in Proc : m_mode[q] = "Write" => there[q] = {}
=============================================================================
