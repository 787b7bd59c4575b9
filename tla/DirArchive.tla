----------------------------- MODULE DirArchive -----------------------------
(***************************************************************************)
(* The directory backend (src/src/DirArchive.cpp): each record is a file   *)
(* below the archive's directory, and several processes use the directory  *)
(* at once.  Nothing is kept open between calls, so a call is several      *)
(* steps here, and those of other processes come in between: the           *)
(* constructor's search, entry by entry; a write, from emptying the file   *)
(* to the last of the bytes; a read, from the size to the bytes.           *)
(*                                                                         *)
(* A path is the sequence of its segments.  `node' tells what is at a path *)
(* as the operating system sees it; callers' paths are below Root.  No     *)
(* other program removes anything.                                         *)
(***************************************************************************)
EXTENDS CellFile, FiniteSets, SequencesExt

CONSTANTS
    Proc,       \* processes
    Name,       \* what stands between two slashes
    Root,       \* the archive's directory: m_filename, without the slash at the end
    Path,       \* the paths callers use
    Byte,       \* what contents are made of
    Content,    \* the contents callers write
    Dir,        \* a directory
    Idle,       \* the process is not inside a call
    NoReply,    \* the last call has not returned
    Done,       \* it returned
    Missing,    \* read() of a path without file: a null SharedArray
    Torn,       \* contents of which some bytes were never set
    Threw,      \* it threw
    OneWriter,  \* a path is written by one process at a time
    Fails,      \* writing to a file may fail
    MaxNames,   \* bound: the number of names an archive lists
    InitialNodes \* what may be there at first

Writing == [op : {"write"}, path : Path, content : Content, at : Nat]
Reading == [op : {"read"}, path : Path, size : Nat]

\* What the operating system has: above everything in it are directories.
IsTree(f) ==
    \A x \in DOMAIN f :
        /\ x \in Seq(Name)
        /\ f[x] = Dir \/ f[x] \in Seq(Byte)
        /\ \A k \in 0..(Len(x) - 1) : SubSeq(x, 1, k) \in DOMAIN f /\ f[SubSeq(x, 1, k)] = Dir

ASSUME DirAssumption ==
    /\ Root \in Seq(Name)
    /\ Path \subseteq Seq(Name) \ {<<>>}
    /\ Content \subseteq Seq(Byte)
    /\ Zero \in Byte
    /\ Dir \notin Seq(Byte)
    /\ Idle \notin Writing \cup Reading
    /\ \A f \in InitialNodes : IsTree(f)
    /\ OneWriter \in BOOLEAN /\ Fails \in BOOLEAN
    /\ MaxNames \in Nat

VARIABLES
    node,       \* [the paths that exist -> Dir or the contents of a file]
    m_mode,     \* how each process has the archive open, or "closed"
    m_fileNames,
    m_createdDirectories,
    search,     \* the calls of searchDirectory, innermost first: the entries each has left
    call,       \* the write or the read each process is in
    reply       \* whose the last call was, what it was, and what it returned

vars == <<node, m_mode, m_fileNames, m_createdDirectories, search, call, reply>>

-----------------------------------------------------------------------------
(* The file system *)

File(x) == Root \o x                        \* m_filename + path
Is(x, kind) == x \in DOMAIN node /\ (node[x] = Dir) = (kind = "dir")
Entries(x) == {y \in DOMAIN node : y # <<>> /\ Front(y) = x}
Put(f, x, c) == [y \in DOMAIN f \cup {x} |-> IF y = x THEN c ELSE f[y]]

\* mkdir, where it succeeds: the parent is a directory, and the name is free.
Mkdir(f, x) ==
    IF x \notin DOMAIN f /\ (x = <<>> \/ (Front(x) \in DOMAIN f /\ f[Front(x)] = Dir)) THEN Put(f, x, Dir) ELSE f

-----------------------------------------------------------------------------
Init ==
    /\ node \in InitialNodes
    /\ m_mode = [q \in Proc |-> "closed"]
    /\ m_fileNames = [q \in Proc |-> <<>>]
    /\ m_createdDirectories = [q \in Proc |-> {}]
    /\ search = [q \in Proc |-> <<>>]
    /\ call = [q \in Proc |-> Idle]
    /\ reply \in [by : Proc, op : {<<"open">>}, value : {Done}]

Returns(q, op, r) == reply' = [by |-> q, op |-> op, value |-> r]

\* The process can call.
Free(q) == m_mode[q] # "closed" /\ search[q] = <<>> /\ call[q] = Idle

\* The constructor finds or makes the directory, and opens it for the search.
Open(q, mode) ==
    LET made == IF mode = "Read" THEN node ELSE Mkdir(node, Root)
    IN  /\ m_mode[q] = "closed"
        /\ Root \in DOMAIN made /\ made[Root] = Dir
        /\ node' = made
        /\ m_mode' = [m_mode EXCEPT ![q] = mode]
        /\ search' = [search EXCEPT ![q] = << {y \in DOMAIN made : y # <<>> /\ Front(y) = Root} >>]
        /\ Returns(q, <<"open">>, NoReply)
        /\ UNCHANGED <<m_fileNames, m_createdDirectories, call>>

\* A file has the name, or nothing has: it is to be read, or mkdir, whose result is not
\* looked at, does not make it, and the search throws.
OpenThrows(q, mode) ==
    /\ m_mode[q] = "closed"
    /\ ~Is(Root, "dir")
    /\ Returns(q, <<"open">>, Threw)
    /\ UNCHANGED <<node, m_mode, m_fileNames, m_createdDirectories, search, call>>

\* Mutant: the rest of the outer directory is forgotten.
DescendsInstead(s, x, entries) == <<entries>> \o Tail(s)

\* Mutant: the names found are not joined to the directory's.
DescendsBare(s, x, entries) == <<{<<Last(y)>> : y \in entries}, Head(s) \ {x}>> \o Tail(s)

\* The search of an inner directory begins.
Descends(s, x, entries) == <<entries, Head(s) \ {x}>> \o Tail(s)

\* One turn of searchDirectory's loop.
SearchEntry(q, x) ==
    /\ search[q] # <<>> /\ x \in Head(search[q])
    /\ Len(m_fileNames[q]) < MaxNames
    /\ IF Is(x, "dir")
       THEN /\ search' = [search EXCEPT ![q] = Descends(@, x, Entries(x))]
            /\ UNCHANGED m_fileNames
       ELSE /\ search' = [search EXCEPT ![q] = <<Head(@) \ {x}>> \o Tail(@)]
            /\ m_fileNames' = [m_fileNames EXCEPT ![q] = Append(@, x)]
    /\ UNCHANGED <<node, m_mode, m_createdDirectories, call, reply>>

\* searchDirectory returns; the outermost ends the constructor.
SearchReturns(q) ==
    /\ search[q] # <<>> /\ Head(search[q]) = {}
    /\ search' = [search EXCEPT ![q] = Tail(@)]
    /\ IF Len(search[q]) = 1 THEN Returns(q, <<"open">>, Done) ELSE UNCHANGED reply
    /\ UNCHANGED <<node, m_mode, m_fileNames, m_createdDirectories, call>>

-----------------------------------------------------------------------------
(* Writing *)

\* The directories above a path.
Segments(p) == {SubSeq(p, 1, i) : i \in 1..(Len(p) - 1)}

\* What is there once writePtr has made those that this object has not made before,
\* outermost first.
Prepared(q, p) ==
    LET made[i \in 0..(Len(p) - 1)] ==
            IF i = 0 THEN node
            ELSE IF SubSeq(p, 1, i) \in m_createdDirectories[q] THEN made[i - 1]
            ELSE Mkdir(made[i - 1], File(SubSeq(p, 1, i)))
    IN  made[Len(p) - 1]

\* The file of p can be opened for writing: its directory is one and it is not.
CanOpen(f, p) ==
    /\ Front(File(p)) \in DOMAIN f /\ f[Front(File(p))] = Dir
    /\ ~ (File(p) \in DOMAIN f /\ f[File(p)] = Dir)

\* Assumed of callers when OneWriter, for nothing in the code locks the file.
MayWrite(p) == OneWriter => \A r \in Proc : call[r] # Idle /\ call[r].op = "write" => call[r].path # p

\* Mutant: opened without ios_base::trunc.
Kept(f, x) == IF x \in DOMAIN f THEN f ELSE Put(f, x, <<>>)

\* ios_base::trunc
Emptied(f, x) == Put(f, x, <<>>)

\* The directories are made, and the file is created or emptied.
StartWrite(q, p, c) ==
    /\ Free(q) /\ m_mode[q] # "Read" /\ MayWrite(p)
    /\ Len(m_fileNames[q]) < MaxNames
    /\ CanOpen(Prepared(q, p), p)
    /\ node' = Emptied(Prepared(q, p), File(p))
    /\ m_createdDirectories' = [m_createdDirectories EXCEPT ![q] = @ \cup Segments(p)]
    /\ call' = [call EXCEPT ![q] = [op |-> "write", path |-> p, content |-> c, at |-> 0]]
    /\ Returns(q, <<"write">>, NoReply)
    /\ UNCHANGED <<m_mode, m_fileNames, search>>

\* The directories are made, those that can be; the file cannot.
WriteThrows(q, p) ==
    /\ Free(q)
    /\ IF m_mode[q] = "Read" THEN UNCHANGED <<node, m_createdDirectories>>
       ELSE /\ ~CanOpen(Prepared(q, p), p)
            /\ node' = Prepared(q, p)
            /\ m_createdDirectories' = [m_createdDirectories EXCEPT ![q] = @ \cup Segments(p)]
    /\ Returns(q, <<"write">>, Threw)
    /\ UNCHANGED <<m_mode, m_fileNames, search, call>>

\* The next n bytes reach the file.
WriteSome(q, n) ==
    LET w == call[q]
    IN  /\ w # Idle /\ w.op = "write"
        /\ n \in 1..(Len(w.content) - w.at)
        /\ node' = [node EXCEPT ![File(w.path)] = Overlay(@, w.at, SubSeq(w.content, w.at + 1, w.at + n))]
        /\ call' = [call EXCEPT ![q].at = @ + n]
        /\ UNCHANGED <<m_mode, m_fileNames, m_createdDirectories, search, reply>>

\* All of the contents are in the file, or the file takes no more: nobody looks.
Written(w) == w.at = Len(w.content) \/ Fails

FinishWrite(q) ==
    /\ call[q] # Idle /\ call[q].op = "write"
    /\ Written(call[q])
    /\ m_fileNames' = [m_fileNames EXCEPT ![q] = Append(@, call[q].path)]
    /\ call' = [call EXCEPT ![q] = Idle]
    /\ Returns(q, <<"write">>, Done)
    /\ UNCHANGED <<node, m_mode, m_createdDirectories, search>>

-----------------------------------------------------------------------------
(* Reading *)

\* The file is opened, and its size taken.
StartRead(q, p) ==
    /\ Free(q)
    /\ Is(File(p), "file")
    /\ call' = [call EXCEPT ![q] = [op |-> "read", path |-> p, size |-> Len(node[File(p)])]]
    /\ Returns(q, <<"read", p>>, NoReply)
    /\ UNCHANGED <<node, m_mode, m_fileNames, m_createdDirectories, search>>

\* There is no such file, or it is a directory, whose size no memory holds.
ReadMissing(q, p) ==
    /\ Free(q)
    /\ ~Is(File(p), "file")
    /\ Returns(q, <<"read", p>>, IF Is(File(p), "dir") THEN Threw ELSE Missing)
    /\ UNCHANGED <<node, m_mode, m_fileNames, m_createdDirectories, search, call>>

\* As many bytes as the file had are read into memory nobody has set.
FinishRead(q) ==
    LET bytes == node[File(call[q].path)]
    IN  /\ call[q] # Idle /\ call[q].op = "read"
        /\ call' = [call EXCEPT ![q] = Idle]
        /\ Returns(q, <<"read", call[q].path>>,
                   IF Len(bytes) < call[q].size THEN Torn ELSE SubSeq(bytes, 1, call[q].size))
        /\ UNCHANGED <<node, m_mode, m_fileNames, m_createdDirectories, search>>

\* The object is gone, or the process is.
Forget(q) ==
    /\ m_mode' = [m_mode EXCEPT ![q] = "closed"]
    /\ m_fileNames' = [m_fileNames EXCEPT ![q] = <<>>]
    /\ m_createdDirectories' = [m_createdDirectories EXCEPT ![q] = {}]
    /\ search' = [search EXCEPT ![q] = <<>>]
    /\ call' = [call EXCEPT ![q] = Idle]
    /\ Returns(q, <<"close">>, Done)
    /\ UNCHANGED node

Close(q) == Free(q) /\ Forget(q)
Die(q) == m_mode[q] # "closed" /\ ~Free(q) /\ Forget(q)

Next ==
    \E q \in Proc :
        \/ \E mode \in {"Read", "Write", "Append"} : Open(q, mode) \/ OpenThrows(q, mode)
        \/ \E x \in DOMAIN node : SearchEntry(q, x)
        \/ SearchReturns(q)
        \/ \E p \in Path, c \in Content : StartWrite(q, p, c)
        \/ \E p \in Path : WriteThrows(q, p) \/ StartRead(q, p) \/ ReadMissing(q, p)
        \/ call[q] # Idle /\ call[q].op = "write" /\ \E n \in 1..Len(call[q].content) : WriteSome(q, n)
        \/ FinishWrite(q) \/ FinishRead(q)
        \/ Close(q) \/ Die(q)

Spec == Init /\ [][Next]_vars

-----------------------------------------------------------------------------
(* Properties *)

\* The types of the file system, the calls and the names; every file has a directory
\* above it (DirArchive.hpp:58-66).
TypeOK ==
    /\ IsTree(node)
    /\ m_mode \in [Proc -> {"closed", "Read", "Write", "Append"}]
    /\ m_fileNames \in [Proc -> Seq(Seq(Name))]
    /\ \A q \in Proc : Len(m_fileNames[q]) <= MaxNames
    /\ m_createdDirectories \in [Proc -> SUBSET UNION {Segments(p) : p \in Path}]
    /\ search \in [Proc -> Seq(SUBSET DOMAIN node)]
    /\ call \in [Proc -> Writing \cup Reading \cup {Idle}]
=============================================================================
