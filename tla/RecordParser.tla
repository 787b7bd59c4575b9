---------------------------- MODULE RecordParser ----------------------------
(* The loop of Record(path) that takes a path apart at its slashes, and what   *)
(* its result must satisfy, whatever directories the path has.                 *)
EXTENDS Record

CONSTANTS
    Directory,      \* what may stand between two slashes
    MaxDirectories  \* bounds the paths

ASSUME ParserAssumption ==
    Directory \subseteq Seq(STRING) \ {<<>>} /\ MaxDirectories \in Nat

VARIABLE dirs

ParserInit == dirs \in {<<d>> : d \in Directory}

PushBack(d) ==
    /\ Len(dirs) < MaxDirectories
    /\ dirs' = Append(dirs, d)

ParserNext == \E d \in Directory : PushBack(d)

ParserSpec == ParserInit /\ [][ParserNext]_dirs

\* getPath "constructs a path (for inside an archive) from this object's various fields"
\* (Record.hpp:65-67): the path a record was made from, unless that begins with a slash.
ReadsBack == dirs[1] # NoText => GetPath(RecordOf(dirs)) = dirs

\* A record and the record of its path are the same one in m_records (GTAR.cpp:202-209),
\* for every path, so that writing a record and asking for it again agree.
Normal == RecordOf(GetPath(RecordOf(dirs))) = RecordOf(dirs)

\* Another frame of a record differs in its index only (GTAR.cpp:191-200,
\* _gtar.pyx:556-563): setting the index and parsing the path gives that index back.
IndexReadsBack ==
    \A d \in Directory :
        LET r == RecordOf(dirs)
        IN  r.behavior # "constant" => RecordOf(GetPath(WithIndex(r, d))) = WithIndex(r, d)
=============================================================================
