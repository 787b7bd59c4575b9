------------------------------ MODULE Document ------------------------------
(***************************************************************************)
(* What the zip backend promises: a document that several processes read,  *)
(* that one at a time edits, and that is saved when it is closed.          *)
(*                                                                         *)
(* `file' is what a process that opens it now would find: a map from paths *)
(* to contents, or nothing at all.  An open archive is a copy of the map,  *)
(* which later edits by other processes do not reach.  Editing may at any  *)
(* moment make the file Unreadable, and it stays so unless the archive is  *)
(* closed and the file takes all that close writes.                        *)
(***************************************************************************)
CONSTANTS
    Proc, Path, Value,
    Missing,    \* no record has the path
    Unreadable, \* the file cannot be opened
    NoReply,    \* the last operation returned nothing
    Threw,      \* it threw
    Saved       \* it was a close that saved the document

VARIABLES
    file,       \* [Path -> Value or Missing], or Unreadable
    session,    \* how each process has the document open, or "closed"
    working,    \* what each process reads
    disturbed,  \* the file was opened in Write mode by another since it was opened
    reply       \* whose the last operation was, and what it returned

vars == <<file, session, working, disturbed, reply>>

Map == [Path -> Value \cup {Missing}]
Empty == [p \in Path |-> Missing]

Init ==
    /\ file \in Map \cup {Unreadable}
    /\ session = [q \in Proc |-> "closed"]
    /\ working = [q \in Proc |-> Empty]
    /\ disturbed = [q \in Proc |-> FALSE]
    /\ reply \in [by : Proc, op : {<<"close">>}, value : {NoReply}]

Edits(q) == session[q] \in {"Write", "Append"}
NobodyEdits == \A q \in Proc : ~Edits(q)

\* What becomes of the file while q works.
MayFade(q) == file' \in IF Edits(q) THEN {file, Unreadable} ELSE {file}

Returns(q, op, r) == reply' = [by |-> q, op |-> op, value |-> r]

\* Opening in Write mode makes a new document and takes the old one from its readers.
OpenWrite(q) ==
    /\ session[q] = "closed" /\ NobodyEdits
    /\ session' = [session EXCEPT ![q] = "Write"]
    /\ file' = Unreadable
    /\ working' = [working EXCEPT ![q] = Empty]
    /\ disturbed' = [r \in Proc |-> session[r] # "closed"]
    /\ Returns(q, <<"open">>, NoReply)

Open(q, mode) ==
    /\ session[q] = "closed"
    /\ mode = "Append" => NobodyEdits
    /\ file # Unreadable
    /\ session' = [session EXCEPT ![q] = mode]
    /\ working' = [working EXCEPT ![q] = file]
    /\ UNCHANGED <<file, disturbed>>
    /\ Returns(q, <<"open">>, NoReply)

\* An open or a write that throws: it changes nothing but the file.
Refuse(q, op) ==
    /\ op \in {<<"open">>, <<"write">>}
    /\ MayFade(q)
    /\ UNCHANGED <<session, working, disturbed>>
    /\ Returns(q, op, Threw)

WritePtr(q, p, v) ==
    /\ Edits(q)
    /\ MayFade(q)
    /\ working' = [working EXCEPT ![q][p] = v]
    /\ UNCHANGED <<session, disturbed>>
    /\ Returns(q, <<"write">>, NoReply)

\* A read returns what was there, or was written since; only Write mode disturbs it.
Read(q, p) ==
    /\ session[q] # "closed"
    /\ MayFade(q)
    /\ UNCHANGED <<session, working, disturbed>>
    /\ \/ Returns(q, <<"read", p>>, working[q][p])
       \/ disturbed[q] /\ Returns(q, <<"read", p>>, Threw)

End(q, r) ==
    /\ session[q] # "closed"
    /\ session' = [session EXCEPT ![q] = "closed"]
    /\ working' = [working EXCEPT ![q] = Empty]
    /\ disturbed' = [disturbed EXCEPT ![q] = FALSE]
    /\ Returns(q, <<"close">>, r)

Close(q) ==
    \/ Edits(q) /\ End(q, Saved) /\ file' = working[q]
    \/ ~Edits(q) /\ End(q, NoReply) /\ UNCHANGED file

\* The process dies, or a close fails without a word.
Lose(q) ==
    /\ Edits(q)
    /\ End(q, NoReply)
    /\ file' \in {file, Unreadable, working[q]}

Next ==
    \E q \in Proc :
        \/ OpenWrite(q)
        \/ \E mode \in {"Read", "Append"} : Open(q, mode)
        \/ Refuse(q, <<"open">>) \/ Refuse(q, <<"write">>)
        \/ \E p \in Path, v \in Value : WritePtr(q, p, v)
        \/ \E p \in Path : Read(q, p)
        \/ Close(q) \/ Lose(q)

Spec == Init /\ [][Next]_vars
=============================================================================
