------------------------------ MODULE Registers ------------------------------
(***************************************************************************)
(* What the directory backend promises: every path is a safe register      *)
(* (Lamport, "On interprocess communication").  A read returns the value   *)
(* last written, unless a write of that path overlaps it, and then it may  *)
(* return anything.  A write that does not end well leaves the register    *)
(* Damaged, and so does one that is under way; the next mends it.          *)
(***************************************************************************)
CONSTANTS
    Proc, Path, Value,
    Missing,    \* the path was never written
    Damaged,    \* nobody knows what reading the path returns
    Idle,       \* not inside a call
    NoReply,    \* the last call has not returned
    Done,       \* it returned
    Threw       \* it threw

VARIABLES
    register,   \* [Path -> Value, Missing or Damaged]
    call,       \* each process's write, read, or neither
    reply       \* whose the last call was, what it was, and what it returned

vars == <<register, call, reply>>

Writing == [op : {"write"}, path : Path, value : Value]
Reading == [op : {"read"}, path : Path, overlapped : BOOLEAN]

Returns(q, op, r) == reply' = [by |-> q, op |-> op, value |-> r]
Becomes(q, c) == call' = [call EXCEPT ![q] = c]
InWrite(q) == call[q] # Idle /\ call[q].op = "write"
InRead(q) == call[q] # Idle /\ call[q].op = "read"

Init ==
    /\ register \in [Path -> Value \cup {Missing}]
    /\ call = [q \in Proc |-> Idle]
    /\ reply \in [by : Proc, op : {<<"open">>}, value : {Done}]

\* The reads of p that are under way overlap the write.
StartWrite(q, p, v) ==
    /\ call[q] = Idle
    /\ register' = [register EXCEPT ![p] = Damaged]
    /\ call' = [r \in Proc |->
                    IF r = q THEN [op |-> "write", path |-> p, value |-> v]
                    ELSE IF InRead(r) /\ call[r].path = p THEN [call[r] EXCEPT !.overlapped = TRUE]
                    ELSE call[r]]
    /\ Returns(q, <<"write">>, NoReply)

\* The caller cannot tell a write that failed.
FinishWrite(q) ==
    /\ InWrite(q)
    /\ \/ register' = [register EXCEPT ![call[q].path] = call[q].value]
       \/ UNCHANGED register
    /\ Becomes(q, Idle)
    /\ Returns(q, <<"write">>, Done)

StartRead(q, p) ==
    /\ call[q] = Idle
    /\ register[p] # Missing
    /\ Becomes(q, [op |-> "read", path |-> p, overlapped |-> register[p] = Damaged])
    /\ Returns(q, <<"read", p>>, NoReply)
    /\ UNCHANGED register

FinishRead(q) ==
    /\ InRead(q)
    /\ Becomes(q, Idle)
    /\ reply'.by = q /\ reply'.op = <<"read", call[q].path>>
    /\ ~call[q].overlapped => reply'.value = register[call[q].path]
    /\ UNCHANGED register

\* A read that returns at once: nothing was written, or it throws.
ReadMissing(q, p) ==
    /\ call[q] = Idle
    /\ register[p] = Missing
    /\ Returns(q, <<"read", p>>, Missing) \/ Returns(q, <<"read", p>>, Threw)
    /\ UNCHANGED <<register, call>>

\* The operations that change no register.
Other(q) ==
    /\ call[q] = Idle
    /\ \E op \in {"open", "close"}, r \in {NoReply, Done, Threw} : Returns(q, <<op>>, r)
    /\ UNCHANGED <<register, call>>

Refuse(q) ==
    /\ call[q] = Idle
    /\ Returns(q, <<"write">>, Threw)
    /\ UNCHANGED <<register, call>>

\* The process dies: what it was writing stays Damaged.
Die(q) ==
    /\ Becomes(q, Idle)
    /\ Returns(q, <<"close">>, Done)
    /\ UNCHANGED register

Next ==
    \E q \in Proc :
        \/ \E p \in Path, v \in Value : StartWrite(q, p, v)
        \/ \E p \in Path : StartRead(q, p) \/ ReadMissing(q, p)
        \/ FinishWrite(q) \/ FinishRead(q)
        \/ Other(q) \/ Refuse(q) \/ Die(q)

Spec == Init /\ [][Next]_vars
=============================================================================
