----------------------------- MODULE SharedStore -----------------------------
(***************************************************************************)
(* What connections to one database promise each other: a map from paths   *)
(* to values that changes only by whole transactions.  `draft' holds the   *)
(* writes of a transaction that has not committed, which nobody else sees. *)
(***************************************************************************)
CONSTANTS Conn, Path, Value, Missing

VARIABLES
    stored,     \* [Path -> Value or Missing]
    draft,      \* [Conn -> function from some paths to values]
    reply       \* [Conn -> what its last read returned, None before]

CONSTANT None

vars == <<stored, draft, reply>>

NoWrites == [p \in {} |-> None]

\* What a connection must read.
Seen(c, p) == IF p \in DOMAIN draft[c] THEN draft[c][p] ELSE stored[p]

Init ==
    /\ stored = [p \in Path |-> Missing]
    /\ draft = [c \in Conn |-> NoWrites]
    /\ reply = [c \in Conn |-> None]

\* A new, empty database, when there is no transaction.
Create ==
    /\ \A c \in Conn : draft[c] = NoWrites
    /\ stored' = [p \in Path |-> Missing]
    /\ UNCHANGED <<draft, reply>>

\* One transaction at a time has writes.
Write(c, p, v) ==
    /\ \A d \in Conn \ {c} : draft[d] = NoWrites
    /\ draft' = [draft EXCEPT ![c] =
         [q \in DOMAIN draft[c] \cup {p} |-> IF q = p THEN v ELSE draft[c][q]]]
    /\ UNCHANGED <<stored, reply>>

Commit(c) ==
    /\ stored' = [p \in Path |-> Seen(c, p)]
    /\ draft' = [draft EXCEPT ![c] = NoWrites]
    /\ UNCHANGED reply

\* The connection ends, by close or by death, or forgets what it read.
Leave(c) ==
    /\ draft' = [draft EXCEPT ![c] = NoWrites]
    /\ reply' = [reply EXCEPT ![c] = None]
    /\ UNCHANGED stored

Read(c, p) ==
    /\ reply' = [reply EXCEPT ![c] = Seen(c, p)]
    /\ UNCHANGED <<stored, draft>>

ForgetReply(c) ==
    /\ reply' = [reply EXCEPT ![c] = None]
    /\ UNCHANGED <<stored, draft>>

Next ==
    \/ Create
    \/ \E c \in Conn : Commit(c) \/ Leave(c) \/ ForgetReply(c)
    \/ \E c \in Conn, p \in Path : Read(c, p)
    \/ \E c \in Conn, p \in Path, v \in Value : Write(c, p, v)

Spec == Init /\ [][Next]_vars
=============================================================================
