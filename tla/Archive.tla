------------------------------ MODULE Archive ------------------------------
(***************************************************************************)
(* What an Archive backend promises its caller (src/src/Archive.hpp): a    *)
(* map from paths to contents that survives the process.                   *)
(*                                                                         *)
(* `stored' is what a new process would find.  `pending' lists the writes, *)
(* oldest first, that returned but may still be lost; ending a bulk write, *)
(* an immediate write and a close store all of them.  When the process     *)
(* dies a prefix of `pending' has been stored, and at most one further     *)
(* write, the one in progress, is left Damaged.  The promise is weaker     *)
(* than the documentation in one respect: reading a Damaged path may break *)
(* the session, after which reads are arbitrary and writes are lost.       *)
(***************************************************************************)
EXTENDS Sequences, Naturals

CONSTANTS
    Path,       \* the paths callers use
    Value,      \* the contents callers write
    Missing,    \* no record has the path
    Damaged,    \* there is a record, with contents nobody wrote
    NoReply,    \* the last operation returned nothing
    Synced      \* the last operation returned, having stored every write

\* None of the last four is a value, and they differ from each other.

VARIABLES
    session,    \* "closed", or the mode the archive is open in
    stored,     \* [Path -> Value, Missing or Damaged]
    pending,    \* sequence of records [path, value]
    broken,     \* the session read a Damaged path
    reply       \* what the last operation returned

vars == <<session, stored, pending, broken, reply>>

Mode == {"Read", "Write", "Append"}

\* The map after the writes of ws, oldest first: the last write of a path wins.
Apply(map, ws) ==
    [p \in Path |->
        LET hits == {i \in DOMAIN ws : ws[i].path = p}
        IN  IF hits = {} THEN map[p]
            ELSE ws[CHOOSE i \in hits : \A j \in hits : j <= i].value]

\* What a read in this session must return.
Visible == Apply(stored, pending)

\* The file comes to hold map: the contents of a damaged record may change
\* whenever the file does, nothing else may, and no record goes away.
Becomes(map) ==
    /\ stored' \in [Path -> Value \cup {Missing, Damaged}]
    /\ \A p \in Path : IF map[p] = Damaged THEN stored'[p] # Missing ELSE stored'[p] = map[p]

\* The oldest k pending writes reach the file, in order.
Store(k) ==
    /\ pending' = SubSeq(pending, k + 1, Len(pending))
    /\ Becomes(Apply(stored, SubSeq(pending, 1, k)))

Empty == [p \in Path |-> Missing]

Init ==
    /\ session = "closed"
    /\ stored \in [Path -> Value \cup {Missing, Damaged}]
    /\ pending = <<>>
    /\ broken = FALSE
    /\ reply = NoReply

Open(m) ==
    /\ session = "closed"
    /\ session' = m
    /\ reply' = NoReply
    /\ UNCHANGED <<pending, broken>>
    /\ stored' = IF m = "Write" THEN Empty ELSE stored

\* A write of v to p.  With `immediate' it is stored when the call returns.
WritePtr(p, v, immediate) ==
    /\ session \in {"Write", "Append"}
    /\ reply' = IF immediate THEN Synced ELSE NoReply
    /\ UNCHANGED <<session, broken>>
    /\ IF broken
       THEN UNCHANGED <<stored, pending>>
       ELSE LET all == Append(pending, [path |-> p, value |-> v])
                k   == IF immediate THEN Len(all) ELSE 0
            IN  /\ pending' = SubSeq(all, k + 1, Len(all))
                /\ Becomes(Apply(stored, SubSeq(all, 1, k)))

\* A write the backend refuses.  It may store pending writes, never change them.
WriteRefused ==
    /\ session # "closed"
    /\ reply' = NoReply
    /\ UNCHANGED <<session, broken>>
    /\ \E k \in 0..Len(pending) : Store(k)

Read(p) ==
    /\ session # "closed"
    /\ UNCHANGED session
    /\ IF broken \/ Visible[p] = Damaged
       THEN /\ reply' \in Value \cup {Missing, Damaged}
            /\ broken' \in {broken, TRUE}
       ELSE /\ reply' = Visible[p]
            /\ broken' = broken
    /\ \E k \in 0..Len(pending) : Store(k)

EndBulkWrites ==
    /\ session # "closed"
    /\ reply' = Synced
    /\ UNCHANGED <<session, broken>>
    /\ Store(Len(pending))

Close ==
    /\ session # "closed"
    /\ session' = "closed"
    /\ broken' = FALSE
    /\ reply' = NoReply
    /\ Store(Len(pending))

\* The process dies: the oldest k pending writes are stored, and the next one
\* may have been cut short.
Die ==
    /\ session # "closed"
    /\ session' = "closed"
    /\ pending' = <<>>
    /\ broken' = FALSE
    /\ reply' = NoReply
    /\ \E k \in 0..Len(pending) :
         LET kept == Apply(stored, SubSeq(pending, 1, k))
         IN  \/ Becomes(kept)
             \/ /\ k < Len(pending)
                /\ Becomes([kept EXCEPT ![pending[k + 1].path] = Damaged])
                /\ stored'[pending[k + 1].path] = Damaged

Next ==
    \/ \E m \in Mode : Open(m)
    \/ Close
    \/ Die
    \/ EndBulkWrites
    \/ WriteRefused
    \/ \E p \in Path : Read(p)
    \/ \E p \in Path, v \in Value, immediate \in BOOLEAN : WritePtr(p, v, immediate)

Spec == Init /\ [][Next]_vars
=============================================================================
