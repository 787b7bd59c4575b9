----------------------- MODULE SqliteArchiveRefinement -----------------------
(***************************************************************************)
(* The sqlite backend implements SharedStore.  A history variable records  *)
(* the writes of each transaction: one is in the draft when its last chunk *)
(* is, and the draft ends when the transaction does.                       *)
(***************************************************************************)
EXTENDS SqliteArchive

VARIABLE draft

NoWrites == [r \in {} |-> None]

\* The last INSERT of a write in a transaction has finished in this step.
Written(c) ==
    /\ pc[c] \in {"filename", "contents"}
    /\ pc'[c] \in {"commit", "idle"}
    /\ ~busyName'[c]

DraftNext ==
    draft' = [c \in Conn |->
        IF view'[c] = None THEN NoWrites
        ELSE IF Written(c)
        THEN [r \in DOMAIN draft[c] \cup {args[c].path} |->
                IF r = args[c].path THEN args[c].content.chunks ELSE draft[c][r]]
        ELSE draft[c]]

ObservedInit == Init /\ draft = [c \in Conn |-> NoWrites]
ObservedNext == Next /\ DraftNext
ObservedSpec == ObservedInit /\ [][ObservedNext]_<<vars, draft>>

Store == INSTANCE SharedStore WITH
    Value  <- {v.chunks : v \in Content},
    stored <- [r \in Path |-> ValueIn(db, r)]

\* Transactions are atomic and isolated: a connection reads its own writes and the
\* committed writes of others, whole transactions of them, through immediate and
\* bulk writes, SQLITE_BUSY at every step, exceptions and deaths.
ImplementsStore == Store!Spec
=============================================================================
