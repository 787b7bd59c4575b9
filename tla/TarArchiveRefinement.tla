------------------------ MODULE TarArchiveRefinement ------------------------
(***************************************************************************)
(* The tar backend implements Archive: the map is what is found in the     *)
(* file, the pending writes are the records in the stream's buffer.        *)
(***************************************************************************)
EXTENDS TarArchiveRecords

\* The records still in the buffer.
Unwritten ==
    LET all  == Records(Flushed)
        kept == Len(Records(disk))
    IN  IF buf = <<>> THEN <<>>
        ELSE [i \in 1..(Len(all) - kept) |->
                [path |-> all[kept + i].path, value |-> ContentOf(Flushed, all[kept + i])]]

\* Two history variables hold these functions of the state.
VARIABLES found, unwritten

ObservedInit == Init /\ found = FoundIn(disk) /\ unwritten = Unwritten
ObservedNext == Next /\ found' = FoundIn(disk') /\ unwritten' = Unwritten'
ObservedSpec == ObservedInit /\ [][ObservedNext]_<<vars, found, unwritten>>

\* The scan of the constructor goes on.
FairObservedSpec == ObservedSpec /\ WF_vars(Scan)

A == INSTANCE Archive WITH
        Value   <- Content,
        session <- IF pc = "closed" THEN "closed" ELSE m_mode,
        stored  <- found,
        pending <- unwritten,
        broken  <- pc = "open" /\ fail,
        reply   <- IF reply \in Content \cup {NoReply, Synced, Missing} THEN reply ELSE Damaged

\* The tar backend keeps the promise of Archive through reads that share its
\* stream, buffered and immediate writes, crashes at any cell and reopening.
ImplementsArchive == A!Spec
=============================================================================
