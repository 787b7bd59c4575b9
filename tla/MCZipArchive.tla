---------------------------- MODULE MCZipArchive ----------------------------
(* Small instances of ZipArchive for TLC. *)
EXTENDS ZipArchiveRefinement, TLC

CONSTANTS p1, p2, a, b, p, s, bad

MCContent == {<<>>, <<a>>}
MCLongContent == {<<a, a, a, a>>}
MCNoFiles == {<<>>}
MCProc == {p1, p2}
\* No action reads reply: two states that differ in nothing else have the same steps.
WithoutReply == <<disk, exists, m_mode, directory, position, m_path_map, stream, found, disturbed>>

EitherProc == Permutations(MCProc)
MCPaths == {p, s, bad}

\* The end of an archive of which the n entries of the directory begin at o.
End64Of(n, o) == [entries64 |-> n, dir64 |-> o]
EndOfDir(n, o) == [entries |-> n, dir |-> o]

\* A file of size 0, one that is not an archive, an archive without records, one in
\* the old format, and one with a record that was written twice.
MCFiles ==
    { <<>>,
      <<a, b>>,
      <<End64Of(0, 0), [end64 |-> 0], EndOfDir(0, 0)>>,
      <<[local |-> p], a, Footer, [path |-> p, ofs |-> 0, content |-> <<a>>], EndOfDir(1, 3)>>,
      <<[local |-> p], a, Footer, [local |-> s],
        [path |-> p, ofs |-> 0, content |-> <<a>>], [path |-> s, ofs |-> 3, content |-> <<>>],
        End64Of(2, 4), [end64 |-> 6], EndOfDir(2, 4)>> }
=============================================================================
