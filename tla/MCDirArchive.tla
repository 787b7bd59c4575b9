---------------------------- MODULE MCDirArchive ----------------------------
(* Small instances of DirArchive for TLC. *)
EXTENDS DirArchiveRefinement, TLC

CONSTANTS p1, p2, a, out, d, x

MCProc == {p1, p2}
EitherProc == Permutations(MCProc)
MCRoot == <<out>>

\* A file next to a directory that bears the name of another.
MCPaths == {<<x>>, <<d>>, <<d, x>>}
MCContent == {<<a, a>>, <<Zero>>}

Tree(names) == [y \in {<<>>} \cup DOMAIN names |-> IF y = <<>> THEN Dir ELSE names[y]]

\* Nothing, a file in the place of the directory, and an archive with two records.
MCNodes ==
    { Tree(<<>>),
      Tree(<<out>> :> <<a>>),
      Tree((<<out>> :> Dir) @@ (<<out, x>> :> <<Zero>>) @@ (<<out, d>> :> Dir) @@ (<<out, d, x>> :> <<Zero>>)) }

\* No action reads reply or tells the modes for writing apart: two states that differ in
\* nothing else have the same steps.
WithoutReply ==
    <<node, [q \in Proc |-> IF m_mode[q] = "Append" THEN "Write" ELSE m_mode[q]],
      m_fileNames, m_createdDirectories, search, call, torn, overlapped, there>>
=============================================================================
